--------------------------------- MODULE Mux ---------------------------------
(***************************************************************************)
(* TLMP sessions and streams of desktop/internal/mux (session.go and       *)
(* stream.go): two sessions joined by one ordered, reliable connection.    *)
(*                                                                         *)
(* Each end runs the goroutines the code runs: the session's readLoop, at  *)
(* most one closeWithError body (sync.Once), the Accept loop, any number   *)
(* of Open calls and, for every stream the application holds, one reader,  *)
(* one writer and one Close call.  A step is what a goroutine does between *)
(* two lock boundaries.  A condition variable is a guard: every change of  *)
(* a field the waiting loops read broadcasts under the stream's lock.      *)
(*                                                                         *)
(* Bytes are counted in units.  The transport never fills up here, so a    *)
(* write does not block; back-pressure and PING/PONG are the subject of    *)
(* module KeepAlive, and keepAliveLoop closes the session at any time.     *)
(***************************************************************************)
EXTENDS Integers, Sequences, FiniteSets

CONSTANTS
    MaxStreams,     \* bound: streams each end may open
    InitialWindow,  \* Config.InitialWindow, in units
    MaxFrame,       \* Config.MaxFramePayload, in units
    AcceptDepth,    \* Config.AcceptQueueDepth
    Targets,        \* the targets Open is called with
    Openers,        \* the ends whose application opens streams
    WriteLimit,     \* bound: WriteLimit[e][i] units are written by e on stream i
    StreamClosers,  \* the ends whose application calls Stream.Close
    SessionClosers, \* the ends whose application calls Session.Close
    KeepAlives,     \* the ends whose keepAliveLoop may close the session
    LateWrites,     \* may the application write while or after it closes?
    LinkMayFail     \* may the connection break?

Ends == {"ini", "rsp"}                  \* "ini" has IsInitiator = TRUE
Peer(e) == IF e = "ini" THEN "rsp" ELSE "ini"

GoodTarget == 1                         \* ParseTarget accepts it
BadTarget  == 0                         \* e.g. the zero Target

FirstID(e) == IF e = "ini" THEN 1 ELSE 2
Ids    == 1 .. 2 * MaxStreams
Own(e) == {i \in Ids : i % 2 = FirstID(e) % 2}  \* ids end e allocates
Used   == UNION {Own(e) : e \in Openers}  \* ids that streams may have

ASSUME MuxAssumption ==
    /\ MaxStreams \in Nat
    /\ InitialWindow \in Nat \ {0}
    /\ MaxFrame \in Nat \ {0}
    /\ AcceptDepth \in Nat \ {0}
    /\ Targets \subseteq {GoodTarget, BadTarget}
    /\ Openers \subseteq Ends
    /\ WriteLimit \in [Ends -> [Ids -> Nat]]
    /\ StreamClosers \subseteq Ends
    /\ SessionClosers \subseteq Ends
    /\ KeepAlives \subseteq Ends
    /\ LateWrites \in BOOLEAN
    /\ LinkMayFail \in BOOLEAN

ReasonNormal   == 0
ReasonProtocol == 1
ReasonBusy     == 2                     \* also ReasonDupStream

\* n is the payload: a target, a cause, units of credit or units of data.
StreamFlags == {"SYN", "FIN", "RST", "WIN", "DATA"}
Frames == [flag : StreamFlags, id : Ids, n : Nat]
            \cup [flag : {"GOAWAY"}, id : {0}, n : Nat]
Frame(flag, id, n) == [flag |-> flag, id |-> id, n |-> n]

VARIABLES
    link,      \* link[e]: frames on their way to e
    up,        \* the connection works
    phase,     \* phase[e]: how far closeWithError of e has come
    cause,     \* cause[e]: who called closeWithError first: "nil" for the
               \*   application (or nobody yet), "read", "keepalive"
    closed,    \* ends with s.closed set (and s.done closed)
    conn,      \* ends whose side of the connection is not closed
    nextID,    \* Session.nextID
    accepting, \* ends whose Accept loop runs
    fault,     \* ends where pushData found the window exceeded
    live,      \* live[e]: the keys of Session.streams
    sendWin,   \* sendWin[e][i]: Stream.sendWin of stream i at e
    buf,       \* buf[e][i]: len(Stream.buf)
    finRecv,   \* finRecv[e]: the streams of e with finRecv set; the same
    finSent,   \*   for the next three flags
    reset,
    sclosed,
    acc,       \* acc[e]: Session.acceptCh
    rl,        \* rl[e]: where e's readLoop is
    held,      \* held[e]: streams Open or Accept has returned
    opening,   \* opening[e]: ids registered by an Open that has not sent SYN
    wr,        \* wr[e][i]: units a Write has taken and not framed yet
    wend,      \* wend[e]: streams whose Write has returned an error
    rd,        \* rd[e][i]: units a Read has consumed and not credited yet
    rend,      \* rend[e][i]: how Read ended: open, eof, reset, closed
    cl,        \* cl[e][i]: Stream.Close: open, retire, fin, done
    sent,      \* sent[e][i]: units framed so far
    got        \* got[e][i]: units read so far

conVars  == <<link, up>>
sesVars  == <<phase, cause, closed, conn, nextID, accepting, fault>>
flags    == <<finRecv, finSent, reset, sclosed>>
strVars  == <<live, sendWin, buf, flags>>
loopVars == <<acc, rl>>
writeVars == <<wr, wend, sent>>
readVars == <<rd, rend, got>>
appVars  == <<held, opening, writeVars, readVars, cl>>
vars == <<conVars, sesVars, strVars, loopVars, appVars>>

PerStream(v) == [e \in Ends |-> [i \in Ids |-> v]]
PerEnd(v)    == [e \in Ends |-> v]

Init ==
    /\ link = PerEnd(<<>>) /\ up = TRUE
    /\ phase = PerEnd("open") /\ cause = PerEnd("nil")
    /\ closed = {} /\ conn = Ends /\ accepting = Ends /\ fault = {}
    /\ nextID = [e \in Ends |-> FirstID(e)]
    /\ live = PerEnd({})
    /\ sendWin = PerStream(InitialWindow) /\ buf = PerStream(0)
    /\ finRecv = PerEnd({}) /\ finSent = PerEnd({})
    /\ reset = PerEnd({}) /\ sclosed = PerEnd({})
    /\ acc = PerEnd(<<>>) /\ rl = PerEnd([pc |-> "read", id |-> 0])
    /\ held = PerEnd({}) /\ opening = PerEnd({})
    /\ wr = PerStream(0) /\ wend = PerEnd({}) /\ sent = PerStream(0)
    /\ rd = PerStream(0) /\ rend = PerStream("open") /\ got = PerStream(0)
    /\ cl = PerStream("open")

Set(f, e, i)   == [f EXCEPT ![e] = @ \cup {i}]
Clear(f, e, i) == [f EXCEPT ![e] = @ \ {i}]

\* newStream, for an id the end has never used.
NewStream(e, i) ==
    /\ sendWin' = [sendWin EXCEPT ![e][i] = InitialWindow]
    /\ buf' = [buf EXCEPT ![e][i] = 0]
    /\ finRecv' = Clear(finRecv, e, i) /\ finSent' = Clear(finSent, e, i)
    /\ reset' = Clear(reset, e, i) /\ sclosed' = Clear(sclosed, e, i)

-----------------------------------------------------------------------------
(* writeFrame and the connection under it.                                 *)

\* writeFrame succeeds.  What is written to a broken connection, or to one
\* the peer has closed, is lost.
Sends(e, f) ==
    /\ e \notin closed /\ e \in conn
    /\ link' = IF up /\ Peer(e) \in conn
               THEN [link EXCEPT ![Peer(e)] = Append(@, f)] ELSE link

\* writeFrame returns an error: the session is closed, or the connection is
\* closed on either side or broken.
SendFails(e) ==
    /\ e \in closed \/ e \notin conn \/ ~up \/ Peer(e) \notin conn
    /\ UNCHANGED link

\* A writeFrame whose error the caller drops.
SendsOrFails(e, f) == Sends(e, f) \/ SendFails(e)

\* The connection breaks; each end keeps a prefix of what was in flight.
LinkDrop ==
    /\ LinkMayFail /\ up
    /\ up' = FALSE
    /\ \E k \in 0 .. Len(link["ini"]), m \in 0 .. Len(link["rsp"]) :
          link' = [link EXCEPT !["ini"] = SubSeq(@, 1, k),
                               !["rsp"] = SubSeq(@, 1, m)]
    /\ UNCHANGED <<sesVars, strVars, loopVars, appVars>>

-----------------------------------------------------------------------------
(* Session.Open and Session.Accept.                                        *)

\* s.nextID += 2
AfterID(id) == id + 2

OpenRegister(e) ==
    LET id == nextID[e]
    IN  /\ e \in Openers
        /\ id \in Ids
        /\ e \notin closed
        /\ nextID' = [nextID EXCEPT ![e] = AfterID(@)]
        /\ NewStream(e, id)
        /\ live' = Set(live, e, id)
        /\ opening' = Set(opening, e, id)
        /\ UNCHANGED <<conVars, phase, cause, closed, conn, accepting, fault,
                       loopVars, held, writeVars, readVars, cl>>

OpenSend(e, i) ==
    /\ i \in opening[e]
    /\ opening' = Clear(opening, e, i)
    /\ \/ /\ \E t \in Targets : Sends(e, Frame("SYN", i, t))
          /\ held' = Set(held, e, i)
          /\ UNCHANGED live
       \/ /\ SendFails(e)
          /\ live' = Clear(live, e, i)
          /\ UNCHANGED held
    /\ UNCHANGED <<up, sesVars, sendWin, buf, flags, loopVars, writeVars,
                   readVars, cl>>

\* Accept may still return a queued stream after done is closed: a select
\* with two ready cases picks either.
Accept(e) ==
    /\ e \in accepting
    /\ \/ /\ acc[e] # <<>>
          /\ held' = Set(held, e, Head(acc[e]))
          /\ acc' = [acc EXCEPT ![e] = Tail(@)]
          /\ UNCHANGED accepting
       \/ /\ e \in closed
          /\ accepting' = accepting \ {e}
          /\ UNCHANGED <<held, acc>>
    /\ UNCHANGED <<conVars, phase, cause, closed, conn, nextID, fault, strVars,
                   rl, opening, writeVars, readVars, cl>>

-----------------------------------------------------------------------------
(* Stream.Read, Stream.Write and Stream.Close.                             *)

Reads(e, i) == i \in held[e] /\ rend[e][i] = "open" /\ rd[e][i] = 0

ReadData(e, i) ==
    /\ Reads(e, i)
    /\ \E n \in 1 .. buf[e][i] :
          /\ buf' = [buf EXCEPT ![e][i] = @ - n]
          /\ rd' = [rd EXCEPT ![e][i] = n]
          /\ got' = [got EXCEPT ![e][i] = @ + n]
    /\ UNCHANGED <<conVars, sesVars, live, sendWin, flags, loopVars, held,
                   opening, writeVars, rend, cl>>

\* Fault: Read credits one unit it has not consumed.
CreditTooMuch(e, i) == rd[e][i] + 1

\* Fault: Read holds small credits back and never adds them up.
CreditHeldBack(e, i) == IF rd[e][i] > 1 THEN rd[e][i] ELSE 0

\* The credit a Read returns in its WIN frame.
Credit(e, i) == rd[e][i]

ReadCredit(e, i) ==
    /\ rd[e][i] > 0
    /\ SendsOrFails(e, Frame("WIN", i, Credit(e, i)))
    /\ rd' = [rd EXCEPT ![e][i] = 0]
    /\ UNCHANGED <<up, sesVars, strVars, loopVars, held, opening, writeVars,
                   rend, got, cl>>

\* Fault: Read looks at finRecv before it drains the buffer.
FinFirst(e, i) ==
    CASE i \in reset[e] -> "reset"
      [] i \in finRecv[e] \ reset[e] -> "eof"
      [] OTHER -> IF buf[e][i] = 0 /\ i \in sclosed[e] THEN "closed" ELSE "open"

\* What Read returns; "open" is to return data or to keep waiting.
ReadVerdict(e, i) ==
    IF buf[e][i] > 0 THEN "open"
    ELSE IF i \in reset[e] THEN "reset"
    ELSE IF i \in finRecv[e] THEN "eof"
    ELSE IF i \in sclosed[e] THEN "closed"
    ELSE "open"

ReadEnd(e, i) ==
    /\ Reads(e, i)
    /\ ReadVerdict(e, i) # "open"
    /\ rend' = [rend EXCEPT ![e][i] = ReadVerdict(e, i)]
    /\ UNCHANGED <<conVars, sesVars, strVars, loopVars, held, opening,
                   writeVars, rd, got, cl>>

\* Fault: Write looks at MaxFramePayload only.
RoomOfFrame(e, i) == MaxFrame

\* The most a Write may frame at once.
Room(e, i) == IF sendWin[e][i] < MaxFrame THEN sendWin[e][i] ELSE MaxFrame

Writes(e, i) ==
    /\ i \in held[e] \ wend[e]
    /\ wr[e][i] = 0
    /\ LateWrites \/ i \notin finSent[e]

WriteTake(e, i) ==
    /\ Writes(e, i)
    /\ i \notin reset[e]
    /\ \E n \in 1 .. Room(e, i) :
          /\ sent[e][i] + n <= WriteLimit[e][i]
          /\ sendWin' = [sendWin EXCEPT ![e][i] = @ - n]
          /\ wr' = [wr EXCEPT ![e][i] = n]
    /\ UNCHANGED <<conVars, sesVars, live, buf, flags, loopVars, held, opening,
                   wend, sent, readVars, cl>>

WriteSend(e, i) ==
    /\ wr[e][i] > 0
    /\ wr' = [wr EXCEPT ![e][i] = 0]
    /\ \/ /\ Sends(e, Frame("DATA", i, wr[e][i]))
          /\ sent' = [sent EXCEPT ![e][i] = @ + wr[e][i]]
          /\ UNCHANGED wend
       \/ /\ SendFails(e)
          /\ wend' = Set(wend, e, i)
          /\ UNCHANGED sent
    /\ UNCHANGED <<up, sesVars, strVars, loopVars, held, opening, readVars, cl>>

\* The errors a Write meets before it frames anything.
WriteRefused(e, i) ==
    \/ i \in reset[e]
    \/ sendWin[e][i] = 0 /\ i \in sclosed[e] \cup finSent[e]

WriteError(e, i) ==
    /\ Writes(e, i)
    /\ sent[e][i] < WriteLimit[e][i]
    /\ WriteRefused(e, i)
    /\ wend' = Set(wend, e, i)
    /\ UNCHANGED <<conVars, sesVars, strVars, loopVars, held, opening, wr, sent,
                   readVars, cl>>

\* Fault: neither side retires the stream.
NeverBoth(other) == FALSE

\* "both" in Close and remoteClosed, given the other half's flag.
BothClosed(other) == other

StreamClose(e, i) ==
    /\ e \in StreamClosers
    /\ i \in held[e]
    /\ cl[e][i] = "open"
    /\ LateWrites \/ wr[e][i] = 0
    /\ finSent' = Set(finSent, e, i)
    /\ cl' = [cl EXCEPT ![e][i] =
                 IF BothClosed(i \in finRecv[e]) THEN "retire" ELSE "fin"]
    /\ UNCHANGED <<conVars, sesVars, live, sendWin, buf, finRecv, reset, sclosed,
                   loopVars, held, opening, writeVars, readVars>>

StreamCloseRetire(e, i) ==
    /\ cl[e][i] = "retire"
    /\ live' = Clear(live, e, i)
    /\ cl' = [cl EXCEPT ![e][i] = "fin"]
    /\ UNCHANGED <<conVars, sesVars, sendWin, buf, flags, loopVars, held, opening,
                   writeVars, readVars>>

StreamCloseSend(e, i) ==
    /\ cl[e][i] = "fin"
    /\ SendsOrFails(e, Frame("FIN", i, 0))
    /\ cl' = [cl EXCEPT ![e][i] = "done"]
    /\ UNCHANGED <<up, sesVars, strVars, loopVars, held, opening, writeVars,
                   readVars>>

-----------------------------------------------------------------------------
(* closeWithError: the body of closeOnce.  Session.Close passes no cause,   *)
(* readLoop and keepAliveLoop do.                                           *)

Closing(e, why) ==
    IF phase[e] = "open"
    THEN phase' = [phase EXCEPT ![e] = "goaway"]
         /\ cause' = [cause EXCEPT ![e] = why]
    ELSE UNCHANGED <<phase, cause>>

SessionClose(e) ==
    /\ e \in SessionClosers
    /\ phase[e] = "open"
    /\ Closing(e, "nil")
    /\ UNCHANGED <<conVars, closed, conn, nextID, accepting, fault, strVars,
                   loopVars, appVars>>

\* keepAliveLoop: its PING failed, or nothing has come for too long.
KeepAliveCloses(e) ==
    /\ e \in KeepAlives
    /\ phase[e] = "open"
    /\ Closing(e, "keepalive")
    /\ UNCHANGED <<conVars, closed, conn, nextID, accepting, fault, strVars,
                   loopVars, appVars>>

\* What the GOAWAY says.
Reason(e) == IF cause[e] = "nil" THEN ReasonNormal ELSE ReasonProtocol

\* Fault: the streams are swept before s.closed is set.
SweepFirst == [goaway |-> "sweep", sweep |-> "mark", mark |-> "conn",
               conn |-> "closed"]

\* Fault: the streams are not swept.
NoSweep == [goaway |-> "mark", mark |-> "conn", conn |-> "closed",
            sweep |-> "closed"]

\* The order of closeWithError's steps.
After == [goaway |-> "mark", mark |-> "conn", conn |-> "sweep",
          sweep |-> "closed"]

Advance(e, from) ==
    /\ phase[e] = from
    /\ phase' = [phase EXCEPT ![e] = After[from]]

TearGoaway(e) ==
    /\ Advance(e, "goaway")
    /\ SendsOrFails(e, Frame("GOAWAY", 0, Reason(e)))
    /\ UNCHANGED <<up, cause, closed, conn, nextID, accepting, fault, strVars,
                   loopVars, appVars>>

\* closed.Store(true) and close(done).
TearMark(e) ==
    /\ Advance(e, "mark")
    /\ closed' = closed \cup {e}
    /\ UNCHANGED <<conVars, cause, conn, nextID, accepting, fault, strVars,
                   loopVars, appVars>>

\* conn.Close(): what was in flight toward e is lost.
TearConn(e) ==
    /\ Advance(e, "conn")
    /\ conn' = conn \ {e}
    /\ link' = [link EXCEPT ![e] = <<>>]
    /\ UNCHANGED <<up, cause, closed, nextID, accepting, fault, strVars,
                   loopVars, appVars>>

\* Under s.mu: every registered stream gets sessionClosed, the table is reset.
TearSweep(e) ==
    /\ Advance(e, "sweep")
    /\ sclosed' = [sclosed EXCEPT ![e] = @ \cup live[e]]
    /\ live' = [live EXCEPT ![e] = {}]
    /\ UNCHANGED <<conVars, cause, closed, conn, nextID, accepting, fault,
                   sendWin, buf, finRecv, finSent, reset, loopVars, appVars>>

-----------------------------------------------------------------------------
(* readLoop and handleFrame.  rl[e].pc names the next step:                 *)
(*   read      ReadFrame          register  handleSYN's critical section    *)
(*   offer     acceptCh <- st     refuse    remoteReset of an overflow      *)
(*   rst       abortStream        retire    removeStream after both FINs    *)
(*   reset     remoteReset        exit      closeWithError has been called  *)
(* Reading a frame and looking its stream up are one step, except for SYN:  *)
(* a closeWithError in between empties the table, which is the same as      *)
(* losing the frame with the connection, but a SYN adds to the table.       *)

RlTo(e, pc, i) == rl' = [rl EXCEPT ![e] = [pc |-> pc, id |-> i]]

\* handleSYN, up to ParseTarget.
RecvSYN(e, f) ==
    /\ RlTo(e, IF f.n = BadTarget THEN "rst" ELSE "register", f.id)
    /\ UNCHANGED <<phase, cause, fault, strVars>>

\* pushData's window check.
Overruns(e, f) == buf[e][f.id] + f.n > InitialWindow

RecvDATA(e, f) ==
    \/ /\ f.id \notin live[e]
       /\ RlTo(e, "rst", f.id)
       /\ UNCHANGED <<phase, cause, fault, strVars>>
    \/ /\ f.id \in live[e]
       /\ Overruns(e, f)
       /\ Closing(e, "read")
       /\ fault' = fault \cup {e}
       /\ RlTo(e, "exit", 0)
       /\ UNCHANGED strVars
    \/ /\ f.id \in live[e]
       /\ ~Overruns(e, f)
       /\ buf' = [buf EXCEPT ![e][f.id] = @ + f.n]
       /\ UNCHANGED <<phase, cause, fault, live, sendWin, flags, rl>>

\* Fault: a FIN is dropped while data is buffered.
RecvFINDropped(e, f) ==
    /\ finRecv' = IF f.id \in live[e] /\ buf[e][f.id] = 0
                  THEN Set(finRecv, e, f.id) ELSE finRecv
    /\ UNCHANGED <<phase, cause, fault, live, sendWin, buf, finSent, reset,
                   sclosed, rl>>

\* remoteClosed.
RecvFIN(e, f) ==
    /\ finRecv' = IF f.id \in live[e] THEN Set(finRecv, e, f.id) ELSE finRecv
    /\ IF f.id \in live[e] /\ BothClosed(f.id \in finSent[e])
       THEN RlTo(e, "retire", f.id) ELSE UNCHANGED rl
    /\ UNCHANGED <<phase, cause, fault, live, sendWin, buf, finSent, reset,
                   sclosed>>

\* resetStream, up to the removal from the table.
RecvRST(e, f) ==
    /\ live' = Clear(live, e, f.id)
    /\ IF f.id \in live[e] THEN RlTo(e, "reset", f.id) ELSE UNCHANGED rl
    /\ UNCHANGED <<phase, cause, fault, sendWin, buf, flags>>

RecvWIN(e, f) ==
    /\ sendWin' = IF f.id \in live[e]
                  THEN [sendWin EXCEPT ![e][f.id] = @ + f.n] ELSE sendWin
    /\ UNCHANGED <<phase, cause, fault, live, buf, flags, rl>>

\* handleFrame returns ErrSessionClosed, a non-nil cause.
RecvGOAWAY(e, f) ==
    /\ Closing(e, "read")
    /\ RlTo(e, "exit", 0)
    /\ UNCHANGED <<fault, strVars>>

Receive(e) ==
    /\ rl[e].pc = "read"
    /\ e \in conn
    /\ link[e] # <<>>
    /\ link' = [link EXCEPT ![e] = Tail(@)]
    /\ LET f == Head(link[e])
       IN  \/ f.flag = "SYN"    /\ RecvSYN(e, f)
           \/ f.flag = "DATA"   /\ RecvDATA(e, f)
           \/ f.flag = "FIN"    /\ RecvFIN(e, f)
           \/ f.flag = "RST"    /\ RecvRST(e, f)
           \/ f.flag = "WIN"    /\ RecvWIN(e, f)
           \/ f.flag = "GOAWAY" /\ RecvGOAWAY(e, f)
    /\ UNCHANGED <<up, closed, conn, nextID, accepting, acc, appVars>>

\* ReadFrame fails: the deferred closeWithError(io.EOF).
ReceiveFails(e) ==
    /\ rl[e].pc = "read"
    /\ \/ e \notin conn
       \/ link[e] = <<>> /\ (~up \/ Peer(e) \notin conn)
    /\ Closing(e, "read")
    /\ RlTo(e, "exit", 0)
    /\ UNCHANGED <<conVars, closed, conn, nextID, accepting, fault, strVars, acc,
                   appVars>>

\* handleSYN registers the stream, and does so even after the sweep.
RlRegister(e) ==
    LET id == rl[e].id
    IN  /\ rl[e].pc = "register"
        /\ \/ /\ id \in live[e]
              /\ RlTo(e, "rst", id)
              /\ UNCHANGED strVars
           \/ /\ id \notin live[e]
              /\ NewStream(e, id)
              /\ live' = Set(live, e, id)
              /\ RlTo(e, "offer", id)
        /\ UNCHANGED <<conVars, sesVars, acc, appVars>>

\* Fault: an overflow leaves the refused stream registered.
StaysRegistered(e, id) == live

\* resetStream's delete.
Unregistered(e, id) == Clear(live, e, id)

\* handleSYN's non-blocking send; on overflow, resetStream.
RlOffer(e) ==
    /\ rl[e].pc = "offer"
    /\ \/ /\ Len(acc[e]) < AcceptDepth
          /\ acc' = [acc EXCEPT ![e] = Append(@, rl[e].id)]
          /\ RlTo(e, "read", 0)
          /\ UNCHANGED live
       \/ /\ Len(acc[e]) >= AcceptDepth
          /\ live' = Unregistered(e, rl[e].id)
          /\ RlTo(e, "refuse", rl[e].id)
          /\ UNCHANGED acc
    /\ UNCHANGED <<conVars, sesVars, sendWin, buf, flags, appVars>>

RlReset(e) ==
    /\ rl[e].pc \in {"reset", "refuse"}
    /\ reset' = Set(reset, e, rl[e].id)
    /\ IF rl[e].pc = "refuse" THEN RlTo(e, "rst", rl[e].id) ELSE RlTo(e, "read", 0)
    /\ UNCHANGED <<conVars, sesVars, live, sendWin, buf, finRecv, finSent, sclosed,
                   acc, appVars>>

RlRetire(e) ==
    /\ rl[e].pc = "retire"
    /\ live' = Clear(live, e, rl[e].id)
    /\ RlTo(e, "read", 0)
    /\ UNCHANGED <<conVars, sesVars, sendWin, buf, flags, acc, appVars>>

\* abortStream.  The reason is not looked at by the peer.
RlAbort(e) ==
    /\ rl[e].pc = "rst"
    /\ SendsOrFails(e, Frame("RST", rl[e].id, ReasonBusy))
    /\ RlTo(e, "read", 0)
    /\ UNCHANGED <<up, sesVars, strVars, acc, appVars>>

-----------------------------------------------------------------------------
ReadLoop(e) ==
    Receive(e) \/ ReceiveFails(e) \/ RlRegister(e) \/ RlOffer(e) \/ RlReset(e) \/ RlRetire(e)
      \/ RlAbort(e)

SessionEnds(e) == SessionClose(e) \/ KeepAliveCloses(e)

TearDown(e) == TearGoaway(e) \/ TearMark(e) \/ TearConn(e) \/ TearSweep(e)

Reading(e, i) == ReadData(e, i) \/ ReadCredit(e, i) \/ ReadEnd(e, i)
Write(e, i)   == WriteTake(e, i) \/ WriteSend(e, i) \/ WriteError(e, i)
Close(e, i)   == StreamClose(e, i) \/ StreamCloseRetire(e, i)
                   \/ StreamCloseSend(e, i)

Next ==
    \/ LinkDrop
    \/ \E e \in Ends :
         \/ OpenRegister(e) \/ Accept(e) \/ SessionEnds(e)
         \/ ReadLoop(e) \/ TearDown(e)
         \/ \E i \in Ids : OpenSend(e, i) \/ Reading(e, i) \/ Write(e, i)
                             \/ Close(e, i)

Spec == Init /\ [][Next]_vars

\* Goroutines keep running: every step a started call or a loop of the
\* session can take is eventually taken.  Nothing obliges an application to
\* open, to write or to close; the reader and Accept loops of the relay do
\* keep calling.
Fairness ==
    \A e \in Ends :
       /\ WF_vars(ReadLoop(e))
       /\ WF_vars(TearDown(e))
       /\ WF_vars(Accept(e))
       /\ \A i \in Used :
            /\ WF_vars(OpenSend(e, i))
            /\ WF_vars(Reading(e, i))
            /\ WF_vars(WriteSend(e, i) \/ WriteError(e, i))
            /\ WF_vars(StreamCloseRetire(e, i) \/ StreamCloseSend(e, i))

FairSpec == Spec /\ Fairness
-----------------------------------------------------------------------------
(* Properties.                                                             *)

ConType == link \in [Ends -> Seq(Frames)] /\ up \in BOOLEAN
SesType ==
    /\ phase \in [Ends -> {"open", "goaway", "mark", "conn", "sweep", "closed"}]
    /\ cause \in [Ends -> {"nil", "read", "keepalive"}]
    /\ closed \subseteq Ends /\ conn \subseteq Ends
    /\ accepting \subseteq Ends /\ fault \subseteq Ends
    /\ nextID \in [Ends -> Nat]
StrType ==
    /\ live \in [Ends -> SUBSET Ids]
    /\ sendWin \in [Ends -> [Ids -> Nat]] /\ buf \in [Ends -> [Ids -> Nat]]
    /\ finRecv \in [Ends -> SUBSET Ids] /\ finSent \in [Ends -> SUBSET Ids]
    /\ reset \in [Ends -> SUBSET Ids] /\ sclosed \in [Ends -> SUBSET Ids]
LoopType ==
    /\ acc \in [Ends -> Seq(Ids)]
    /\ rl \in [Ends -> [pc : {"read", "register", "offer", "refuse", "rst",
                              "reset", "retire", "exit"}, id : Ids \cup {0}]]
    /\ \A e \in Ends : rl[e].id = 0 => rl[e].pc \in {"read", "exit"}
AppType ==
    /\ held \in [Ends -> SUBSET Ids] /\ opening \in [Ends -> SUBSET Ids]
    /\ wr \in [Ends -> [Ids -> Nat]] /\ sent \in [Ends -> [Ids -> Nat]]
    /\ wend \in [Ends -> SUBSET Ids]
    /\ rd \in [Ends -> [Ids -> Nat]] /\ got \in [Ends -> [Ids -> Nat]]
    /\ rend \in [Ends -> [Ids -> {"open", "eof", "reset", "closed"}]]
    /\ cl \in [Ends -> [Ids -> {"open", "retire", "fin", "done"}]]

\* Every variable has its type; in particular Write never takes more than
\* sendWin (stream.go Write), and a frame about a stream names one.
TypeOK == ConType /\ SesType /\ StrType /\ LoopType /\ AppType

\* pushData's window check never fails against a conforming writer: no end
\* tears the session down with a protocol error (stream.go pushData).
NoOverrun == fault = {}

\* An id names one stream: handleSYN takes any id that is not in the table, and
\* only Open's counter keeps one from coming back.  What enters the table has
\* not been used at that end, so newStream overwrites no counter, and nothing
\* that was sent for it before is still on its way (session.go Open, handleSYN).
EntersUnused(e, i) ==
    /\ i \notin held[e] /\ cl[e][i] = "open" /\ rend[e][i] = "open"
    /\ sent[e][i] = 0 /\ got[e][i] = 0
    /\ \A k \in 1 .. Len(link[Peer(e)]) : link[Peer(e)][k].id # i

IdsComeOnce ==
    [][\A e \in Ends, i \in Ids : i \in live'[e] \ live[e] => EntersUnused(e, i)]_vars

\* A Read that returns io.EOF has delivered every unit the peer's Writes
\* framed: the FIN overtakes nothing and the buffer is drained first.
EofIsComplete ==
    \A e \in Ends, i \in Ids :
       rend[e][i] = "eof" => got[e][i] = sent[Peer(e)][i]

\* A stream whose two halves are closed leaves the table, whichever of Close
\* and remoteClosed sees the other's flag: no entry leaks.
FinishedIsRetired ==
    \A e \in Ends, i \in Ids :
       i \in live[e] \cap finSent[e] \cap finRecv[e]
         => \/ cl[e][i] = "retire"
            \/ rl[e] = [pc |-> "retire", id |-> i]

\* Every registered stream is in somebody's hands: Open or Accept has returned
\* it, or it is queued for Accept, or Open or handleSYN is about to do so.
\* A refused SYN leaves no entry behind (handleSYN).
RegisteredIsReachable ==
    \A e \in Ends : \A i \in live[e] :
       \/ i \in held[e] \cup opening[e]
       \/ \E k \in 1 .. Len(acc[e]) : acc[e][k] = i
       \/ rl[e] = [pc |-> "offer", id |-> i]

\* The streams nobody can block on forever: Read and a Write without credit
\* return at once.
Ended(e) == sclosed[e] \cup reset[e] \cup (finSent[e] \cap finRecv[e])

\* After closeWithError, every stream that Open returned has been woken, even
\* one whose Open, reset or retirement raced with the sweep.
OpenedIsWoken ==
    \A e \in Ends : \A i \in held[e] \cap Own(e) :
       (phase[e] = "closed" /\ rl[e] # [pc |-> "reset", id |-> i])
         => i \in Ended(e)

\* Why OpenedIsWoken holds.  An own stream in use is registered, or on its way
\* out with its users about to be woken, or its users have been woken.
Tracked(e, i) ==
    i \in live[e] \/ rl[e] = [pc |-> "reset", id |-> i] \/ i \in Ended(e)

\* The ids of SYN frames, of queued streams and of streams in the readLoop's
\* hands are the peer's.
SynOwner ==
    \A e \in Ends : \A k \in 1 .. Len(link[e]) :
       link[e][k].flag = "SYN" => link[e][k].id \notin Own(e)
HandOwner ==
    \A e \in Ends :
       /\ \A k \in 1 .. Len(acc[e]) : acc[e][k] \notin Own(e)
       /\ rl[e].pc \in {"register", "offer", "refuse"} => rl[e].id \notin Own(e)

\* Own ids come from nextID only.
FreshIds ==
    \A e \in Ends :
       /\ nextID[e] % 2 = FirstID(e) % 2
       /\ opening[e] \subseteq Own(e) /\ opening[e] \cap held[e] = {}
       /\ \A i \in Own(e) \cap (held[e] \cup opening[e] \cup live[e]) : i < nextID[e]

\* An own stream is retired only when both its halves are closed.
RetireInv ==
    \A e \in Ends :
       /\ \A i \in Ids : cl[e][i] # "open" => i \in held[e]
       /\ \A i \in Own(e) : cl[e][i] = "retire" => i \in finSent[e] \cap finRecv[e]
       /\ (rl[e].pc = "retire" /\ rl[e].id \in Own(e))
            => rl[e].id \in finSent[e] \cap finRecv[e] /\ rl[e].id < nextID[e]

WakeInv ==
    /\ SynOwner /\ HandOwner /\ FreshIds /\ RetireInv
    /\ \A e \in Ends :
          /\ phase[e] \in {"conn", "sweep", "closed"} => e \in closed
          /\ phase[e] = "closed" => live[e] \cap Own(e) = {}
          /\ \A i \in Own(e) \cap (held[e] \cup opening[e]) : Tracked(e, i)

\* When the readLoop itself has closed the session, every accepted stream has
\* been woken too: no SYN is handled after the sweep.
AcceptedIsWoken ==
    \A e \in Ends : \A i \in held[e] :
       (phase[e] = "closed" /\ cause[e] = "read") => i \in Ended(e)

\* A stream that handleSYN registered after the sweep of a closeWithError that
\* the application or keepAliveLoop had called: nobody wakes its users.
Orphan(e, i) ==
    i \notin Own(e) /\ i \in live[e] /\ phase[e] = "closed" /\ cause[e] # "read"

\* A half-close reaches the peer: once Close has run, the Read loop of a peer
\* that holds the stream returns, with io.EOF or with an error, unless the
\* stream is an orphan there.
HalfCloseIsSeen ==
    \A e \in Ends, i \in Used :
       (cl[e][i] = "done" /\ i \in held[Peer(e)])
         ~> (rend[Peer(e)][i] # "open" \/ Orphan(Peer(e), i))

\* A writer out of credit does not wait forever while the peer keeps
\* reading: it gets credit or an error, unless its stream is an orphan.
CreditComesBack ==
    \A e \in Ends, i \in Used :
       (i \in held[e] /\ i \in held[Peer(e)] /\ sendWin[e][i] = 0)
         ~> \/ sendWin[e][i] > 0 \/ WriteRefused(e, i) \/ i \in wend[e]
            \/ Orphan(e, i)

\* The death of one session, or of the connection, reaches both: every reader
\* of a stream that Open or Accept returned returns, but that of an orphan.
DeathReachesReaders ==
    \A e \in Ends, i \in Used :
       (i \in held[e] /\ (~up \/ \E d \in Ends : phase[d] # "open"))
         ~> (rend[e][i] # "open" \/ Orphan(e, i))

\* session.go:141: Close wakes all streams, accepted ones included.
CloseWakesAllStreams ==
    \A e \in Ends : \A i \in held[e] :
       (phase[e] = "closed" /\ rl[e].pc = "exit") => i \in Ended(e)
=============================================================================
