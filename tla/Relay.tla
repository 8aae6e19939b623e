-------------------------------- MODULE Relay --------------------------------
(***************************************************************************)
(* A relayed TCP flow from end to end: the application's connection into   *)
(* the net stack, the desktop's goroutines (internal/netstack/engine.go    *)
(* handleTCP, pumpBidirectional, Stop; internal/relay DialTCP, Pacer,      *)
(* SanitizedConn), the TLMP stream, the phone's threads (RelayEngine.kt    *)
(* serveSession, handleStream) and the server.  Several flows share the    *)
(* session, the pacer and the phone's stream limit.                        *)
(*                                                                         *)
(* Data is counted in units and passes six hops; between two hops it is in *)
(* the hand of one of four copiers, which reads, then writes, and looks at *)
(* nothing else while it writes.  What a stream does between Write and     *)
(* Read is the subject of module Mux; here a hop is a number of units and  *)
(* whether the end of file has been put behind them, and a stream takes no *)
(* more than its window.  The application and the server are the           *)
(* environment: they send, finish, close, fail and read or do not read.    *)
(* Flows to port 53, which the resolver answers, are not among Flows.      *)
(***************************************************************************)
EXTENDS Integers, FiniteSets

CONSTANTS
    Flows,       \* the connections applications open
    Units,       \* bound: Units[f] is what the application and the server of
                 \*   flow f send, in units
    Window,      \* MuxConfig.InitialWindow, in units
    MaxDials,    \* Pacer.maxStreams, 0 for no pacer
    MaxStreams,  \* RelayConfig.maxStreams
    Sanitize,    \* SanitizeConfig.Enabled
    Http,        \* the flows that begin with an HTTP request head
    HeadLen,     \* units of a request head
    MaxHold,     \* maxHeadHold
    FlowsAtDeath \* bound: flows opened when the session ends or the engine stops

Sides == {"app", "srv"}

\* The copyOne goroutines of the desktop and the two threads of the phone.
Copiers == {"up", "down", "toServer", "toClient"}

ASSUME RelayAssumption ==
    /\ IsFiniteSet(Flows)
    /\ Units \in [Flows -> [Sides -> Nat]]
    /\ Window \in Nat \ {0}
    /\ MaxDials \in Nat /\ MaxStreams \in Nat /\ FlowsAtDeath \in Nat
    /\ Sanitize \in BOOLEAN
    /\ Http \subseteq Flows
    /\ HeadLen \in Nat /\ MaxHold \in Nat /\ HeadLen <= MaxHold

\* In the order data passes them, toward the server and back.
Hops == {"appUp", "strUp", "srvUp", "srvDown", "strDown", "appDown"}

VARIABLES
    q,        \* q[f][h]: units in hop h; srvUp and appDown keep what they get
    eof,      \* eof[f]: the hops whose end of file is set
    sent,     \* sent[f]: units the application and the server have sent
    gone,     \* gone[f]: which of the two has closed its socket for good
    broken,   \* broken[f]: whose connection has failed
    hand,     \* hand[f][c]: units copier c has read and not yet written
    desk,     \* desk[f]: the goroutine of handleTCP
    copies,   \* copies[f]: copyOne goroutines of pumpBidirectional that run
    held,     \* held[f]: units in SanitizedConn.buf
    passes,   \* the flows whose SanitizedConn.done is set
    quits,    \* the flows whose io.Copy gives up after the Write it is in
    dials,    \* Pacer.active
    phone,    \* phone[f]: the thread of handleStream
    down,     \* down[f]: its remoteToClient thread: "none", "runs", "ended"
    socket,   \* socket[f]: the phone's: "none", "open", "closed"
    active,   \* RelayEngine.activeStreams
    alive,    \* the session lives
    engine    \* "up" or "stopped"

data    == <<q, eof, sent, gone, broken, hand>>
desktop == <<desk, copies, held, passes, quits, dials>>
handset == <<phone, down, socket, active>>
world   == <<alive, engine>>
vars    == <<data, desktop, handset, world>>

Init ==
    /\ q = [f \in Flows |-> [h \in Hops |-> 0]] /\ eof = [f \in Flows |-> {}]
    /\ sent = [f \in Flows |-> [app |-> 0, srv |-> 0]]
    /\ gone = [f \in Flows |-> {}] /\ broken = [f \in Flows |-> {}]
    /\ hand = [f \in Flows |-> [c \in Copiers |-> 0]]
    /\ desk = [f \in Flows |-> "idle"] /\ copies = [f \in Flows |-> {}]
    /\ held = [f \in Flows |-> 0] /\ passes = {} /\ quits = {} /\ dials = 0
    /\ phone = [f \in Flows |-> "none"] /\ down = [f \in Flows |-> "none"]
    /\ socket = [f \in Flows |-> "none"] /\ active = 0
    /\ alive = TRUE /\ engine = "up"

At(var, f, x) == [var EXCEPT ![f] = x]
Shut(f, h)    == [eof EXCEPT ![f] = @ \cup {h}]

Drained(f, h) == q[f][h] = 0 /\ h \in eof[f]

\* Copier c takes n units out of hop h and has m of them to write.
Reads(f, h, n, c, m) ==
    /\ q' = [q EXCEPT ![f][h] = @ - n]
    /\ hand' = [hand EXCEPT ![f][c] = m]

\* Copier c writes a unit into hop h; its write fails.
Writes(f, c, h) ==
    /\ q' = [q EXCEPT ![f][h] = @ + 1]
    /\ hand' = [hand EXCEPT ![f][c] = @ - 1]
Loses(f, c)     == hand' = [hand EXCEPT ![f][c] = 0] /\ UNCHANGED q

\* A stream takes DATA while its writer has credit, which its reader's reads
\* give back.
HasCredit(f, h) == alive /\ q[f][h] < Window

-----------------------------------------------------------------------------
(* Application and server.                                                 *)

\* Flows after the death of the session are bounded as those before it.
Opened == Cardinality({f \in Flows : desk[f] # "idle"})

AppConnects(f) ==
    /\ desk[f] = "idle" /\ engine = "up"
    /\ alive \/ Opened < FlowsAtDeath
    /\ desk' = At(desk, f, "dial")
    /\ UNCHANGED <<data, copies, held, passes, quits, dials, handset, world>>

Connected(f, side) ==
    IF side = "app" THEN desk[f] \in {"dial", "open", "pump"} ELSE socket[f] = "open"
Toward(side) == IF side = "app" THEN "appUp" ELSE "srvDown"

Sends(f, side) ==
    /\ Connected(f, side) /\ side \notin gone[f] /\ Toward(side) \notin eof[f]
    /\ sent[f][side] < Units[f][side]
    /\ sent' = [sent EXCEPT ![f][side] = @ + 1]
    /\ q' = [q EXCEPT ![f][Toward(side)] = @ + 1]
    /\ UNCHANGED <<eof, gone, broken, hand, desktop, handset, world>>

\* A side shuts its output down, or closes; a request head is sent whole.
Finishes(f, side) ==
    /\ Connected(f, side) /\ side \notin gone[f]
    /\ (side = "app" /\ f \in Http) => sent[f]["app"] >= HeadLen
    /\ eof' = Shut(f, Toward(side))
    /\ \/ Toward(side) \notin eof[f] /\ UNCHANGED gone
       \/ gone' = [gone EXCEPT ![f] = @ \cup {side}]
    /\ UNCHANGED <<q, sent, broken, hand, desktop, handset, world>>

\* Its connection is reset, or the network is gone.
Fails(f, side) ==
    /\ Connected(f, side) /\ side \notin broken[f]
    /\ broken' = [broken EXCEPT ![f] = @ \cup {side}]
    /\ gone' = [gone EXCEPT ![f] = @ \cup {side}]
    /\ UNCHANGED <<q, eof, sent, hand, desktop, handset, world>>

-----------------------------------------------------------------------------
(* The desktop: DialTCP.                                                   *)

\* acquire and release; without a pacer nothing is counted.
Acquired == IF MaxDials > 0 THEN dials + 1 ELSE dials

\* Fault: the slot is not released when Open fails.
ReleasedIfOpened(opened) ==
    IF opened /\ dials > 0 THEN dials - 1 ELSE dials

\* release is deferred: it follows every acquire, however Open ends.
Released(opened) == IF dials > 0 THEN dials - 1 ELSE dials

\* A flow that cannot be dialled is closed.
Dial(f) ==
    /\ desk[f] = "dial"
    /\ IF MaxDials > 0 /\ dials >= MaxDials
       THEN desk' = At(desk, f, "closed") /\ eof' = Shut(f, "appDown")
            /\ UNCHANGED dials
       ELSE desk' = At(desk, f, "open") /\ dials' = Acquired
            /\ UNCHANGED eof
    /\ UNCHANGED <<q, sent, gone, broken, hand, copies, held, passes, quits>>
    /\ UNCHANGED <<handset, world>>

\* Session.Open; the goroutines of pumpBidirectional start.
Open(f) ==
    /\ desk[f] = "open"
    /\ dials' = Released(alive)
    /\ IF alive
       THEN /\ desk' = At(desk, f, "pump") /\ copies' = At(copies, f, {"up", "down"})
            /\ phone' = At(phone, f, "queued") /\ UNCHANGED eof
       ELSE /\ desk' = At(desk, f, "closed") /\ eof' = Shut(f, "appDown")
            /\ UNCHANGED <<copies, phone>>
    /\ UNCHANGED <<q, sent, gone, broken, hand, held, passes, quits>>
    /\ UNCHANGED <<down, socket, active, world>>

-----------------------------------------------------------------------------
(* The desktop: SanitizedConn and pumpBidirectional.                       *)

Outcome(write, keep, done, ok) ==
    [write |-> write, keep |-> keep, done |-> done, ok |-> ok]

\* SanitizedConn.Write of n units: what is written to the stream, what is kept
\* in buf, and whether io.Copy goes on.  When it gives up looking for a head,
\* Write returns more than it was given if it had held something back, which
\* io.Copy takes for an error.
Sanitized(f, n) ==
    LET total    == held[f] + n
        complete == f \in Http /\ total >= HeadLen
    IN  IF f \in passes \/ ~Sanitize THEN Outcome(n, 0, f \in passes, TRUE)
        ELSE IF ~complete /\ total < MaxHold THEN Outcome(0, total, FALSE, TRUE)
        ELSE Outcome(total, 0, TRUE, complete \/ held[f] = 0)

\* Engine.Stop closes the stack, and with it the applications' connections.
Aborted == engine = "stopped"

Ends(f, copy) == copies' = [copies EXCEPT ![f] = @ \ {copy}]

\* copyOne(upstream, conn).
ReadUp(f) ==
    /\ hand[f]["up"] = 0
    /\ \/ /\ Aborted \/ "app" \in broken[f] \/ Drained(f, "appUp")
          /\ Ends(f, "up")
          /\ UNCHANGED <<q, hand, held, passes, quits>>
       \/ /\ ~Aborted
          /\ \E n \in 1 .. q[f]["appUp"] :
               LET w == Sanitized(f, n) IN
               /\ Reads(f, "appUp", n, "up", w.write)
               /\ held' = At(held, f, w.keep)
               /\ passes' = IF w.done THEN passes \cup {f} ELSE passes
               /\ quits' = IF w.ok THEN quits ELSE quits \cup {f}
          /\ UNCHANGED copies

WriteUp(f) ==
    /\ hand[f]["up"] > 0
    /\ \/ ~alive /\ Loses(f, "up") /\ Ends(f, "up")
       \/ /\ HasCredit(f, "strUp") /\ Writes(f, "up", "strUp")
          /\ IF hand[f]["up"] = 1 /\ f \in quits THEN Ends(f, "up") ELSE UNCHANGED copies
    /\ UNCHANGED <<held, passes, quits>>

CopyUp(f) ==
    /\ "up" \in copies[f]
    /\ ReadUp(f) \/ WriteUp(f)
    /\ UNCHANGED <<eof, sent, gone, broken, desk, dials, handset, world>>

\* copyOne(conn, upstream).
ReadDown(f) ==
    /\ hand[f]["down"] = 0
    /\ \/ /\ ~alive \/ Drained(f, "strDown")
          /\ Ends(f, "down") /\ UNCHANGED <<q, hand>>
       \/ /\ \E n \in 1 .. q[f]["strDown"] : Reads(f, "strDown", n, "down", n)
          /\ UNCHANGED copies

FailDown(f) ==
    /\ hand[f]["down"] > 0 /\ (Aborted \/ "app" \in gone[f])
    /\ Loses(f, "down") /\ Ends(f, "down")

CopyDown(f) ==
    /\ "down" \in copies[f]
    /\ ReadDown(f) \/ FailDown(f)
    /\ UNCHANGED <<eof, sent, gone, broken, desk, held, passes, quits, dials>>
    /\ UNCHANGED <<handset, world>>

\* The other outcome of the Write: the application makes room, if it ever does.
AppTakes(f) ==
    /\ hand[f]["down"] > 0 /\ ~Aborted /\ "app" \notin gone[f]
    /\ Writes(f, "down", "appDown")
    /\ UNCHANGED <<eof, sent, gone, broken, desktop, handset, world>>

\* Fault: pumpBidirectional waits for one of its two goroutines.
OneDone(f) == copies[f] # {"up", "down"}

\* It waits for both.
BothDone(f) == copies[f] = {}


\* The connections pumpBidirectional and handleTCP close; the stream's FIN
\* needs a session, the application's a stack.
Closes(f) == {h \in {"appDown", "strUp"} :
    IF h = "appDown" THEN ~Aborted ELSE alive}

PumpReturns(f) ==
    /\ desk[f] = "pump" /\ BothDone(f)
    /\ desk' = At(desk, f, "closed")
    /\ copies' = At(copies, f, {})
    /\ eof' = [eof EXCEPT ![f] = @ \cup Closes(f)]
    /\ UNCHANGED <<q, sent, gone, broken, hand, held, passes, quits, dials>>
    /\ UNCHANGED <<handset, world>>

-----------------------------------------------------------------------------
(* The phone.                                                              *)

\* MuxStream.close sends a FIN while the session lives.
StreamClosed(f) == IF alive THEN Shut(f, "strDown") ELSE eof

\* Fault: the flow is not counted.
NotCounted == active

\* activeStreams.incrementAndGet()
Counted == active + 1

\* serveSession takes the next stream, unless there are too many.
Accept(f) ==
    /\ phone[f] = "queued"
    /\ IF active + 1 > MaxStreams
       THEN /\ phone' = At(phone, f, "ended") /\ eof' = StreamClosed(f)
            /\ UNCHANGED active
       ELSE /\ phone' = At(phone, f, "connect") /\ active' = Counted
            /\ UNCHANGED eof
    /\ UNCHANGED <<q, sent, gone, broken, hand, desktop, down, socket, world>>

SynIsLost(f) ==
    /\ phone[f] = "queued" /\ ~alive
    /\ phone' = At(phone, f, "none")
    /\ UNCHANGED <<data, desktop, down, socket, active, world>>

\* connectUpstream fails, or the flow runs.
Connect(f) ==
    /\ phone[f] = "connect"
    /\ \/ /\ phone' = At(phone, f, "pump") /\ down' = At(down, f, "runs")
          /\ socket' = At(socket, f, "open")
          /\ UNCHANGED <<eof, active>>
       \/ /\ phone' = At(phone, f, "ended") /\ active' = active - 1
          /\ eof' = StreamClosed(f)
          /\ UNCHANGED <<down, socket>>
    /\ UNCHANGED <<q, sent, gone, broken, hand, desktop, world>>


\* runCatching { socket.close() }
SocketAfterError == "closed"

\* The catch block of client-to-remote; closing the socket ends its output.
ClientFails(f) ==
    /\ socket' = At(socket, f, SocketAfterError)
    /\ eof' = IF SocketAfterError = "closed" THEN Shut(f, "srvUp") ELSE eof
    /\ phone' = At(phone, f, "join")

\* Client to remote.
ReadClient(f) ==
    /\ hand[f]["toServer"] = 0
    /\ \/ /\ \E n \in 1 .. q[f]["strUp"] : Reads(f, "strUp", n, "toServer", n)
          /\ UNCHANGED <<phone, socket, eof>>
       \/ /\ Drained(f, "strUp")
          /\ eof' = Shut(f, "srvUp")            \* shutdownOutput
          /\ phone' = At(phone, f, "join")
          /\ UNCHANGED <<q, hand, socket>>
       \/ ~alive /\ ClientFails(f) /\ UNCHANGED <<q, hand>>

FailServer(f) ==
    /\ hand[f]["toServer"] > 0 /\ "srv" \in gone[f]
    /\ Loses(f, "toServer") /\ ClientFails(f)

ClientToRemote(f) ==
    /\ phone[f] = "pump"
    /\ ReadClient(f) \/ FailServer(f)
    /\ UNCHANGED <<sent, gone, broken, desktop, down, active, world>>

\* The other outcome of the write: the server makes room, if it ever does.
ServerTakes(f) ==
    /\ hand[f]["toServer"] > 0 /\ "srv" \notin gone[f]
    /\ Writes(f, "toServer", "srvUp")
    /\ UNCHANGED <<eof, sent, gone, broken, desktop, handset, world>>

\* Remote to client, the thread remoteToClient: whatever ends its loop, the
\* stream is closed as after an end of file.
ReadServer(f) ==
    /\ hand[f]["toClient"] = 0
    /\ \/ /\ socket[f] = "closed" \/ "srv" \in broken[f] \/ Drained(f, "srvDown")
          /\ down' = At(down, f, "ended") /\ eof' = StreamClosed(f)
          /\ UNCHANGED <<q, hand>>
       \/ /\ socket[f] = "open"
          /\ \E n \in 1 .. q[f]["srvDown"] : Reads(f, "srvDown", n, "toClient", n)
          /\ UNCHANGED <<down, eof>>

WriteClient(f) ==
    /\ hand[f]["toClient"] > 0
    /\ \/ HasCredit(f, "strDown") /\ Writes(f, "toClient", "strDown") /\ UNCHANGED down
       \/ ~alive /\ Loses(f, "toClient") /\ down' = At(down, f, "ended")
    /\ UNCHANGED eof

RemoteToClient(f) ==
    /\ down[f] = "runs"
    /\ ReadServer(f) \/ WriteClient(f)
    /\ UNCHANGED <<sent, gone, broken, desktop, phone, socket, active, world>>

\* remoteToClient.join() and the finally blocks.
Join(f) ==
    /\ phone[f] = "join" /\ down[f] = "ended"
    /\ phone' = At(phone, f, "ended") /\ active' = active - 1
    /\ UNCHANGED <<data, desktop, down, socket, world>>

-----------------------------------------------------------------------------
(* The daemon ends a session; or the session ends and the daemon sees it.  *)

\* What is on its way may still arrive or not: from now on a reader of the
\* stream may fail whatever the hop holds, and a SYN may be lost.
SessionEnds ==
    /\ alive /\ Opened <= FlowsAtDeath
    /\ alive' = FALSE
    /\ UNCHANGED <<data, desktop, handset, engine>>

EngineStops ==
    /\ engine = "up" /\ Opened <= FlowsAtDeath
    /\ engine' = "stopped"
    /\ UNCHANGED <<data, desktop, handset, alive>>

-----------------------------------------------------------------------------
Environment(f) ==
    \/ AppConnects(f) \/ AppTakes(f) \/ ServerTakes(f)
    \/ \E side \in Sides : Sends(f, side) \/ Finishes(f, side) \/ Fails(f, side)

Desktop(f) == Dial(f) \/ Open(f) \/ PumpReturns(f)

Phone(f) == Accept(f) \/ SynIsLost(f) \/ Connect(f) \/ ClientToRemote(f) \/ Join(f)

Next ==
    \/ SessionEnds \/ EngineStops
    \/ \E f \in Flows :
         \/ Environment(f) \/ Desktop(f) \/ CopyUp(f) \/ CopyDown(f)
         \/ Phone(f) \/ RemoteToClient(f)

Spec == Init /\ [][Next]_vars

\* Every goroutine and thread runs; the daemon stops the engine of a dead
\* session and closes the session of a stopped engine (daemon.go connect).
\* Applications and servers are free, to read too.
Fairness ==
    /\ WF_vars(~alive /\ EngineStops) /\ WF_vars(engine = "stopped" /\ SessionEnds)
    /\ \A f \in Flows :
         /\ WF_vars(Desktop(f)) /\ WF_vars(CopyUp(f)) /\ WF_vars(CopyDown(f))
         /\ WF_vars(Phone(f)) /\ WF_vars(RemoteToClient(f))

FairSpec == Spec /\ Fairness
-----------------------------------------------------------------------------
(* Properties.                                                             *)

\* The side whose data passes hop h.
From(h) == IF h \in {"appUp", "strUp", "srvUp"} THEN "app" ELSE "srv"

\* The units that pass copier c.
Handled(c) == IF c \in {"up", "toServer"} THEN "app" ELSE "srv"

\* Every variable has its type; no hop and no counter is negative, and a stream
\* holds no more than its window.
TypeOK ==
    /\ \A f \in Flows, h \in Hops : q[f][h] \in 0 .. Units[f][From(h)]
    /\ \A f \in Flows, h \in {"strUp", "strDown"} : q[f][h] <= Window
    /\ \A f \in Flows, c \in Copiers : hand[f][c] \in 0 .. Units[f][Handled(c)]
    /\ eof \in [Flows -> SUBSET Hops]
    /\ \A f \in Flows, side \in Sides : sent[f][side] \in 0 .. Units[f][side]
    /\ gone \in [Flows -> SUBSET Sides] /\ broken \in [Flows -> SUBSET Sides]
    /\ desk \in [Flows -> {"idle", "dial", "open", "pump", "closed"}]
    /\ copies \in [Flows -> SUBSET {"up", "down"}]
    /\ \A f \in Flows : held[f] \in 0 .. Units[f]["app"]
    /\ passes \subseteq Flows /\ quits \subseteq Flows
    /\ dials \in Nat /\ active \in Nat
    /\ phone \in [Flows -> {"none", "queued", "connect", "pump", "join", "ended"}]
    /\ down \in [Flows -> {"none", "runs", "ended"}]
    /\ socket \in [Flows -> {"none", "open", "closed"}]
    /\ alive \in BOOLEAN /\ engine \in {"up", "stopped"}

\* The two counters are the flows they count, and within their limits,
\* whichever way a dial or a handler ends (pacing.go acquire and release,
\* RelayEngine.kt activeStreams).
SlotsMatch ==
    /\ MaxDials > 0 => dials = Cardinality({f \in Flows : desk[f] = "open"})
    /\ active = Cardinality({f \in Flows : phone[f] \in {"connect", "pump", "join"}})
    /\ dials <= MaxDials
    /\ active <= MaxStreams

Undisturbed == alive /\ engine = "up"

\* An end of file comes after all the other side has sent, in both directions,
\* while neither session nor engine nor the reader's peer has ended and the
\* sender's connection has not failed; toward the server unless the flow is not
\* HTTP and goes through the sanitizer (engine.go pumpBidirectional, dialer.go
\* SanitizedConn, RelayEngine.kt handleStream).
EofIsComplete == Undisturbed =>
    /\ \A f \in IF Sanitize THEN Http ELSE Flows :
          "srvUp" \in eof[f] /\ "srv" \notin gone[f] /\ "app" \notin broken[f]
            => q[f]["srvUp"] = sent[f]["app"]
    /\ \A f \in Flows :
          "appDown" \in eof[f] /\ gone[f] = {} => q[f]["appDown"] = sent[f]["srv"]

\* A copier waits for credit that its stream's other end, which has stopped
\* reading without a word to the writer, will not send.
Starves(f) == alive /\
    \/ /\ hand[f]["up"] > 0 /\ ~HasCredit(f, "strUp")
       /\ phone[f] \in {"join", "ended"}
    \/ /\ hand[f]["toClient"] > 0 /\ ~HasCredit(f, "strDown")
       /\ "down" \notin copies[f]

\* Nothing of the flow runs any more.
Over(f) ==
    desk[f] \in {"idle", "closed"} /\ phone[f] \in {"none", "ended"} /\ down[f] # "runs"

ServerStays(f) == socket[f] = "open" /\ "srv" \notin gone[f]



\* dialer.go:193: SanitizedConn passes everything but a request head through.
NothingHeldForever ==
    \A f \in Flows : (held[f] > 0) ~> (held[f] = 0 \/ gone[f] # {} \/ ~Undisturbed)
=============================================================================
