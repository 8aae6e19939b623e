------------------------------ MODULE KeepAlive ------------------------------
(***************************************************************************)
(* Back-pressure and keepalive of a TLMP session: the goroutines of the    *)
(* two ends that write frames (internal/mux/session.go), each under the    *)
(* session's writeMu, into a connection that holds a bounded number of     *)
(* frames per direction.  A full direction blocks the writer, and with it  *)
(* the mutex.  Streams, and what teardown does to them, are the subject of *)
(* module Mux.                                                             *)
(*                                                                         *)
(*   loop   readLoop, which answers PING itself                            *)
(*   keep   keepAliveLoop                                                  *)
(*   pad    the padding injector (internal/obfuscation/obfuscation.go)     *)
(*   app    a Write of a stream                                            *)
(*   user   the daemon's connect, from the end of its select on            *)
(*          (internal/daemon/daemon.go): Stop the injector, close the      *)
(*          session, close the connection                                  *)
(***************************************************************************)
EXTENDS Integers, Sequences, FiniteSets

CONSTANTS
    Cap,         \* frames one direction of the connection holds
    Timeout,     \* Config.PingTimeout, in intervals of Config.KeepAlive
    Writes,      \* bound: frames an app, and a pad, writes
    Writers,     \* the ends whose application writes
    KeepAlives,  \* the ends with Config.KeepAlive > 0
    Padders,     \* the ends with a padding injector
    Daemons,     \* the ends whose session belongs to a daemon's connect
    Closers,     \* the ends whose daemon may be told to stop or reconnect
    MayVanish,   \* the ends that may lose power or network
    Prompt       \* do frames travel faster than a KeepAlive interval?

Ends == {"ini", "rsp"}
Peer(e) == IF e = "ini" THEN "rsp" ELSE "ini"
Goroutines == {"loop", "keep", "pad", "app", "user"}
Runs(e) == {"loop"} \cup {g \in Goroutines :
    \/ g = "keep" /\ e \in KeepAlives
    \/ g = "pad" /\ e \in Padders
    \/ g = "app" /\ e \in Writers
    \/ g = "user" /\ e \in Daemons}

ASSUME KeepAliveAssumption ==
    /\ Cap \in Nat \ {0} /\ Timeout \in Nat /\ Writes \in Nat
    /\ Writers \subseteq Ends /\ KeepAlives \subseteq Ends
    /\ Padders \subseteq Ends /\ Daemons \subseteq Ends
    /\ Closers \subseteq Daemons /\ MayVanish \subseteq Ends
    /\ Prompt \in BOOLEAN

Frames == {"PING", "PONG", "DATA", "GOAWAY"}

VARIABLES
    link,     \* link[e]: frames on their way to e
    gone,     \* ends that have vanished without closing anything
    conn,     \* ends whose connection is open
    closed,   \* ends with s.closed set
    once,     \* once[e]: closeOnce: "open", its runner, or "done"
    mu,       \* mu[e]: who holds writeMu, or "free"
    job,      \* job[e][g]: what g does: a frame it wants to write, idle, ...
    stop,     \* ends whose injector has been told to stop
    age,      \* age[e]: intervals since lastRecv, up to Timeout + 1
    tick,     \* ends whose ticker has fired
    written,  \* written[e][g]: frames app or pad has written, for the bound
    alarm     \* history: ends whose keepalive has timed out

net   == <<link, conn>>
closing == <<closed, once>>
clock == <<age, tick, alarm>>
vars  == <<net, gone, closing, mu, job, stop, clock, written>>

Init ==
    /\ link = [e \in Ends |-> <<>>] /\ conn = Ends /\ gone = {}
    /\ closed = {} /\ once = [e \in Ends |-> "open"]
    /\ mu = [e \in Ends |-> "free"]
    /\ job = [e \in Ends |-> [g \in Goroutines |->
                 IF g \in Runs(e) THEN "idle" ELSE "end"]]
    /\ stop = {}
    /\ age = [e \in Ends |-> 0] /\ tick = {} /\ alarm = {}
    /\ written = [e \in Ends |-> [g \in {"app", "pad"} |-> 0]]

Turn(e, g, what) == job' = [job EXCEPT ![e][g] = what]

-----------------------------------------------------------------------------
(* writeFrame.                                                             *)

Wants(e, g) == e \notin gone /\ job[e][g] \in Frames /\ mu[e] # g

\* What a goroutine does after its frame is written, or is not.
AfterFrame(g, frame, ok) ==
    IF frame = "GOAWAY" THEN "mark"
    ELSE IF ok THEN "idle"
    ELSE IF g \in {"loop", "keep"} THEN "close"
    ELSE "end"

Lock(e, g) ==
    /\ Wants(e, g) /\ mu[e] = "free"
    /\ IF e \in closed
       THEN Turn(e, g, AfterFrame(g, job[e][g], FALSE)) /\ UNCHANGED mu
       ELSE mu' = [mu EXCEPT ![e] = g] /\ UNCHANGED job
    /\ UNCHANGED <<net, gone, closing, stop, clock, written>>

\* Fault: writeMu is not unlocked when the write fails.
KeptOnError(g, ok) == IF ok THEN "free" ELSE g

\* writeMu is unlocked on every path.
Unlocked(g, ok) == "free"

\* conn.Write: it waits for room, and fails once either side is closed.
WriteConn(e, g) ==
    /\ e \notin gone /\ mu[e] = g
    /\ \/ /\ {e, Peer(e)} \subseteq conn
          /\ Len(link[Peer(e)]) < Cap
          /\ link' = [link EXCEPT ![Peer(e)] = Append(@, job[e][g])]
          /\ mu' = [mu EXCEPT ![e] = Unlocked(g, TRUE)]
          /\ Turn(e, g, AfterFrame(g, job[e][g], TRUE))
       \/ /\ ~({e, Peer(e)} \subseteq conn)
          /\ mu' = [mu EXCEPT ![e] = Unlocked(g, FALSE)]
          /\ Turn(e, g, AfterFrame(g, job[e][g], FALSE))
          /\ UNCHANGED link
    /\ UNCHANGED <<conn, gone, closing, stop, clock, written>>

-----------------------------------------------------------------------------
(* closeWithError.                                                         *)

\* closeOnce.Do: the first caller runs the body, the others wait for it.
EnterClose(e, g) ==
    /\ e \notin gone /\ job[e][g] = "close"
    /\ \/ /\ once[e] = "open"
          /\ once' = [once EXCEPT ![e] = g]
          /\ Turn(e, g, "GOAWAY")
       \/ /\ once[e] = "done"
          /\ Turn(e, g, "end")
          /\ UNCHANGED once
    /\ UNCHANGED <<net, gone, closed, mu, stop, clock, written>>

\* closed.Store(true) and close(done).
MarkClosed(e, g) ==
    /\ e \notin gone /\ job[e][g] = "mark"
    /\ closed' = closed \cup {e}
    /\ Turn(e, g, "conn")
    /\ UNCHANGED <<net, gone, once, mu, stop, clock, written>>

\* conn.Close() and the end of the body.
CloseConn(e, g) ==
    /\ e \notin gone /\ job[e][g] = "conn"
    /\ conn' = conn \ {e}
    /\ link' = [link EXCEPT ![e] = <<>>]
    /\ once' = [once EXCEPT ![e] = "done"]
    /\ Turn(e, g, "end")
    /\ UNCHANGED <<gone, closed, mu, stop, clock, written>>

-----------------------------------------------------------------------------
(* The goroutines.                                                         *)

\* Fault: a PING is not answered.
NoAnswer(frame) == IF frame = "GOAWAY" THEN "close" ELSE "idle"

\* handleFrame, as far as it writes or ends the session.
Answer(frame) ==
    CASE frame = "PING"   -> "PONG"
      [] frame = "GOAWAY" -> "close"
      [] OTHER            -> "idle"

Receive(e) ==
    /\ e \notin gone /\ job[e]["loop"] = "idle"
    /\ e \in conn /\ link[e] # <<>>
    /\ link' = [link EXCEPT ![e] = Tail(@)]
    /\ age' = [age EXCEPT ![e] = 0]
    /\ Turn(e, "loop", Answer(Head(link[e])))
    /\ UNCHANGED <<conn, gone, closing, mu, stop, tick, alarm, written>>

ReceiveFails(e) ==
    /\ e \notin gone /\ job[e]["loop"] = "idle"
    /\ e \notin conn \/ (link[e] = <<>> /\ Peer(e) \notin conn)
    /\ Turn(e, "loop", "close")
    /\ UNCHANGED <<net, gone, closing, mu, stop, clock, written>>

\* Fault: the timeout is never looked at.
NeverExpired(e) == FALSE

\* time.Since(lastRecv) > PingTimeout
Expired(e) == age[e] > Timeout

\* A turn of keepAliveLoop; with both cases ready select picks either.
KeepBeat(e) ==
    /\ e \notin gone /\ job[e]["keep"] = "idle"
    /\ \/ /\ e \in tick
          /\ tick' = tick \ {e}
          /\ Turn(e, "keep", IF Expired(e) THEN "close" ELSE "PING")
          /\ alarm' = IF Expired(e) THEN alarm \cup {e} ELSE alarm
       \/ /\ e \in closed
          /\ Turn(e, "keep", "end")
          /\ UNCHANGED <<tick, alarm>>
    /\ UNCHANGED <<net, gone, closing, mu, stop, age, written>>

\* A turn of the padding injector, which sends a PING of random size.
PadBeat(e) ==
    /\ e \notin gone /\ job[e]["pad"] = "idle"
    /\ \/ /\ written[e]["pad"] < Writes
          /\ written' = [written EXCEPT ![e]["pad"] = @ + 1]
          /\ Turn(e, "pad", "PING")
       \/ /\ e \in stop
          /\ Turn(e, "pad", "end")
          /\ UNCHANGED written
    /\ UNCHANGED <<net, gone, closing, mu, stop, clock>>

AppWrite(e) ==
    /\ e \notin gone /\ job[e]["app"] = "idle" /\ written[e]["app"] < Writes
    /\ written' = [written EXCEPT ![e]["app"] = @ + 1]
    /\ Turn(e, "app", "DATA")
    /\ UNCHANGED <<net, gone, closing, mu, stop, clock>>

\* Fault: Stop waits for an injector it has not told to stop.
NobodyTold(e) == stop

\* PaddingInjector.Stop closes the injector's stop channel.
Told(e) == stop \cup {e}

\* connect leaves its select: the session is down, or it is told to leave.
\* PaddingInjector.Stop closes the stop channel ...
UserStop(e) ==
    /\ e \notin gone /\ job[e]["user"] = "idle"
    /\ e \in closed \cup Closers
    /\ stop' = Told(e)
    /\ Turn(e, "user", "join")
    /\ UNCHANGED <<net, gone, closing, mu, clock, written>>

\* ... and waits for the injector; Session.Close is deferred before it.
UserJoin(e) ==
    /\ e \notin gone /\ job[e]["user"] = "join"
    /\ job[e]["pad"] = "end"
    /\ Turn(e, "user", "close")
    /\ UNCHANGED <<net, gone, closing, mu, stop, clock, written>>

-----------------------------------------------------------------------------
(* The environment.                                                        *)

Vanish(e) ==
    /\ e \in MayVanish \ gone
    /\ gone' = gone \cup {e}
    /\ UNCHANGED <<net, closing, mu, job, stop, clock, written>>

\* Nothing is under way at the ends that have not vanished.
Quiet ==
    \A e \in Ends \ gone :
       /\ link[e] = <<>> /\ mu[e] = "free"
       /\ e \in tick => job[e]["keep"] = "end"
       /\ \A g \in Goroutines : job[e][g] \in {"idle", "end"}

\* An interval of KeepAlive passes.
Interval ==
    /\ Prompt => Quiet
    /\ age' = [e \in Ends |-> IF age[e] > Timeout THEN age[e] ELSE age[e] + 1]
    /\ tick' = KeepAlives
    /\ UNCHANGED <<net, gone, closing, mu, job, stop, alarm, written>>

-----------------------------------------------------------------------------
Step(e, g) == Lock(e, g) \/ WriteConn(e, g) \/ EnterClose(e, g)
                \/ MarkClosed(e, g) \/ CloseConn(e, g)

Next ==
    \/ Interval
    \/ \E e \in Ends :
         \/ Receive(e) \/ ReceiveFails(e) \/ KeepBeat(e) \/ PadBeat(e)
         \/ AppWrite(e) \/ UserStop(e) \/ UserJoin(e) \/ Vanish(e)
         \/ \E g \in Runs(e) : Step(e, g)

Spec == Init /\ [][Next]_vars

\* Goroutines run, a mutex is handed to every goroutine that waits for it and
\* time passes.  Nothing obliges an application to write or to close.
Fairness ==
    /\ WF_vars(Interval)
    /\ \A e \in Ends :
         /\ WF_vars(Receive(e) \/ ReceiveFails(e))
         /\ WF_vars(KeepBeat(e)) /\ WF_vars(PadBeat(e)) /\ WF_vars(UserJoin(e))
         /\ \A g \in Runs(e) :
              /\ SF_vars(Lock(e, g))
              /\ WF_vars(WriteConn(e, g) \/ EnterClose(e, g) \/ MarkClosed(e, g)
                           \/ CloseConn(e, g))

FairSpec == Spec /\ Fairness
-----------------------------------------------------------------------------
(* Properties.                                                             *)

\* A frame is written only by the holder of writeMu, one end's frames never
\* exceed what the connection holds, and once names who runs closeWithError.
TypeOK ==
    /\ link \in [Ends -> Seq(Frames)] /\ \A e \in Ends : Len(link[e]) <= Cap
    /\ mu \in [Ends -> Goroutines \cup {"free"}]
    /\ once \in [Ends -> Goroutines \cup {"open", "done"}]
    /\ job \in [Ends -> [Goroutines -> Frames \cup
                 {"idle", "end", "close", "mark", "conn", "join"}]]
    /\ \A e \in Ends : mu[e] # "free" => job[e][mu[e]] \in Frames
    /\ gone \subseteq Ends /\ conn \subseteq Ends /\ closed \subseteq Ends
    /\ stop \subseteq Ends /\ tick \subseteq Ends /\ alarm \subseteq Ends
    /\ age \in [Ends -> 0 .. Timeout + 1]
    /\ written \in [Ends -> [{"app", "pad"} -> 0 .. Writes]]

\* A peer that answers is never declared dead: with frames faster than a
\* KeepAlive interval and a PingTimeout of at least one interval, only a peer
\* that has vanished or is closing times out (session.go keepAliveLoop).
NoFalseAlarm ==
    \A e \in alarm : Peer(e) \in gone \/ once[Peer(e)] # "open"

\* An end whose peer vanishes closes its session (session.go keepAliveLoop).
VanishedIsNoticed ==
    \A e \in KeepAlives : (Peer(e) \in gone) ~> (e \in closed \/ e \in gone)

\* The daemon's connect returns once it has left its select, whoever closes
\* the session meanwhile (daemon.go connect, obfuscation.go Stop, session.go
\* Close): it is the precondition of every reconnect.
ConnectReturns ==
    \A e \in Daemons :
       (job[e]["user"] = "join") ~> (job[e]["user"] = "end" \/ e \in gone)
=============================================================================
