---------------------------- MODULE KeepAliveProofs ----------------------------
(***************************************************************************)
(* Proofs about the goroutines of module KeepAlive that share writeMu:     *)
(* every variable has its type, with a frame in the hands of the mutex's   *)
(* holder; and where frames are faster than an interval of KeepAlive, a    *)
(* peer that answers is never declared dead, whatever the room on the      *)
(* connection, the timeout, and who writes, pads, closes or vanishes.      *)
(***************************************************************************)
EXTENDS KeepAlive, TLAPS

-----------------------------------------------------------------------------
(* The types.                                                              *)

Jobs == Frames \cup {"idle", "end", "close", "mark", "conn", "join"}

LEMMA EndsFacts ==
    /\ \A e \in Ends : Peer(e) \in Ends /\ Peer(Peer(e)) = e /\ Peer(e) # e
    /\ \A e \in Ends : Runs(e) \subseteq Goroutines
    /\ {"loop", "keep", "pad", "app", "user"} = Goroutines
  BY DEF Ends, Peer, Runs, Goroutines

LEMMA TurnJob ==
  ASSUME TypeOK, NEW e \in Ends, NEW g \in Goroutines, NEW what, Turn(e, g, what)
  PROVE  \A d \in Ends, h \in Goroutines :
            job'[d][h] = IF d = e /\ h = g THEN what ELSE job[d][h]
  BY DEF TypeOK, Turn

LEMMA TurnType ==
  ASSUME TypeOK, NEW e \in Ends, NEW g \in Goroutines, NEW what \in Jobs, Turn(e, g, what)
  PROVE  job' \in [Ends -> [Goroutines -> Jobs]]
  BY DEF TypeOK, Turn, Jobs

LEMMA AfterFrameType ==
  ASSUME NEW g, NEW frame, NEW ok
  PROVE  AfterFrame(g, frame, ok) \in Jobs /\ AfterFrame(g, frame, ok) \notin Frames
  BY DEF AfterFrame, Jobs, Frames

LEMMA AnswerType ==
  ASSUME NEW frame
  PROVE  Answer(frame) \in {"PONG", "close", "idle"}
  BY DEF Answer

\* Whoever holds writeMu has a frame to write.
Holders == \A e \in Ends : mu[e] # "free" => job[e][mu[e]] \in Frames

LEMMA InitType == Init => TypeOK
<1> SUFFICES ASSUME Init PROVE TypeOK
  OBVIOUS
<1>1. link \in [Ends -> Seq(Frames)] /\ \A e \in Ends : Len(link[e]) <= Cap
  BY KeepAliveAssumption DEF Init, KeepAliveAssumption
<1>2. /\ mu \in [Ends -> Goroutines \cup {"free"}]
      /\ once \in [Ends -> Goroutines \cup {"open", "done"}]
      /\ job \in [Ends -> [Goroutines -> Jobs]]
      /\ Holders
  BY DEF Init, Jobs, Holders
<1>3. /\ age \in [Ends -> 0 .. Timeout + 1]
      /\ written \in [Ends -> [{"app", "pad"} -> 0 .. Writes]]
  BY KeepAliveAssumption DEF Init, KeepAliveAssumption
<1>4. /\ gone \subseteq Ends /\ conn \subseteq Ends /\ closed \subseteq Ends
      /\ stop \subseteq Ends /\ tick \subseteq Ends /\ alarm \subseteq Ends
  BY DEF Init
<1> QED BY <1>1, <1>2, <1>3, <1>4 DEF TypeOK, Jobs, Holders

LEMMA LinkTail ==
  ASSUME TypeOK, NEW e \in Ends, link[e] # <<>>
  PROVE  /\ Head(link[e]) \in Frames /\ Tail(link[e]) \in Seq(Frames)
         /\ Len(Tail(link[e])) <= Cap
<1>1. link[e] \in Seq(Frames) /\ Len(link[e]) <= Cap
  BY DEF TypeOK
<1> QED BY <1>1, KeepAliveAssumption DEF KeepAliveAssumption

\* The four parts of the state, each of which few actions change.
LinkType  == link \in [Ends -> Seq(Frames)] /\ \A e \in Ends : Len(link[e]) <= Cap
MutexType == mu \in [Ends -> Goroutines \cup {"free"}] /\ Holders
OnceType  == once \in [Ends -> Goroutines \cup {"open", "done"}]
JobType   == job \in [Ends -> [Goroutines -> Jobs]]
SetTypes  == /\ gone \subseteq Ends /\ conn \subseteq Ends /\ closed \subseteq Ends
             /\ stop \subseteq Ends /\ tick \subseteq Ends /\ alarm \subseteq Ends
             /\ age \in [Ends -> 0 .. Timeout + 1]
             /\ written \in [Ends -> [{"app", "pad"} -> 0 .. Writes]]

LEMMA TypeParts == TypeOK <=> LinkType /\ MutexType /\ OnceType /\ JobType /\ SetTypes
  BY DEF TypeOK, LinkType, MutexType, OnceType, JobType, SetTypes, Holders, Jobs

LEMMA TypePartsNext == LinkType' /\ MutexType' /\ OnceType' /\ JobType' /\ SetTypes' => TypeOK'
  BY DEF TypeOK, LinkType, MutexType, OnceType, JobType, SetTypes, Holders, Jobs

\* A turn of a goroutine that does not hold writeMu.
LEMMA TurnKeeps ==
  ASSUME TypeOK, NEW e \in Ends, NEW g \in Goroutines, NEW what \in Jobs,
         Turn(e, g, what), job[e][g] \notin Frames, UNCHANGED mu
  PROVE  JobType' /\ MutexType'
<1>1. JobType'
  BY TurnType DEF JobType
<1>2. \A d \in Ends : mu[d] # "free" => job'[d][mu[d]] = job[d][mu[d]]
  BY TurnJob DEF TypeOK
<1> QED BY <1>1, <1>2 DEF TypeOK, MutexType, Holders

LEMMA LockType ==
  ASSUME TypeOK, NEW e \in Ends, NEW g \in Goroutines, Lock(e, g)
  PROVE  TypeOK'
<1>1. LinkType' /\ OnceType' /\ SetTypes'
  BY TypeParts DEF Lock, LinkType, OnceType, SetTypes, net, closing, clock
<1>2. CASE e \in closed
  <2>1. Turn(e, g, AfterFrame(g, job[e][g], FALSE)) /\ mu' = mu /\ mu[e] = "free"
    BY <1>2 DEF Lock
  <2>2. JobType'
    BY <2>1, TurnType, AfterFrameType DEF JobType
  <2>a. \A d \in Ends : mu[d] \in Goroutines \cup {"free"}
    BY DEF TypeOK
  <2>3. \A d \in Ends : mu[d] # "free" => job'[d][mu[d]] = job[d][mu[d]]
    <3>1. \A d \in Ends, h \in Goroutines : d # e \/ h # g => job'[d][h] = job[d][h]
      <4> DEFINE after == AfterFrame(g, job[e][g], FALSE)
      <4>1. Turn(e, g, after)
        BY <2>1
      <4> HIDE DEF after
      <4> QED BY <4>1, TurnJob
    <3>2. \A d \in Ends : mu[d] # "free" => mu[d] \in Goroutines /\ d # e
      BY <2>1, <2>a
    <3> QED BY <3>1, <3>2
  <2>4. MutexType'
    BY <2>1, <2>3 DEF TypeOK, MutexType, Holders
  <2> QED BY <1>1, <2>2, <2>4, TypePartsNext
<1>3. CASE e \notin closed
  <2>1. mu' = [mu EXCEPT ![e] = g] /\ job' = job /\ job[e][g] \in Frames
    BY <1>3 DEF Lock, Wants
  <2>2. JobType' /\ MutexType'
    BY <2>1 DEF TypeOK, MutexType, Holders, JobType, Jobs
  <2> QED BY <1>1, <2>2, TypePartsNext
<1> QED BY <1>2, <1>3

LEMMA WriteType ==
  ASSUME TypeOK, NEW e \in Ends, NEW g \in Goroutines, WriteConn(e, g)
  PROVE  TypeOK'
<1>p. Peer(e) \in Ends
  BY EndsFacts
<1>1. OnceType' /\ SetTypes'
  BY TypeParts DEF WriteConn, OnceType, SetTypes, closing, clock
<1>2. mu' = [mu EXCEPT ![e] = "free"] /\ mu[e] = g
  BY DEF WriteConn, Unlocked
<1>3. job[e][g] \in Frames
  BY <1>2 DEF TypeOK, Goroutines
<1>4. PICK ok \in BOOLEAN : Turn(e, g, AfterFrame(g, job[e][g], ok))
  BY DEF WriteConn
<1>5. JobType'
  BY <1>4, TurnType, AfterFrameType DEF JobType
<1>6. \A d \in Ends : d # e => job'[d] = job[d]
  BY <1>4 DEF Turn, TypeOK
<1>7. MutexType'
  BY <1>2, <1>6 DEF TypeOK, MutexType, Holders
<1>8. LinkType'
  <2>1. CASE UNCHANGED link
    BY <2>1 DEF TypeOK, LinkType
  <2>2. CASE /\ Len(link[Peer(e)]) < Cap
             /\ link' = [link EXCEPT ![Peer(e)] = Append(@, job[e][g])]
    <3>1. link[Peer(e)] \in Seq(Frames) /\ Len(link[Peer(e)]) + 1 <= Cap
      BY <1>p, <2>2, KeepAliveAssumption DEF TypeOK, KeepAliveAssumption
    <3>2. /\ Append(link[Peer(e)], job[e][g]) \in Seq(Frames)
          /\ Len(Append(link[Peer(e)], job[e][g])) <= Cap
      BY <1>3, <3>1
    <3> QED BY <1>p, <2>2, <3>2 DEF TypeOK, LinkType
  <2> QED BY <2>1, <2>2 DEF WriteConn
<1> QED BY <1>1, <1>5, <1>7, <1>8, TypePartsNext

\* The turns of closeWithError and of the goroutines.
LEMMA TurnStepType ==
  ASSUME TypeOK, NEW e \in Ends, NEW g \in Goroutines,
         \/ EnterClose(e, g) \/ MarkClosed(e, g) \/ CloseConn(e, g)
         \/ Receive(e) \/ ReceiveFails(e) \/ KeepBeat(e) \/ PadBeat(e) \/ AppWrite(e)
         \/ UserStop(e) \/ UserJoin(e)
  PROVE  TypeOK'
<1>1. JobType' /\ MutexType'
  <2> DEFINE Goal == JobType' /\ MutexType'
  <2>1. ASSUME NEW h \in Goroutines, NEW what \in Jobs, Turn(e, h, what),
               job[e][h] \notin Frames, UNCHANGED mu
        PROVE  Goal
    BY <2>1, TurnKeeps
  <2>2. \A h \in Goroutines :
           job[e][h] \in {"idle", "close", "mark", "conn", "join"} => job[e][h] \notin Frames
    BY DEF Frames
  <2>3. {"idle", "end", "close", "mark", "conn", "join", "PING", "PONG", "DATA", "GOAWAY"}
           \subseteq Jobs
    BY DEF Jobs, Frames
  <2>g. {"loop", "keep", "pad", "app", "user"} \subseteq Goroutines
    BY EndsFacts
  <2> SUFFICES Goal
    OBVIOUS
  <2> HIDE DEF Goal
  <2>4. CASE EnterClose(e, g)
    BY <2>1, <2>2, <2>3, <2>4 DEF EnterClose
  <2>5. CASE MarkClosed(e, g) \/ CloseConn(e, g)
    BY <2>1, <2>2, <2>3, <2>5 DEF MarkClosed, CloseConn
  <2>6. CASE Receive(e)
    BY <2>1, <2>2, <2>3, <2>g, <2>6, AnswerType DEF Receive
  <2>7. CASE ReceiveFails(e)
    BY <2>1, <2>2, <2>3, <2>g, <2>7 DEF ReceiveFails
  <2>8. CASE KeepBeat(e)
    BY <2>1, <2>2, <2>3, <2>g, <2>8 DEF KeepBeat
  <2>9. CASE PadBeat(e) \/ AppWrite(e)
    BY <2>1, <2>2, <2>3, <2>g, <2>9 DEF PadBeat, AppWrite
  <2>10. CASE UserStop(e) \/ UserJoin(e)
    BY <2>1, <2>2, <2>3, <2>g, <2>10 DEF UserStop, UserJoin
  <2> QED BY <2>4, <2>5, <2>6, <2>7, <2>8, <2>9, <2>10
<1>2. LinkType'
  <2>1. CASE UNCHANGED link
    BY <2>1 DEF TypeOK, LinkType
  <2>2. CASE link' = [link EXCEPT ![e] = <<>>]
    BY <2>2, KeepAliveAssumption DEF TypeOK, LinkType, KeepAliveAssumption
  <2>3. CASE link[e] # <<>> /\ link' = [link EXCEPT ![e] = Tail(@)]
    BY <2>3, LinkTail DEF TypeOK, LinkType
  <2> QED
    BY <2>1, <2>2, <2>3 DEF EnterClose, MarkClosed, CloseConn, Receive, ReceiveFails,
       KeepBeat, PadBeat, AppWrite, UserStop, UserJoin, net
<1>3. OnceType'
  BY DEF TypeOK, OnceType, EnterClose, MarkClosed, CloseConn, Receive, ReceiveFails,
     KeepBeat, PadBeat, AppWrite, UserStop, UserJoin, closing
<1>4. SetTypes'
  <2>1. CASE EnterClose(e, g) \/ MarkClosed(e, g) \/ CloseConn(e, g) \/ ReceiveFails(e)
    BY <2>1 DEF TypeOK, SetTypes, EnterClose, MarkClosed, CloseConn, ReceiveFails,
       net, closing, clock
  <2>2. CASE Receive(e) \/ KeepBeat(e)
    BY <2>2, KeepAliveAssumption
    DEF TypeOK, SetTypes, Receive, KeepBeat, net, closing, KeepAliveAssumption
  <2>3. CASE PadBeat(e) \/ AppWrite(e)
    <3>1. ASSUME NEW q \in {"app", "pad"}, written[e][q] < Writes
          PROVE  [written EXCEPT ![e][q] = @ + 1] \in [Ends -> [{"app", "pad"} -> 0 .. Writes]]
      BY <3>1, KeepAliveAssumption DEF TypeOK, KeepAliveAssumption
    <3> QED BY <2>3, <3>1 DEF TypeOK, SetTypes, PadBeat, AppWrite, net, closing, clock
  <2>4. CASE UserStop(e) \/ UserJoin(e)
    BY <2>4 DEF TypeOK, SetTypes, UserStop, UserJoin, Told, net, closing, clock
  <2> QED BY <2>1, <2>2, <2>3, <2>4
<1> QED BY <1>1, <1>2, <1>3, <1>4, TypePartsNext

LEMMA TypeStep == TypeOK /\ [Next]_vars => TypeOK'
<1> SUFFICES ASSUME TypeOK, [Next]_vars PROVE TypeOK'
  OBVIOUS
<1>1. CASE Interval
  <2>1. age' \in [Ends -> 0 .. Timeout + 1]
    BY <1>1, KeepAliveAssumption DEF Interval, TypeOK, KeepAliveAssumption
  <2>2. tick' \subseteq Ends
    BY <1>1, KeepAliveAssumption DEF Interval, KeepAliveAssumption
  <2> QED
    BY <1>1, <2>1, <2>2 DEF Interval, TypeOK, net, closing
<1>2. ASSUME NEW e \in Ends, Vanish(e) PROVE TypeOK'
  BY <1>2 DEF Vanish, TypeOK, net, closing, clock
<1>3. ASSUME NEW e \in Ends, NEW g \in Runs(e), Step(e, g) PROVE TypeOK'
  BY <1>3, EndsFacts, LockType, WriteType, TurnStepType DEF Step
<1>4. ASSUME NEW e \in Ends,
             \/ Receive(e) \/ ReceiveFails(e) \/ KeepBeat(e) \/ PadBeat(e) \/ AppWrite(e)
             \/ UserStop(e) \/ UserJoin(e)
      PROVE  TypeOK'
  <2>1. "loop" \in Goroutines
    BY EndsFacts
  <2> QED BY <1>4, <2>1, TurnStepType
<1>5. CASE UNCHANGED vars
  BY <1>5 DEF vars, net, closing, clock, TypeOK
<1> QED BY <1>1, <1>2, <1>3, <1>4, <1>5 DEF Next

\* session.go writeFrame: writeMu is only ever held by a goroutine with a frame
\* to write, and the connection never holds more frames than it has room for.
THEOREM KeepAliveType == Spec => []TypeOK
  BY InitType, TypeStep, PTL DEF Spec
-----------------------------------------------------------------------------
(* The invariant behind NoFalseAlarm.                                      *)

Has(s, frame) == \E k \in 1 .. Len(s) : s[k] = frame

\* Neither vanished nor on its way out.
Open(e) == e \notin gone /\ once[e] = "open"

\* closeWithError is past its GOAWAY.
Parted(e) ==
    \/ e \in closed \/ e \notin conn \/ once[e] = "done"
    \/ \E g \in Goroutines : job[e][g] \in {"mark", "conn"}

\* Until closeOnce is taken nothing of closeWithError has happened.
OpenInv ==
    \A e \in Ends : once[e] = "open" =>
       /\ e \notin closed /\ e \in conn /\ job[e]["loop"] # "end"
       /\ \A g \in Goroutines : job[e][g] \notin {"GOAWAY", "mark", "conn"}

\* Who took it is at one of its steps.
RunnerInv ==
    \A e \in Ends, g \in Goroutines :
       once[e] = g => job[e][g] \in {"GOAWAY", "mark", "conn"}

\* keepAliveLoop writes PINGs, and its ticker runs with Config.KeepAlive.
BeatInv ==
    /\ \A e \in Ends : job[e]["keep"] \notin {"PONG", "DATA"}
    /\ tick \subseteq KeepAlives

\* The GOAWAY of a session that has closed reaches the other one's readLoop.
PartInv ==
    \A e \in Ends : Parted(e) /\ once[Peer(e)] = "open" =>
       Has(link[Peer(e)], "GOAWAY") \/ job[Peer(e)]["loop"] = "close"

\* A PING of e, or what e is about to hear, is under way.
Answering(e) ==
    \/ job[e]["keep"] = "PING" \/ Has(link[Peer(e)], "PING")
    \/ job[Peer(e)]["loop"] \in {"PONG", "close"} \/ link[e] # <<>>

Beats(e) == e \in KeepAlives /\ job[e]["keep"] \in {"idle", "PING"}

\* Since the last tick, e has heard something or will.
HeardInv ==
    \A e \in Ends :
       /\ Open(e) /\ Open(Peer(e)) /\ Beats(e) /\ e \notin tick /\ age[e] # 0
       => Answering(e)

AgeInv ==
    \A e \in Ends : e \notin gone /\ Open(Peer(e)) /\ Beats(e) => age[e] <= 1

AlarmInv == TypeOK /\ OpenInv /\ RunnerInv /\ BeatInv /\ PartInv /\ HeardInv /\ AgeInv
              /\ NoFalseAlarm

LEMMA InitAlarm == Init => AlarmInv
<1> SUFFICES ASSUME Init PROVE AlarmInv
  OBVIOUS
<1>1. TypeOK
  BY InitType
<1>2. /\ once = [e \in Ends |-> "open"] /\ closed = {} /\ conn = Ends /\ tick = {}
      /\ age = [e \in Ends |-> 0] /\ alarm = {}
      /\ \A e \in Ends, g \in Goroutines : job[e][g] \in {"idle", "end"}
      /\ \A e \in Ends : job[e]["loop"] = "idle"
  BY EndsFacts DEF Init, Runs
<1>3. OpenInv /\ RunnerInv
  BY <1>2 DEF OpenInv, RunnerInv, Goroutines
<1>4. BeatInv
  BY <1>2, EndsFacts DEF BeatInv
<1>5. PartInv
  BY <1>2 DEF PartInv, Parted
<1>6. HeardInv /\ AgeInv /\ NoFalseAlarm
  BY <1>2 DEF HeardInv, AgeInv, NoFalseAlarm
<1> QED BY <1>1, <1>3, <1>4, <1>5, <1>6 DEF AlarmInv

\* What a step does to the job of a goroutine, and what comes with it.
Turns(e, g) ==
    \/ job'[e][g] = job[e][g]
    \/ /\ job[e][g] \in Frames
       /\ \E ok \in BOOLEAN :
             /\ job'[e][g] = AfterFrame(g, job[e][g], ok)
             /\ ok \/ e \in closed \/ e \notin conn \/ Peer(e) \notin conn
             /\ ok => Has(link'[Peer(e)], job[e][g])
    \/ job[e][g] = "close" /\ job'[e][g] = "GOAWAY" /\ once[e] = "open" /\ once'[e] = g
    \/ job[e][g] = "close" /\ job'[e][g] = "end" /\ once[e] = "done"
    \/ job[e][g] = "mark" /\ job'[e][g] = "conn" /\ e \in closed'
    \/ job[e][g] = "conn" /\ job'[e][g] = "end" /\ once'[e] = "done"
    \/ g = "loop" /\ job[e][g] = "idle" /\ job'[e][g] \in {"PONG", "close", "idle"}
    \/ g = "keep" /\ job[e][g] = "idle" /\ job'[e][g] \in {"PING", "close"}
    \/ g = "keep" /\ job[e][g] = "idle" /\ job'[e][g] = "end" /\ e \in closed
    \/ g \notin {"loop", "keep"} /\ job'[e][g] \in {"PING", "DATA", "end", "join", "close"}
          /\ job[e][g] \in {"idle", "join"}

LEMMA AppendHas ==
  ASSUME NEW s \in Seq(Frames), NEW f \in Frames
  PROVE  /\ Has(Append(s, f), f) /\ Append(s, f) # <<>>
         /\ \A frame : Has(s, frame) => Has(Append(s, f), frame)
<1>1. /\ Len(Append(s, f)) = Len(s) + 1 /\ Append(s, f)[Len(s) + 1] = f /\ Len(s) \in Nat
      /\ \A k \in 1 .. Len(s) : Append(s, f)[k] = s[k]
  OBVIOUS
<1>2. Has(Append(s, f), f)
  <2>1. Len(s) + 1 \in 1 .. Len(Append(s, f))
    BY <1>1
  <2> QED BY <1>1, <2>1 DEF Has
<1>3. \A frame : Has(s, frame) => Has(Append(s, f), frame)
  <2>1. \A k \in 1 .. Len(s) : k \in 1 .. Len(Append(s, f))
    BY <1>1
  <2> QED BY <1>1, <2>1 DEF Has
<1>4. Append(s, f) # <<>>
  BY <1>1
<1> QED BY <1>2, <1>3, <1>4

LEMMA TailHas ==
  ASSUME NEW s \in Seq(Frames), s # <<>>, NEW frame, Has(s, frame)
  PROVE  Head(s) = frame \/ Has(Tail(s), frame)
<1>1. PICK k \in 1 .. Len(s) : s[k] = frame
  BY DEF Has
<1>2. CASE k = 1
  BY <1>1, <1>2
<1>3. CASE k # 1
  <2>1. k - 1 \in 1 .. Len(Tail(s)) /\ Tail(s)[k - 1] = s[k]
    BY <1>1, <1>3
  <2> QED BY <1>1, <2>1 DEF Has
<1> QED BY <1>2, <1>3

LEMMA NothingHas == \A frame : ~Has(<<>>, frame)
<1>1. Len(<<>>) = 0
  OBVIOUS
<1> QED BY <1>1 DEF Has

\* What happens to the frames on their way to e.
LEMMA Wire ==
  ASSUME TypeOK, [Next]_vars, NEW e \in Ends
  PROVE  \/ link'[e] = link[e]
         \/ /\ link'[e] # <<>>
            /\ \A frame : Has(link[e], frame) => Has(link'[e], frame)
         \/ /\ Receive(e) /\ link[e] # <<>> /\ link'[e] = Tail(link[e])
            /\ job[e]["loop"] = "idle" /\ job'[e]["loop"] = Answer(Head(link[e]))
            /\ age'[e] = 0
         \/ once'[e] = "done" /\ e \notin conn'
<1> DEFINE Goal == \/ link'[e] = link[e]
                   \/ /\ link'[e] # <<>>
                      /\ \A frame : Has(link[e], frame) => Has(link'[e], frame)
                   \/ /\ Receive(e) /\ link[e] # <<>> /\ link'[e] = Tail(link[e])
                      /\ job[e]["loop"] = "idle" /\ job'[e]["loop"] = Answer(Head(link[e]))
                      /\ age'[e] = 0
                   \/ once'[e] = "done" /\ e \notin conn'
<1> SUFFICES Goal
  OBVIOUS
<1>1. ASSUME NEW d \in Ends, NEW g \in Runs(d), WriteConn(d, g) PROVE Goal
  <2>1. job[d][g] \in Frames
    BY <1>1, EndsFacts DEF WriteConn, TypeOK, Goroutines
  <2>2. CASE e = Peer(d) /\ link' = [link EXCEPT ![Peer(d)] = Append(@, job[d][g])]
    <3>1. link'[e] = Append(link[e], job[d][g]) /\ link[e] \in Seq(Frames)
      BY <2>2, EndsFacts DEF TypeOK
    <3> QED BY <2>1, <3>1, AppendHas
  <2>3. CASE ~(e = Peer(d) /\ link' = [link EXCEPT ![Peer(d)] = Append(@, job[d][g])])
    BY <1>1, <2>3 DEF WriteConn, TypeOK
  <2> QED BY <2>2, <2>3
<1>2. ASSUME NEW d \in Ends, Receive(d) PROVE Goal
  <2>1. CASE d = e
    <3>1. job'[e]["loop"] = Answer(Head(link[e]))
      BY <1>2, <2>1 DEF Receive, Turn, TypeOK, Goroutines
    <3> QED BY <1>2, <2>1, <3>1 DEF Receive, TypeOK
  <2>2. CASE d # e
    BY <1>2, <2>2 DEF Receive, TypeOK
  <2> QED BY <2>1, <2>2
<1>3. ASSUME NEW d \in Ends, NEW g \in Runs(d), CloseConn(d, g) PROVE Goal
  BY <1>3 DEF CloseConn, TypeOK
<1>4. ASSUME UNCHANGED link PROVE Goal
  BY <1>4
<1> HIDE DEF Goal
<1>5. ASSUME NEW d \in Ends, NEW g \in Runs(d), Step(d, g) PROVE Goal
  BY <1>1, <1>3, <1>4, <1>5 DEF Step, Lock, EnterClose, MarkClosed, net
<1>6. ASSUME NEW d \in Ends,
             \/ ReceiveFails(d) \/ KeepBeat(d) \/ PadBeat(d) \/ AppWrite(d)
             \/ UserStop(d) \/ UserJoin(d) \/ Vanish(d)
      PROVE  Goal
  BY <1>4, <1>6 DEF ReceiveFails, KeepBeat, PadBeat, AppWrite, UserStop, UserJoin, Vanish, net
<1>7. CASE Interval \/ UNCHANGED vars
  BY <1>4, <1>7 DEF Interval, vars, net
<1> QED BY <1>2, <1>5, <1>6, <1>7 DEF Next

LEMMA WriteTurns ==
  ASSUME TypeOK, NEW d \in Ends, NEW h \in Goroutines, Lock(d, h) \/ WriteConn(d, h),
         NEW e \in Ends, NEW g \in Goroutines
  PROVE  Turns(e, g)
<1>1. ASSUME NEW ok \in BOOLEAN, Turn(d, h, AfterFrame(h, job[d][h], ok)),
             job[d][h] \in Frames,
             ok \/ d \in closed \/ d \notin conn \/ Peer(d) \notin conn,
             ok => Has(link'[Peer(d)], job[d][h])
      PROVE  Turns(e, g)
  <2> DEFINE after == AfterFrame(h, job[d][h], ok)
  <2>1. Turn(d, h, after)
    BY <1>1
  <2>2. job'[e][g] = IF e = d /\ g = h THEN after ELSE job[e][g]
    <3> HIDE DEF after
    <3> QED BY <2>1, TurnJob
  <2>3. CASE e = d /\ g = h
    BY <1>1, <2>2, <2>3 DEF Turns
  <2>4. CASE ~(e = d /\ g = h)
    BY <2>2, <2>4 DEF Turns
  <2> QED BY <2>3, <2>4
<1>2. CASE Lock(d, h)
  <2>1. CASE d \in closed
    BY <1>1, <1>2, <2>1 DEF Lock, Wants
  <2>2. CASE d \notin closed
    BY <1>2, <2>2 DEF Lock, Turns
  <2> QED BY <2>1, <2>2
<1>3. CASE WriteConn(d, h)
  <2>1. job[d][h] \in Frames
    BY <1>3 DEF WriteConn, TypeOK, Goroutines
  <2>2. CASE /\ link' = [link EXCEPT ![Peer(d)] = Append(@, job[d][h])]
             /\ Turn(d, h, AfterFrame(h, job[d][h], TRUE))
    <3>1. link'[Peer(d)] = Append(link[Peer(d)], job[d][h]) /\ link[Peer(d)] \in Seq(Frames)
      BY <2>2, EndsFacts DEF TypeOK
    <3>2. Has(link'[Peer(d)], job[d][h])
      BY <2>1, <3>1, AppendHas
    <3> QED BY <1>1, <2>1, <2>2, <3>2
  <2>3. CASE /\ ~({d, Peer(d)} \subseteq conn)
             /\ Turn(d, h, AfterFrame(h, job[d][h], FALSE))
    BY <1>1, <2>1, <2>3
  <2> QED BY <1>3, <2>2, <2>3 DEF WriteConn
<1> QED BY <1>2, <1>3

LEMMA OtherTurns ==
  ASSUME TypeOK, NEW d \in Ends, NEW h \in Goroutines,
         \/ EnterClose(d, h) \/ MarkClosed(d, h) \/ CloseConn(d, h)
         \/ Receive(d) \/ ReceiveFails(d) \/ KeepBeat(d) \/ PadBeat(d) \/ AppWrite(d)
         \/ UserStop(d) \/ UserJoin(d),
         NEW e \in Ends, NEW g \in Goroutines
  PROVE  Turns(e, g)
<1> DEFINE Change(q, what) == job'[e][g] = IF e = d /\ g = q THEN what ELSE job[e][g]
<1>1. \A q \in Goroutines : \A what : Turn(d, q, what) => Change(q, what)
  BY TurnJob
<1>g. {"loop", "keep", "pad", "app", "user"} \subseteq Goroutines
  BY EndsFacts
<1>2. CASE EnterClose(d, h)
  <2>1. (once[d] = "open" /\ once' = [once EXCEPT ![d] = h] /\ Change(h, "GOAWAY") /\ job[d][h] = "close")
        \/ (once[d] = "done" /\ Change(h, "end") /\ job[d][h] = "close")
    BY <1>1, <1>2 DEF EnterClose
  <2> QED BY <2>1 DEF Turns, TypeOK
<1>3. CASE MarkClosed(d, h)
  <2>1. Change(h, "conn") /\ job[d][h] = "mark" /\ d \in closed'
    BY <1>1, <1>3 DEF MarkClosed
  <2> QED BY <2>1 DEF Turns
<1>4. CASE CloseConn(d, h)
  <2>1. Change(h, "end") /\ job[d][h] = "conn" /\ once'[d] = "done"
    BY <1>1, <1>4 DEF CloseConn, TypeOK
  <2> QED BY <2>1 DEF Turns
<1>5. CASE Receive(d)
  <2>1. Change("loop", Answer(Head(link[d]))) /\ job[d]["loop"] = "idle"
    BY <1>1, <1>5, <1>g DEF Receive
  <2> QED BY <2>1, AnswerType DEF Turns
<1>6. CASE ReceiveFails(d)
  <2>1. Change("loop", "close") /\ job[d]["loop"] = "idle"
    BY <1>1, <1>6, <1>g DEF ReceiveFails
  <2> QED BY <2>1 DEF Turns
<1>7. CASE KeepBeat(d)
  <2>1. /\ job[d]["keep"] = "idle"
        /\ \/ Change("keep", "PING") \/ Change("keep", "close")
           \/ Change("keep", "end") /\ d \in closed
    BY <1>1, <1>7, <1>g DEF KeepBeat
  <2> QED BY <2>1 DEF Turns
<1>8. CASE PadBeat(d) \/ AppWrite(d) \/ UserStop(d) \/ UserJoin(d)
  <2>1. \E q \in {"pad", "app", "user"} :
           /\ job[d][q] \in {"idle", "join"}
           /\ \E what \in {"PING", "DATA", "end", "join", "close"} : Change(q, what)
    BY <1>1, <1>8, <1>g DEF PadBeat, AppWrite, UserStop, UserJoin
  <2> QED BY <2>1 DEF Turns
<1> QED BY <1>2, <1>3, <1>4, <1>5, <1>6, <1>7, <1>8

LEMMA TurnsStep ==
  ASSUME TypeOK, [Next]_vars, NEW e \in Ends, NEW g \in Goroutines
  PROVE  Turns(e, g)
<1>1. ASSUME NEW d \in Ends, NEW h \in Runs(d), Step(d, h) PROVE Turns(e, g)
  BY <1>1, EndsFacts, WriteTurns, OtherTurns DEF Step
<1>2. ASSUME NEW d \in Ends,
             \/ Receive(d) \/ ReceiveFails(d) \/ KeepBeat(d) \/ PadBeat(d) \/ AppWrite(d)
             \/ UserStop(d) \/ UserJoin(d)
      PROVE  Turns(e, g)
  BY <1>2, OtherTurns
<1>3. ASSUME UNCHANGED job PROVE Turns(e, g)
  BY <1>3 DEF Turns
<1>4. CASE Interval \/ UNCHANGED vars \/ \E d \in Ends : Vanish(d)
  BY <1>3, <1>4 DEF Interval, vars, Vanish
<1> QED BY <1>1, <1>2, <1>4 DEF Next

\* closeOnce, done and the connection.
LEMMA ClosingStep ==
  ASSUME TypeOK, [Next]_vars, NEW e \in Ends
  PROVE  /\ \/ once'[e] = once[e]
            \/ \E g \in Goroutines : once'[e] = g /\ once[e] = "open" /\ job'[e][g] = "GOAWAY"
            \/ once'[e] = "done" /\ \E g \in Goroutines : job[e][g] = "conn"
         /\ e \in closed' => e \in closed \/ \E g \in Goroutines : job[e][g] = "mark"
         /\ e \notin conn' => e \notin conn \/ \E g \in Goroutines : job[e][g] = "conn"
         /\ e \in gone => e \in gone'
<1> DEFINE Goal ==
        /\ \/ once'[e] = once[e]
           \/ \E g \in Goroutines : once'[e] = g /\ once[e] = "open" /\ job'[e][g] = "GOAWAY"
           \/ once'[e] = "done" /\ \E g \in Goroutines : job[e][g] = "conn"
        /\ e \in closed' => e \in closed \/ \E g \in Goroutines : job[e][g] = "mark"
        /\ e \notin conn' => e \notin conn \/ \E g \in Goroutines : job[e][g] = "conn"
        /\ e \in gone => e \in gone'
<1> SUFFICES Goal
  OBVIOUS
<1>1. ASSUME NEW d \in Ends, NEW g \in Runs(d), EnterClose(d, g) PROVE Goal
  <2>1. g \in Goroutines
    BY EndsFacts
  <2>2. d = e /\ once'[e] # once[e] => job'[e][g] = "GOAWAY" /\ once[e] = "open" /\ once'[e] = g
    BY <1>1, <2>1 DEF EnterClose, Turn, TypeOK
  <2>3. d # e => once'[e] = once[e]
    BY <1>1 DEF EnterClose, TypeOK
  <2>4. UNCHANGED <<closed, conn, gone>>
    BY <1>1 DEF EnterClose, net
  <2> QED BY <2>1, <2>2, <2>3, <2>4
<1>2. ASSUME NEW d \in Ends, NEW g \in Runs(d), MarkClosed(d, g) PROVE Goal
  BY <1>2, EndsFacts DEF MarkClosed, net
<1>3. ASSUME NEW d \in Ends, NEW g \in Runs(d), CloseConn(d, g) PROVE Goal
  BY <1>3, EndsFacts DEF CloseConn, TypeOK
<1>4. ASSUME UNCHANGED <<closed, once, conn>>, gone \subseteq gone' PROVE Goal
  BY <1>4
<1> HIDE DEF Goal
<1>5. ASSUME NEW d \in Ends, NEW g \in Runs(d), Step(d, g) PROVE Goal
  BY <1>1, <1>2, <1>3, <1>4, <1>5 DEF Step, Lock, WriteConn, net, closing
<1>6. ASSUME NEW d \in Ends,
             \/ Receive(d) \/ ReceiveFails(d) \/ KeepBeat(d) \/ PadBeat(d) \/ AppWrite(d)
             \/ UserStop(d) \/ UserJoin(d) \/ Vanish(d)
      PROVE  Goal
  BY <1>4, <1>6 DEF Receive, ReceiveFails, KeepBeat, PadBeat, AppWrite, UserStop, UserJoin,
     Vanish, net, closing
<1>7. CASE Interval \/ UNCHANGED vars
  BY <1>4, <1>7 DEF Interval, vars, net, closing
<1> QED BY <1>5, <1>6, <1>7 DEF Next

\* The clock of e.
LEMMA ClockStep ==
  ASSUME TypeOK, [Next]_vars, NEW e \in Ends
  PROVE  /\ \/ /\ Interval /\ (e \in KeepAlives => e \in tick')
               /\ age'[e] <= age[e] + 1
            \/ job'[e]["keep"] \in {"PING", "close"} /\ age'[e] = age[e]
            \/ (e \in tick' <=> e \in tick) /\ (age'[e] = age[e] \/ age'[e] = 0)
         /\ e \in alarm' => \/ e \in alarm
                            \/ /\ e \in tick /\ age[e] > Timeout
                               /\ e \notin gone /\ job[e]["keep"] = "idle"
         /\ tick' \subseteq tick \/ tick' = KeepAlives
<1> DEFINE Goal ==
        /\ \/ /\ Interval /\ (e \in KeepAlives => e \in tick')
              /\ age'[e] <= age[e] + 1
           \/ job'[e]["keep"] \in {"PING", "close"} /\ age'[e] = age[e]
           \/ (e \in tick' <=> e \in tick) /\ (age'[e] = age[e] \/ age'[e] = 0)
        /\ e \in alarm' => \/ e \in alarm
                           \/ /\ e \in tick /\ age[e] > Timeout
                              /\ e \notin gone /\ job[e]["keep"] = "idle"
        /\ tick' \subseteq tick \/ tick' = KeepAlives
<1> SUFFICES Goal
  OBVIOUS
<1>1. CASE Interval
  <2>1. age'[e] <= age[e] + 1
    <3>1. age[e] \in Int /\ age' = [d \in Ends |-> IF age[d] > Timeout THEN age[d] ELSE age[d] + 1]
      BY <1>1, KeepAliveAssumption DEF Interval, TypeOK, KeepAliveAssumption
    <3> QED BY <3>1
  <2> QED BY <1>1, <2>1 DEF Interval
<1>2. ASSUME NEW d \in Ends, KeepBeat(d) PROVE Goal
  <2>1. CASE d = e
    <3>1. "keep" \in Goroutines
      BY EndsFacts
    <3>2. \/ /\ e \in tick /\ tick' = tick \ {e} /\ job'[e]["keep"] \in {"PING", "close"}
             /\ e \in alarm' => e \in alarm \/ age[e] > Timeout
          \/ UNCHANGED <<tick, alarm>>
      BY <1>2, <2>1, <3>1 DEF KeepBeat, Turn, TypeOK, Expired
    <3> QED BY <1>2, <2>1, <3>2 DEF KeepBeat
  <2>2. CASE d # e
    BY <1>2, <2>2 DEF KeepBeat
  <2> QED BY <2>1, <2>2
<1>3. ASSUME NEW d \in Ends, Receive(d) PROVE Goal
  BY <1>3 DEF Receive, TypeOK
<1>4. ASSUME UNCHANGED clock PROVE Goal
  BY <1>4 DEF clock
<1> HIDE DEF Goal
<1>5. ASSUME NEW d \in Ends, NEW g \in Runs(d), Step(d, g) PROVE Goal
  BY <1>4, <1>5 DEF Step, Lock, WriteConn, EnterClose, MarkClosed, CloseConn
<1>6. ASSUME NEW d \in Ends,
             \/ ReceiveFails(d) \/ PadBeat(d) \/ AppWrite(d) \/ UserStop(d) \/ UserJoin(d)
             \/ Vanish(d)
      PROVE  Goal
  BY <1>4, <1>6 DEF ReceiveFails, PadBeat, AppWrite, UserStop, UserJoin, Vanish
<1>7. CASE UNCHANGED vars
  BY <1>4, <1>7 DEF vars
<1> QED BY <1>1, <1>2, <1>3, <1>5, <1>6, <1>7 DEF Next

LEMMA AfterFrameIs ==
  ASSUME NEW g, NEW frame, NEW ok
  PROVE  /\ frame = "GOAWAY" => AfterFrame(g, frame, ok) = "mark"
         /\ frame # "GOAWAY" => AfterFrame(g, frame, ok) \in {"idle", "close", "end"}
         /\ frame # "GOAWAY" /\ ok => AfterFrame(g, frame, ok) = "idle"
         /\ frame # "GOAWAY" /\ ~ok /\ g \in {"loop", "keep"}
               => AfterFrame(g, frame, ok) = "close"
         /\ frame # "GOAWAY" /\ g \in {"loop", "keep"} => AfterFrame(g, frame, ok) # "end"
  BY DEF AfterFrame

\* closeOnce is open after a step only if it was before.
LEMMA OpenBefore ==
  ASSUME TypeOK, [Next]_vars, NEW e \in Ends, once'[e] = "open"
  PROVE  once[e] = "open"
  BY ClosingStep DEF Goroutines

LEMMA OpenStep ==
  ASSUME TypeOK, OpenInv, [Next]_vars
  PROVE  OpenInv'
<1> SUFFICES ASSUME NEW e \in Ends, once'[e] = "open"
             PROVE  /\ e \notin closed' /\ e \in conn' /\ job'[e]["loop"] # "end"
                    /\ \A g \in Goroutines : job'[e][g] \notin {"GOAWAY", "mark", "conn"}
  BY DEF OpenInv
<1>1. /\ once[e] = "open" /\ e \notin closed /\ e \in conn /\ job[e]["loop"] # "end"
      /\ \A g \in Goroutines : job[e][g] \notin {"GOAWAY", "mark", "conn"}
  BY OpenBefore DEF OpenInv
<1>2. e \notin closed' /\ e \in conn'
  BY <1>1, ClosingStep
<1>3. ASSUME NEW g \in Goroutines PROVE job'[e][g] \notin {"GOAWAY", "mark", "conn"}
  <2>1. Turns(e, g) /\ job[e][g] \notin {"GOAWAY", "mark", "conn"} /\ g # "open"
    BY <1>1, TurnsStep DEF Goroutines
  <2> QED BY <2>1, AfterFrameIs DEF Turns
<1>4. job'[e]["loop"] # "end"
  <2>1. Turns(e, "loop") /\ job[e]["loop"] \notin {"GOAWAY", "mark", "conn", "end"}
    BY <1>1, TurnsStep, EndsFacts
  <2> QED BY <1>1, <2>1, AfterFrameIs DEF Turns
<1> QED BY <1>2, <1>3, <1>4

LEMMA RunnerStep ==
  ASSUME TypeOK, RunnerInv, [Next]_vars
  PROVE  RunnerInv'
<1> SUFFICES ASSUME NEW e \in Ends, NEW g \in Goroutines, once'[e] = g
             PROVE  job'[e][g] \in {"GOAWAY", "mark", "conn"}
  BY DEF RunnerInv
<1>1. g # "open" /\ g # "done"
  BY DEF Goroutines
<1>2. once[e] = g \/ job'[e][g] = "GOAWAY"
  BY <1>1, ClosingStep
<1>3. CASE once[e] = g
  <2>1. Turns(e, g) /\ job[e][g] \in {"GOAWAY", "mark", "conn"}
    BY <1>3, TurnsStep DEF RunnerInv
  <2>2. CASE job[e][g] = "GOAWAY"
    <3>1. \A ok : AfterFrame(g, job[e][g], ok) = "mark"
      BY <2>2, AfterFrameIs
    <3> QED BY <2>1, <2>2, <3>1 DEF Turns
  <2>3. CASE job[e][g] = "mark"
    BY <2>1, <2>3 DEF Turns, Frames
  <2>4. CASE job[e][g] = "conn"
    <3>1. once'[e] # "done"
      BY <1>1
    <3> QED BY <2>1, <2>4, <3>1 DEF Turns, Frames
  <2> QED BY <2>1, <2>2, <2>3, <2>4
<1> QED BY <1>2, <1>3

LEMMA BeatStep ==
  ASSUME TypeOK, BeatInv, [Next]_vars
  PROVE  BeatInv'
<1>1. ASSUME NEW e \in Ends PROVE job'[e]["keep"] \notin {"PONG", "DATA"}
  <2>1. Turns(e, "keep") /\ job[e]["keep"] \notin {"PONG", "DATA"}
    BY TurnsStep, EndsFacts DEF BeatInv
  <2> QED BY <2>1, AfterFrameIs DEF Turns
<1>2. tick' \subseteq KeepAlives
  <2>1. "ini" \in Ends
    BY DEF Ends
  <2> QED BY <2>1, ClockStep DEF BeatInv
<1> QED BY <1>1, <1>2 DEF BeatInv

\* A readLoop on its way to closeWithError gets there.
LEMMA CloseLasts ==
  ASSUME TypeOK, [Next]_vars, NEW e \in Ends, once'[e] = "open", job[e]["loop"] = "close"
  PROVE  job'[e]["loop"] = "close"
<1>1. Turns(e, "loop") /\ once[e] = "open"
  BY TurnsStep, OpenBefore, EndsFacts
<1> QED BY <1>1 DEF Turns, Frames

LEMMA PartStep ==
  ASSUME TypeOK, OpenInv, PartInv, [Next]_vars
  PROVE  PartInv'
<1> SUFFICES ASSUME NEW e \in Ends, Parted(e)', once'[Peer(e)] = "open"
             PROVE  Has(link'[Peer(e)], "GOAWAY") \/ job'[Peer(e)]["loop"] = "close"
  BY DEF PartInv
<1> DEFINE w == Peer(e)
           Goal == Has(link'[w], "GOAWAY") \/ job'[w]["loop"] = "close"
<1> SUFFICES Goal
  OBVIOUS
<1>w. w \in Ends
  BY EndsFacts
<1>o. once[w] = "open" /\ w \in conn
  BY <1>w, OpenBefore DEF OpenInv
<1>1. CASE Parted(e)
  <2>1. Has(link[w], "GOAWAY") \/ job[w]["loop"] = "close"
    BY <1>1, <1>o DEF PartInv
  <2> HIDE DEF w
  <2>2. CASE job[w]["loop"] = "close"
    BY <1>w, <2>2, CloseLasts DEF w
  <2>3. CASE Has(link[w], "GOAWAY")
    <3>1. CASE link'[w] = link[w] \/ \A frame : Has(link[w], frame) => Has(link'[w], frame)
      BY <2>3, <3>1
    <3>2. CASE /\ link[w] # <<>> /\ link'[w] = Tail(link[w])
               /\ job'[w]["loop"] = Answer(Head(link[w]))
      <4>1. Head(link[w]) = "GOAWAY" \/ Has(link'[w], "GOAWAY")
        BY <1>w, <2>3, <3>2, TailHas DEF TypeOK
      <4> QED BY <3>2, <4>1 DEF Answer
    <3>3. once'[w] # "done"
      BY DEF w
    <3> QED BY <1>w, <3>1, <3>2, <3>3, Wire
  <2> QED BY <2>1, <2>2, <2>3
<1>2. CASE ~Parted(e)
  <2>1. /\ e \notin closed /\ e \in conn /\ once[e] # "done"
        /\ \A g \in Goroutines : job[e][g] \notin {"mark", "conn"}
    BY <1>2 DEF Parted
  <2>2. e \notin closed' /\ e \in conn' /\ once'[e] # "done"
    BY <2>1, ClosingStep DEF Goroutines
  <2>3. PICK g \in Goroutines : job'[e][g] \in {"mark", "conn"}
    BY <2>2 DEF Parted
  <2>4. Turns(e, g) /\ job[e][g] \notin {"mark", "conn"}
    BY <2>1, TurnsStep
  <2>5. Has(link'[w], "GOAWAY")
    <3>1. PICK ok \in BOOLEAN : /\ job[e][g] \in Frames
                                /\ job'[e][g] = AfterFrame(g, job[e][g], ok)
                                /\ ok \/ e \in closed \/ e \notin conn \/ Peer(e) \notin conn
                                /\ ok => Has(link'[Peer(e)], job[e][g])
      BY <2>3, <2>4 DEF Turns
    <3>2. job[e][g] = "GOAWAY"
      BY <2>3, <3>1, AfterFrameIs
    <3>3. ok
      BY <1>o, <2>1, <3>1
    <3> QED BY <3>1, <3>2, <3>3
  <2> QED BY <2>5
<1> QED BY <1>1, <1>2

\* keepAliveLoop only comes back from the PING it wrote.
LEMMA BeatsBefore ==
  ASSUME TypeOK, BeatInv, [Next]_vars, NEW e \in Ends, Beats(e)'
  PROVE  Beats(e)
<1>1. Turns(e, "keep") /\ job[e]["keep"] \notin {"PONG", "DATA"}
  BY TurnsStep, EndsFacts DEF BeatInv
<1>2. job'[e]["keep"] \in {"idle", "PING"} /\ e \in KeepAlives
  BY DEF Beats
<1>3. job[e]["keep"] \in {"idle", "PING"}
  BY <1>1, <1>2, AfterFrameIs DEF Turns, Frames
<1> QED BY <1>2, <1>3 DEF Beats

LEMMA HeardStep ==
  ASSUME TypeOK, OpenInv, BeatInv, HeardInv, [Next]_vars
  PROVE  HeardInv'
<1> SUFFICES ASSUME NEW e \in Ends, Open(e)', Open(Peer(e))', Beats(e)', e \notin tick',
                    age'[e] # 0
             PROVE  Answering(e)'
  BY DEF HeardInv
<1> DEFINE w == Peer(e)
<1>w. w \in Ends /\ Peer(w) = e
  BY EndsFacts
<1>o. /\ Open(e) /\ Open(w) /\ once'[e] = "open" /\ once'[w] = "open"
      /\ e \in conn /\ w \in conn /\ e \notin closed /\ w \notin closed
  BY <1>w, OpenBefore, ClosingStep DEF Open, OpenInv
<1>b. Beats(e) /\ e \in KeepAlives /\ job'[e]["keep"] \in {"idle", "PING"}
  BY BeatsBefore DEF Beats
<1> DEFINE Goal == \/ job'[e]["keep"] = "PING" \/ Has(link'[w], "PING")
                   \/ job'[w]["loop"] \in {"PONG", "close"} \/ link'[e] # <<>>
<1> SUFFICES Goal
  BY DEF Answering
<1>1. CASE job'[e]["keep"] = "PING"
  BY <1>1
<1>2. CASE (e \in tick' <=> e \in tick) /\ (age'[e] = age[e] \/ age'[e] = 0)
  <2>1. Answering(e)
    BY <1>2, <1>o, <1>b DEF HeardInv
  <2> HIDE DEF w
  <2>2. CASE job[e]["keep"] = "PING"
    <3>1. Turns(e, "keep")
      BY TurnsStep, EndsFacts
    <3>2. job'[e]["keep"] = "PING" \/ Has(link'[w], "PING")
      BY <1>o, <2>2, <3>1 DEF Turns, w
    <3> QED BY <3>2
  <2>3. CASE Has(link[w], "PING")
    <3>1. CASE link'[w] = link[w] \/ \A frame : Has(link[w], frame) => Has(link'[w], frame)
      BY <2>3, <3>1
    <3>2. CASE /\ link[w] # <<>> /\ link'[w] = Tail(link[w])
               /\ job'[w]["loop"] = Answer(Head(link[w]))
      <4>1. Head(link[w]) = "PING" \/ Has(link'[w], "PING")
        BY <1>w, <2>3, <3>2, TailHas DEF TypeOK
      <4> QED BY <3>2, <4>1 DEF Answer
    <3>3. once'[w] # "done"
      BY <1>o
    <3> QED BY <1>w, <3>1, <3>2, <3>3, Wire
  <2>4. CASE job[w]["loop"] = "PONG"
    <3>1. Turns(w, "loop")
      BY <1>w, TurnsStep, EndsFacts
    <3>2. job'[w]["loop"] = "PONG" \/ Has(link'[e], "PONG")
      BY <1>w, <1>o, <2>4, <3>1 DEF Turns
    <3> QED BY <3>2, NothingHas
  <2>5. CASE job[w]["loop"] = "close"
    BY <1>w, <1>o, <2>5, CloseLasts
  <2>6. CASE link[e] # <<>>
    <3>1. once'[e] # "done"
      BY <1>o
    <3> QED BY <2>6, <3>1, Wire
  <2> QED BY <2>1, <2>2, <2>3, <2>4, <2>5, <2>6 DEF Answering, w
<1> QED BY <1>1, <1>2, <1>b, ClockStep

\* When nothing is under way, e has just heard from its peer.
LEMMA QuietHeard ==
  ASSUME TypeOK, RunnerInv, PartInv, HeardInv, Quiet,
         NEW e \in Ends, e \notin gone, Open(Peer(e)), Beats(e)
  PROVE  age[e] = 0
<1> DEFINE w == Peer(e)
<1>w. w \in Ends /\ w \notin gone /\ once[w] = "open"
  BY EndsFacts DEF Open
<1>1. /\ link[e] = <<>> /\ link[w] = <<>>
      /\ \A g \in Goroutines : job[e][g] \in {"idle", "end"} /\ job[w][g] \in {"idle", "end"}
      /\ e \in tick => job[e]["keep"] = "end"
  BY <1>w DEF Quiet
<1>2. /\ ~Has(link[w], "GOAWAY") /\ ~Has(link[w], "PING")
      /\ job[w]["loop"] \in {"idle", "end"} /\ job[e]["keep"] \in {"idle", "end"}
  BY <1>1, NothingHas, EndsFacts
<1>3. e \notin tick
  BY <1>1 DEF Beats
<1>4. Open(e)
  <2>1. ~Parted(e)
    BY <1>w, <1>2 DEF PartInv
  <2>2. once[e] \in Goroutines \cup {"open", "done"}
    BY DEF TypeOK
  <2>3. once[e] \notin Goroutines
    BY <1>1 DEF RunnerInv
  <2> QED BY <2>1, <2>2, <2>3 DEF Parted, Open
<1>5. ~Answering(e)
  BY <1>1, <1>2 DEF Answering
<1> QED BY <1>3, <1>4, <1>5 DEF HeardInv

LEMMA AgeStep ==
  ASSUME Prompt, TypeOK, RunnerInv, BeatInv, PartInv, HeardInv, AgeInv, [Next]_vars
  PROVE  AgeInv'
<1> SUFFICES ASSUME NEW e \in Ends, e \notin gone', Open(Peer(e))', Beats(e)'
             PROVE  age'[e] <= 1
  BY DEF AgeInv
<1>1. e \notin gone /\ Open(Peer(e)) /\ Beats(e)
  BY BeatsBefore, OpenBefore, ClosingStep, EndsFacts DEF Open
<1>2. age[e] <= 1 /\ age[e] \in Int
  BY <1>1, KeepAliveAssumption DEF AgeInv, TypeOK, KeepAliveAssumption
<1>3. CASE Interval /\ age'[e] <= age[e] + 1
  <2>1. age[e] = 0
    BY <1>1, <1>3, QuietHeard DEF Interval
  <2> QED BY <1>3, <2>1
<1>4. CASE age'[e] = age[e] \/ age'[e] = 0
  BY <1>2, <1>4
<1> QED BY <1>3, <1>4, ClockStep

LEMMA NoFalseStep ==
  ASSUME Timeout # 0, TypeOK, BeatInv, AgeInv, NoFalseAlarm, [Next]_vars
  PROVE  NoFalseAlarm'
<1> SUFFICES ASSUME NEW e \in alarm', Peer(e) \notin gone', once'[Peer(e)] = "open"
             PROVE  FALSE
  BY DEF NoFalseAlarm
<1>e. e \in Ends
  BY TypeStep DEF TypeOK
<1>w. Peer(e) \in Ends
  BY <1>e, EndsFacts
<1>1. Peer(e) \notin gone /\ once[Peer(e)] = "open"
  BY <1>w, OpenBefore, ClosingStep
<1>2. e \in tick /\ age[e] > Timeout /\ e \notin gone /\ job[e]["keep"] = "idle"
  BY <1>e, <1>1, ClockStep DEF NoFalseAlarm
<1>3. age[e] <= 1
  BY <1>e, <1>1, <1>2 DEF AgeInv, Open, Beats, BeatInv
<1>4. Timeout \in Nat /\ age[e] \in Int
  BY <1>e, KeepAliveAssumption DEF TypeOK, KeepAliveAssumption
<1> QED BY <1>2, <1>3, <1>4

LEMMA AlarmStep ==
  ASSUME Prompt, Timeout # 0 PROVE AlarmInv /\ [Next]_vars => AlarmInv'
  BY TypeStep, OpenStep, RunnerStep, BeatStep, PartStep, HeardStep, AgeStep, NoFalseStep
  DEF AlarmInv

\* session.go keepAliveLoop: where frames are faster than an interval of KeepAlive
\* and PingTimeout is at least one interval, only a peer that has vanished or is
\* closing is declared dead, however full the connection and whoever writes.
THEOREM OnlyTheDeadTimeOut ==
  ASSUME Prompt, Timeout # 0 PROVE Spec => []NoFalseAlarm
<1>1. AlarmInv => NoFalseAlarm
  BY DEF AlarmInv
<1> QED BY <1>1, InitAlarm, AlarmStep, PTL DEF Spec
=============================================================================
