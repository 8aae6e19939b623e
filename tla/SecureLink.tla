------------------------------ MODULE SecureLink ------------------------------
(***************************************************************************)
(* One transport connection between the device that opened it (ini) and    *)
(* the one that accepted it (rsp), from the Noise_XX handshake             *)
(* (internal/tunnel/handshake.go) through the AEAD records                 *)
(* (internal/tunnel/secure.go) to the TLMP frames a session writes and     *)
(* reads through them (internal/mux/frame.go).  Cryptography is what it    *)
(* promises: a record opens under the cipher and the nonce it was sealed   *)
(* with.  A frame is a header unit followed by its payload units; unit i   *)
(* of frame f is <<f, i>>, the header being unit 0.                        *)
(*                                                                         *)
(* TCP keeps order.  A message or record that was torn by a failing Write  *)
(* never reaches the reader, whose ReadFull fails instead.                 *)
(***************************************************************************)
EXTENDS Naturals, Sequences

CONSTANTS
    Keys,       \* static public keys
    None,       \* no key: nothing pinned, nothing learnt
    Frames,     \* Frames[e]: payload sizes of the frames e's session writes
    MaxFrame,   \* MaxFrame[e]: Config.MaxFramePayload of e's session
    MaxRecord,  \* HandshakeConfig.MaxPayload
    Joined      \* the ends that write header and payload at once (the phone)

Ends == {"ini", "rsp"}
Peer(e) == IF e = "ini" THEN "rsp" ELSE "ini"

ASSUME SecureLinkAssumption ==
    /\ None \notin Keys
    /\ Frames \in [Ends -> Seq(Nat)] /\ MaxFrame \in [Ends -> Nat]
    /\ \A e \in Ends : \A f \in DOMAIN Frames[e] : Frames[e][f] <= MaxFrame[e]
    /\ MaxRecord \in Nat \ {0} /\ Joined \subseteq Ends

VARIABLES
    id, pin,     \* id[e], pin[e]: StaticPrivate's public half and PinnedPeer
    wire,        \* wire[e]: what the connection carries to e
    fate,        \* fate[e]: "up", or how e's end of the connection ended
    timer,       \* ends with a deadline on their connection
    stage,       \* stage[e]: the last handshake message e has sent or read
    peer,        \* peer[e]: HandshakeResult.PeerStatic
    tx, rx,      \* nonces of writeCS and readCS
    cur, off,    \* the frame e writes, and its units already sealed
    rbuf,        \* rbuf[e]: decrypted units nobody has read yet
    asked, have, \* what ReadFull still wants, and the units of this frame
    got          \* history: the frames ReadFrame has returned to e

hsVars   == <<id, pin, timer, stage, peer>>
outVars  == <<tx, cur, off>>
inVars   == <<rx, rbuf, asked, have, got>>
linkVars == <<hsVars, wire, fate, outVars, inVars>>

Up(e)    == fate[e] = "up"
Ready(e) == Up(e) /\ stage[e] = 3
Put(f, e, v) == [f EXCEPT ![e] = v]

LinkInit ==
    /\ id = [e \in Ends |-> None] /\ pin = [e \in Ends |-> None]
    /\ wire = [e \in Ends |-> <<>>] /\ fate = [e \in Ends |-> "none"]
    /\ timer = {} /\ stage = [e \in Ends |-> 0]
    /\ peer = [e \in Ends |-> None]
    /\ tx = [e \in Ends |-> 0] /\ rx = [e \in Ends |-> 0]
    /\ cur = [e \in Ends |-> 1] /\ off = [e \in Ends |-> 0]
    /\ rbuf = [e \in Ends |-> <<>>] /\ asked = [e \in Ends |-> 1]
    /\ have = [e \in Ends |-> <<>>] /\ got = [e \in Ends |-> <<>>]

\* e's end of the connection is over: what nobody has read is dropped.
Ended(e, how) ==
    fate' = Put(fate, e, how) /\ wire' = Put(wire, e, <<>>)

\* A Write: the kernel drops what is for an end that is gone.
Sent(w, e, token) ==
    IF Up(Peer(e)) THEN [w EXCEPT ![Peer(e)] = Append(@, token)] ELSE w

\* Fault: no deadline is set.
NeverArmed == {}

Armed == Ends

\* A new connection: both ends set the deadline and start the handshake with
\* the identity and the pin their callers hold.
ConnectWith(ids, pins) ==
    /\ \A e \in Ends : ~Up(e)
    /\ id' = ids /\ pin' = pins
    /\ wire' = [e \in Ends |-> <<>>] /\ fate' = [e \in Ends |-> "up"]
    /\ timer' = Armed /\ stage' = [e \in Ends |-> 0]
    /\ peer' = [e \in Ends |-> None]
    /\ tx' = [e \in Ends |-> 0] /\ rx' = [e \in Ends |-> 0]
    /\ cur' = [e \in Ends |-> 1] /\ off' = [e \in Ends |-> 0]
    /\ rbuf' = [e \in Ends |-> <<>>] /\ asked' = [e \in Ends |-> 1]
    /\ have' = [e \in Ends |-> <<>>] /\ got' = [e \in Ends |-> <<>>]

-----------------------------------------------------------------------------
(* Handshake.  Messages 2 and 3 carry the sender's static public key.      *)

Msg(n, key) == [kind |-> "hs", n |-> n, by |-> key, body |-> <<>>]

Arrived(e, n) ==
    wire[e] # <<>> /\ Head(wire[e]).kind = "hs" /\ Head(wire[e]).n = n

PinAccepts(e, key) == pin[e] \in {None, key}

\* Fault: the deadline of the handshake stays on the connection.
StillArmed(e) == timer

Disarmed(e) == timer \ {e}

\* The end of Handshake: the caller closes the connection if it fails.
Settle(e, key) ==
    /\ stage' = Put(stage, e, 3)
    /\ peer' = Put(peer, e, key)
    /\ fate' = Put(fate, e, IF PinAccepts(e, key) THEN "up" ELSE "mismatch")
    /\ timer' = Disarmed(e)
    /\ UNCHANGED <<id, pin, outVars, inVars>>

\* ini: -> e
Hello ==
    /\ Up("ini") /\ stage["ini"] = 0
    /\ wire' = Sent(wire, "ini", Msg(1, None))
    /\ stage' = Put(stage, "ini", 1)
    /\ UNCHANGED <<id, pin, timer, peer, fate, outVars, inVars>>

\* rsp: <- e, ee, s, es
Reply ==
    /\ Up("rsp") /\ stage["rsp"] = 0 /\ Arrived("rsp", 1)
    /\ wire' = Sent([wire EXCEPT !["rsp"] = Tail(@)], "rsp", Msg(2, id["rsp"]))
    /\ stage' = Put(stage, "rsp", 2)
    /\ UNCHANGED <<id, pin, timer, peer, fate, outVars, inVars>>

\* ini: -> s, se, and only then the look at the pin.
Finish ==
    /\ Up("ini") /\ stage["ini"] = 1 /\ Arrived("ini", 2)
    /\ wire' = Sent([wire EXCEPT !["ini"] = Tail(@)], "ini", Msg(3, id["ini"]))
    /\ Settle("ini", Head(wire["ini"]).by)

\* rsp reads the third message.
Confirm ==
    /\ Up("rsp") /\ stage["rsp"] = 2 /\ Arrived("rsp", 3)
    /\ wire' = [wire EXCEPT !["rsp"] = Tail(@)]
    /\ Settle("rsp", Head(wire["rsp"]).by)

\* The deadline passes: whatever waits on the connection fails.
Deadline(e) ==
    /\ Up(e) /\ e \in timer
    /\ Ended(e, "timeout")
    /\ timer' = timer \ {e}
    /\ UNCHANGED <<id, pin, stage, peer, outVars, inVars>>

-----------------------------------------------------------------------------
(* Records.                                                                *)

\* Fault: the responder takes the cipher states as the initiator does.
SameOnBothEnds(e) == "cs1"

\* cs0 encrypts from ini to rsp, cs1 from rsp to ini.
WriteCS(e) == IF e = "ini" THEN "cs0" ELSE "cs1"
ReadCS(e)  == IF e = "ini" THEN "cs1" ELSE "cs0"

\* How far into its frame the next record of e reaches: WriteFrame writes the
\* header by itself unless e is Joined, and a Write is cut at MaxRecord.
RecordEnd(e) ==
    LET size == Frames[e][cur[e]] + 1
        want == IF off[e] = 0 /\ e \notin Joined THEN 1 ELSE off[e] + MaxRecord
    IN  IF want < size THEN want ELSE size

\* SecureConn.Write, one round of its loop.
WriteRecord(e) ==
    /\ Ready(e) /\ cur[e] <= Len(Frames[e])
    /\ LET end  == RecordEnd(e)
           over == end = Frames[e][cur[e]] + 1
           body == [i \in 1..(end - off[e]) |-> <<cur[e], off[e] + i - 1>>]
       IN  /\ wire' = Sent(wire, e,
                 [kind |-> "rec", n |-> tx[e], by |-> WriteCS(e), body |-> body])
           /\ cur' = Put(cur, e, IF over THEN cur[e] + 1 ELSE cur[e])
           /\ off' = Put(off, e, IF over THEN 0 ELSE end)
    /\ tx' = Put(tx, e, tx[e] + 1)
    /\ UNCHANGED <<hsVars, fate, inVars>>

\* The size check and the Decrypt of SecureConn.Read.
Opens(e, r) ==
    /\ r.kind = "rec" /\ Len(r.body) <= MaxRecord
    /\ r.by = ReadCS(e) /\ r.n = rx[e]

\* Fault: what the caller has no room for is dropped.
NothingKept(bytes, n) == <<>>

Kept(bytes, n) == SubSeq(bytes, n + 1, Len(bytes))

\* ReadFrame refuses a header of another version or a payload over its limit.
HeaderIsGood(e, h) == h[2] = 0 /\ Frames[Peer(e)][h[1]] <= MaxFrame[e]

Refuse(e) == fate' = Put(fate, e, "refused") /\ UNCHANGED <<asked, have, got>>

\* What ReadFrame does once its ReadFull has all it asked for.
FrameStep(e, units) ==
    LET size == Frames[Peer(e)][units[1][1]] IN
    IF Len(units) = 1 /\ ~HeaderIsGood(e, units[1]) THEN Refuse(e)
    ELSE IF Len(units) = 1 /\ size > 0
    THEN asked' = Put(asked, e, size) /\ have' = Put(have, e, units)
         /\ UNCHANGED <<got, fate>>
    ELSE asked' = Put(asked, e, 1) /\ have' = Put(have, e, <<>>)
         /\ got' = [got EXCEPT ![e] = Append(@, units)] /\ UNCHANGED fate

\* ReadFull gets what it can of these units; the rest waits in rbuf.
Take(e, bytes) ==
    LET n == IF Len(bytes) < asked[e] THEN Len(bytes) ELSE asked[e]
        units == have[e] \o SubSeq(bytes, 1, n)
    IN  /\ rbuf' = Put(rbuf, e, Kept(bytes, n))
        /\ IF n = asked[e] THEN FrameStep(e, units)
           ELSE asked' = Put(asked, e, asked[e] - n) /\ have' = Put(have, e, units)
                /\ UNCHANGED <<got, fate>>

\* SecureConn.Read: what is left of the last record first.
ReadRest(e) ==
    /\ Ready(e) /\ rbuf[e] # <<>>
    /\ Take(e, rbuf[e])
    /\ UNCHANGED <<hsVars, wire, outVars, rx>>

ReadRecord(e) ==
    /\ Ready(e) /\ rbuf[e] = <<>> /\ wire[e] # <<>>
    /\ wire' = Put(wire, e, Tail(wire[e]))
    /\ IF Opens(e, Head(wire[e]))
       THEN rx' = Put(rx, e, rx[e] + 1) /\ Take(e, Head(wire[e]).body)
       ELSE Refuse(e) /\ UNCHANGED <<rx, rbuf>>
    /\ UNCHANGED <<hsVars, outVars>>

-----------------------------------------------------------------------------
(* The end of a connection.                                                *)

\* The process closes the connection, or is killed.
Leave(e) ==
    /\ Up(e) /\ Ended(e, "closed")
    /\ UNCHANGED <<hsVars, outVars, inVars>>

\* The device loses power or network: its peer is told nothing.
Vanish(e) ==
    /\ Up(e) /\ Ended(e, "vanished")
    /\ UNCHANGED <<hsVars, outVars, inVars>>

\* Fault: a handshake that fails leaves the connection open.
LeftOpen(e) == fate[e] \in {"refused", "closed", "gone"}

\* The caller of Handshake and the session close it, however they end.
Closed(e) == fate[e] \notin {"up", "vanished"}

\* The other end has closed: Read fails, with or without what was on its way.
Gone(e) ==
    /\ Up(e) /\ Closed(Peer(e))
    /\ Ended(e, "gone")
    /\ UNCHANGED <<hsVars, outVars, inVars>>

Handshake == Hello \/ Reply \/ Finish \/ Confirm

Transfer(e) == WriteRecord(e) \/ ReadRest(e) \/ ReadRecord(e)

Connect ==
    \E ids \in [Ends -> Keys], pins \in [Ends -> Keys \cup {None}] :
        ConnectWith(ids, pins)

LinkNext ==
    \/ Connect \/ Handshake
    \/ \E e \in Ends : \/ Transfer(e) \/ Deadline(e)
                       \/ Leave(e) \/ Vanish(e) \/ Gone(e)

LinkSpec == LinkInit /\ [][LinkNext]_linkVars

-----------------------------------------------------------------------------
Tokens ==
    [kind : {"hs"}, n : 1..3, by : Keys \cup {None}, body : {<<>>}]
    \cup [kind : {"rec"}, n : Nat, by : {"cs0", "cs1"}, body : Seq(Nat \X Nat)]

\* The variables hold what the code can put there.
LinkTypeOK ==
    /\ id \in [Ends -> Keys \cup {None}] /\ pin \in [Ends -> Keys \cup {None}]
    /\ wire \in [Ends -> Seq(Tokens)]
    /\ fate \in [Ends -> {"none", "up", "timeout", "mismatch", "refused",
                          "closed", "vanished", "gone"}]
    /\ timer \subseteq Ends /\ stage \in [Ends -> 0..3]
    /\ peer \in [Ends -> Keys \cup {None}]
    /\ tx \in [Ends -> Nat] /\ rx \in [Ends -> Nat]
    /\ cur \in [Ends -> Nat \ {0}] /\ off \in [Ends -> Nat]
    /\ rbuf \in [Ends -> Seq(Nat \X Nat)] /\ have \in [Ends -> Seq(Nat \X Nat)]
    /\ asked \in [Ends -> Nat \ {0}]
    /\ got \in [Ends -> Seq(Seq(Nat \X Nat))]

\* The frames ReadFrame returns are the frames the other session wrote, whole
\* and in order, however records cut them up: a frame starts where the last
\* one ended, within a record or not (SecureConn.Read and its rbuf,
\* io.ReadFull in ReadFrame).
FramesInOrder ==
    \A e \in Ends :
        /\ Len(got[e]) <= Len(Frames[Peer(e)])
        /\ \A f \in 1..Len(got[e]) :
              got[e][f] = [i \in 1..(Frames[Peer(e)][f] + 1) |-> <<f, i - 1>>]

\* Two ends that follow the protocol never refuse each other's records or
\* frames: the cipher states point the right way, the nonces keep step from
\* the first record on, even when it follows the third message at once, and
\* no header is taken for data or data for a header.
NothingRefused == \A e \in Ends : fate[e] # "refused"

\* A handshake has an end, whether or not the other device still answers: it
\* succeeds, fails or times out (SetDeadline in Handshake; soTimeout on the
\* phone).
HandshakeEnds ==
    \A e \in Ends : Up(e) /\ stage[e] < 3 ~> ~(Up(e) /\ stage[e] < 3)

\* An end that fails after the other believes the handshake done (the pin is
\* looked at after message 3 was sent) does not leave it with a dead session.
RefusalIsSeen ==
    \A e \in Ends : fate[e] \in {"mismatch", "timeout"} ~> ~Up(Peer(e))

\* Between two ends that are through with the handshake every frame written
\* arrives, unless one of them closes or vanishes: nothing of the handshake,
\* like its deadline, outlives it.
FramesArrive ==
    (\A e \in Ends : Ready(e)) ~>
        \/ \A e \in Ends : Len(got[e]) = Len(Frames[Peer(e)])
        \/ \E e \in Ends : fate[e] \in {"closed", "vanished"}
=============================================================================
