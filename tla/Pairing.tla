------------------------------- MODULE Pairing -------------------------------
(***************************************************************************)
(* Two machines that pair with cmd/toppactl: `serve` on the responder and  *)
(* `ping` on the initiator, each with a key store of its own               *)
(* (internal/keys/store.go) on files that os.WriteFile truncates before it *)
(* fills them.  serve reads its identity and its pin once and hands the    *)
(* same two to every connection; ping reads them at each run.  The         *)
(* connection between them is that of SecureLink, one at a time.           *)
(***************************************************************************)
EXTENDS SecureLink, FiniteSets

CONSTANTS
    Torn,        \* a file a killed process has left truncated
    MaxStarts,   \* bound: starts of each command
    MaxCrashes,  \* bound: processes killed
    MaxWipes     \* bound: key directories the user deletes

ASSUME PairingAssumption ==
    /\ Torn \notin Keys \cup {None} /\ IsFiniteSet(Keys)
    /\ MaxStarts \in Nat /\ MaxCrashes \in Nat /\ MaxWipes \in Nat

VARIABLES
    idFile, pinFile,  \* identity.json and peer-default.json of each store
    pc,               \* pc[e]: where e's command is, "off" when none runs
    self, known,      \* what the command has read: id and pinned
    made,             \* history: the keys generate() has returned
    starts, crashes, wipes

storeVars == <<idFile, pinFile, made>>
procVars  == <<pc, self, known>>
counts    == <<starts, crashes, wipes>>
vars      == <<linkVars, storeVars, procVars, counts>>

Init ==
    /\ LinkInit
    /\ idFile = [e \in Ends |-> None] /\ pinFile = [e \in Ends |-> None]
    /\ pc = [e \in Ends |-> "off"] /\ made = {}
    /\ self = [e \in Ends |-> None] /\ known = [e \in Ends |-> None]
    /\ starts = [e \in Ends |-> 0] /\ crashes = 0 /\ wipes = 0

Goto(e, where) == pc' = Put(pc, e, where)

-----------------------------------------------------------------------------
(* Store.Identity and Store.PinnedPeer, called by runServe and runPing.    *)

Start(e) ==
    /\ pc[e] = "off" /\ starts[e] < MaxStarts
    /\ starts' = Put(starts, e, starts[e] + 1)
    /\ Goto(e, "identity")
    /\ UNCHANGED <<linkVars, storeVars, self, known, crashes, wipes>>

\* A file that does not parse ends the command.
LoadIdentity(e) ==
    /\ pc[e] = "identity" /\ idFile[e] # None
    /\ IF idFile[e] = Torn THEN Goto(e, "off") /\ UNCHANGED self
       ELSE Goto(e, "pin") /\ self' = Put(self, e, idFile[e])
    /\ UNCHANGED <<linkVars, storeVars, known, counts>>

\* First use: generate, and the truncation SaveIdentity starts with.  Identity
\* returns the new keypair only after SaveIdentity has.
Generate(e) ==
    /\ pc[e] = "identity" /\ idFile[e] = None /\ Keys \ made # {}
    /\ LET k == CHOOSE k \in Keys \ made : TRUE IN
       /\ self' = Put(self, e, k) /\ made' = made \cup {k}
       /\ idFile' = Put(idFile, e, Torn)
    /\ Goto(e, "saving")
    /\ UNCHANGED <<linkVars, pinFile, known, counts>>

SaveIdentity(e) ==
    /\ pc[e] = "saving"
    /\ idFile' = Put(idFile, e, self[e])
    /\ Goto(e, "pin")
    /\ UNCHANGED <<linkVars, pinFile, made, self, known, counts>>

\* Fault: a file that does not parse is taken for a pin.
LoadAnyPin(e) ==
    /\ pc[e] = "pin" /\ Goto(e, "ready") /\ known' = Put(known, e, pinFile[e])
    /\ UNCHANGED <<linkVars, storeVars, self, counts>>

LoadPin(e) ==
    /\ pc[e] = "pin"
    /\ IF pinFile[e] = Torn THEN Goto(e, "off") /\ UNCHANGED known
       ELSE Goto(e, "ready") /\ known' = Put(known, e, pinFile[e])
    /\ UNCHANGED <<linkVars, storeVars, self, counts>>

-----------------------------------------------------------------------------
(* A connection: Dial and Accept, Handshake, PinPeer, then the session.    *)

Open ==
    /\ \A e \in Ends : pc[e] = "ready"
    /\ ConnectWith(self, known)
    /\ pc' = [e \in Ends |-> "link"]
    /\ UNCHANGED <<storeVars, self, known, counts>>

\* Without a pin the peer is pinned at once, before the mux starts.
Through(e) ==
    /\ pc[e] = "link" /\ stage[e] = 3 /\ fate[e] # "mismatch"
    /\ IF known[e] = None
       THEN Goto(e, "pinning") /\ pinFile' = Put(pinFile, e, Torn)
       ELSE Goto(e, "session") /\ UNCHANGED pinFile
    /\ UNCHANGED <<linkVars, idFile, made, self, known, counts>>

\* Fault: the local key is pinned in place of the remote one.
PinOwnKey(e) ==
    /\ pc[e] = "pinning"
    /\ \E what \in {self[e], Torn} : pinFile' = Put(pinFile, e, what)
    /\ Goto(e, "session")
    /\ UNCHANGED <<linkVars, idFile, made, self, known, counts>>

\* PinPeer's write; an error is printed and changes nothing else.
PinPeer(e) ==
    /\ pc[e] = "pinning"
    /\ \E what \in {peer[e], Torn} : pinFile' = Put(pinFile, e, what)
    /\ Goto(e, "session")
    /\ UNCHANGED <<linkVars, idFile, made, self, known, counts>>

\* The mux of an end reads and writes once its command has made the session.
Session(e) ==
    /\ pc[e] = "session" /\ Transfer(e)
    /\ UNCHANGED <<storeVars, procVars, counts>>

\* handleServeConn returns to a listener that goes on; ping ends.
Return(e) ==
    /\ \/ pc[e] = "session" /\ ~Up(e)
       \/ pc[e] = "link" /\ ~Up(e) /\ (stage[e] < 3 \/ fate[e] = "mismatch")
    /\ Goto(e, IF e = "rsp" THEN "ready" ELSE "off")
    /\ UNCHANGED <<linkVars, storeVars, self, known, counts>>

\* ping ends once it has written and read all it wanted to.  serve goes on
\* until Accept fails.
HangUp ==
    /\ pc["ini"] = "session" /\ cur["ini"] > Len(Frames["ini"])
    /\ Len(got["ini"]) = Len(Frames["rsp"])
    /\ Leave("ini")
    /\ UNCHANGED <<storeVars, procVars, counts>>

Network ==
    /\ Handshake \/ \E e \in Ends : Deadline(e) \/ Gone(e)
    /\ UNCHANGED <<storeVars, procVars, counts>>

-----------------------------------------------------------------------------
(* What nobody planned.                                                    *)

\* The process is killed: what it was writing stays torn, the kernel closes
\* its connection.
Crash(e) ==
    /\ pc[e] # "off" /\ crashes < MaxCrashes
    /\ crashes' = crashes + 1
    /\ Goto(e, "off")
    /\ IF Up(e) THEN Leave(e) ELSE UNCHANGED linkVars
    /\ UNCHANGED <<storeVars, self, known, starts, wipes>>

\* The machine drops off the network and its command is stopped.
DropOff(e) ==
    /\ crashes < MaxCrashes /\ Vanish(e)
    /\ crashes' = crashes + 1
    /\ Goto(e, "off")
    /\ UNCHANGED <<storeVars, self, known, starts, wipes>>

\* The user deletes a key directory, the only way past a torn file.
Wipe(e) ==
    /\ pc[e] = "off" /\ wipes < MaxWipes /\ {idFile[e], pinFile[e]} # {None}
    /\ wipes' = wipes + 1
    /\ idFile' = Put(idFile, e, None) /\ pinFile' = Put(pinFile, e, None)
    /\ UNCHANGED <<linkVars, made, procVars, starts, crashes>>

Command(e) ==
    \/ LoadIdentity(e) \/ Generate(e) \/ SaveIdentity(e) \/ LoadPin(e)
    \/ Through(e) \/ PinPeer(e) \/ Return(e)

Next ==
    \/ Open \/ Network \/ HangUp
    \/ \E e \in Ends : \/ Start(e) \/ Command(e) \/ Session(e)
                       \/ Crash(e) \/ DropOff(e) \/ Wipe(e)

\* Goroutines run and TCP delivers.  Nobody has to start, stop or fail.
Fairness ==
    /\ \A e \in Ends : /\ WF_vars(Command(e))
                       /\ WF_vars(Deadline(e) /\ Network)
                       /\ WF_vars(Gone(e) /\ Network)
                       /\ WF_vars(pc[e] = "session" /\ WriteRecord(e) /\ Session(e))
                       /\ WF_vars(pc[e] = "session"
                                  /\ (ReadRest(e) \/ ReadRecord(e)) /\ Session(e))
    /\ WF_vars(Handshake /\ Network)

Spec == Init /\ [][Next]_vars /\ Fairness

-----------------------------------------------------------------------------
Files == Keys \cup {None, Torn}

\* The variables hold what the code can put there.
TypeOK ==
    /\ LinkTypeOK
    /\ idFile \in [Ends -> Files] /\ pinFile \in [Ends -> Files]
    /\ pc \in [Ends -> {"off", "identity", "saving", "pin", "ready", "link",
                        "pinning", "session"}]
    /\ self \in [Ends -> Keys \cup {None}] /\ known \in [Ends -> Keys \cup {None}]
    /\ made \subseteq Keys

\* The pairing means what it says, both ways: an end with a pin has a session
\* with the owner of that key and with nobody else, and unless someone deletes
\* a key directory no start, restart, crash or failed write makes an end
\* refuse the other as a stranger.  It takes an identity that is on file
\* before anybody can pin it (Store.Identity), and a pin that is read back
\* whole or not at all (Store.PinnedPeer).
PairingHolds ==
    /\ \A e \in Ends :
          pc[e] = "session" /\ known[e] # None => id[Peer(e)] = known[e]
    /\ wipes = 0 => \A e \in Ends : fate[e] # "mismatch"
=============================================================================
