----------------------------- MODULE RelayProofs -----------------------------
(***************************************************************************)
(* Proofs about module Relay: for any flows, limits and amounts of data    *)
(* the two counters are the flows they count, and no end of file overtakes *)
(* data.                                                                   *)
(***************************************************************************)
EXTENDS Relay, FiniteSetTheorems, TLAPS

-----------------------------------------------------------------------------
(* The invariant.                                                          *)

Types ==
    /\ q \in [Flows -> [Hops -> Nat]]
    /\ eof \in [Flows -> SUBSET Hops]
    /\ sent \in [Flows -> [Sides -> Nat]]
    /\ gone \in [Flows -> SUBSET Sides] /\ broken \in [Flows -> SUBSET Sides]
    /\ hand \in [Flows -> [Copiers -> Nat]]
    /\ desk \in [Flows -> {"idle", "dial", "open", "pump", "closed"}]
    /\ copies \in [Flows -> SUBSET {"up", "down"}]
    /\ held \in [Flows -> Nat]
    /\ passes \subseteq Flows /\ quits \subseteq Flows
    /\ phone \in [Flows -> {"none", "queued", "connect", "pump", "join", "ended"}]
    /\ down \in [Flows -> {"none", "runs", "ended"}]
    /\ socket \in [Flows -> {"none", "open", "closed"}]
    /\ alive \in BOOLEAN /\ engine \in {"up", "stopped"}

\* The flows the pacer and the phone count.
Dialling == {f \in Flows : desk[f] = "open"}
Served   == {f \in Flows : phone[f] \in {"connect", "pump", "join"}}

SlotsInv ==
    /\ dials = IF MaxDials > 0 THEN Cardinality(Dialling) ELSE 0
    /\ active = Cardinality(Served)
    /\ dials <= MaxDials
    /\ active <= MaxStreams

\* Which goroutines, threads and sockets there are at each place, and who may
\* have units in hand.
Places(f) ==
    /\ broken[f] \subseteq gone[f]
    /\ "up" \notin copies[f] => hand[f]["up"] = 0
    /\ "down" \notin copies[f] => hand[f]["down"] = 0
    /\ phone[f] # "pump" => hand[f]["toServer"] = 0
    /\ down[f] # "runs" => hand[f]["toClient"] = 0
    /\ "srvUp" \in eof[f] => phone[f] \in {"join", "ended"}
    /\ "strDown" \in eof[f] => down[f] # "runs" /\ phone[f] \in {"pump", "join", "ended"}
    /\ q[f]["strUp"] <= Window /\ q[f]["strDown"] <= Window
    /\ desk[f] # "pump" => copies[f] = {}
    /\ desk[f] \in {"idle", "dial", "open"} => phone[f] = "none" /\ "strUp" \notin eof[f]
    /\ phone[f] \in {"none", "queued", "connect"} => socket[f] = "none"
    /\ phone[f] = "pump" => socket[f] = "open"
    /\ down[f] = "none" <=> socket[f] = "none"
    /\ socket[f] = "none" => sent[f]["srv"] = 0 /\ "srv" \notin gone[f]
    /\ alive /\ "srv" \notin gone[f] => socket[f] # "closed"
    /\ {"strUp", "appDown"} \cap eof[f] # {} => desk[f] = "closed"

\* Nothing is made up, and nothing lost while session and reader live.
Up(f) ==
    q[f]["appUp"] + held[f] + hand[f]["up"] + q[f]["strUp"] + hand[f]["toServer"]
      + q[f]["srvUp"]
Below(f) ==
    q[f]["srvDown"] + hand[f]["toClient"] + q[f]["strDown"] + hand[f]["down"]
      + q[f]["appDown"]

Counts(f) ==
    /\ sent[f]["app"] <= Units[f]["app"] /\ sent[f]["srv"] <= Units[f]["srv"]
    /\ Up(f) <= sent[f]["app"] /\ Below(f) <= sent[f]["srv"]
    /\ alive /\ "srv" \notin gone[f] => Up(f) = sent[f]["app"]
    /\ Undisturbed /\ "app" \notin gone[f] => Below(f) = sent[f]["srv"]

\* The flows of which the sanitizer keeps no data for good.
Whole(f) == ~Sanitize \/ f \in Http

\* What SanitizedConn holds is less than a head.
Held(f) ==
    /\ f \in passes \/ ~Sanitize => held[f] = 0
    /\ Sanitize /\ f \notin passes =>
         /\ q[f]["strUp"] = 0 /\ q[f]["srvUp"] = 0
         /\ hand[f]["up"] = 0 /\ hand[f]["toServer"] = 0
    /\ f \in quits => ~Whole(f)
    /\ f \in Http /\ held[f] > 0 => held[f] < HeadLen
    /\ f \in Http /\ "appUp" \in eof[f] => sent[f]["app"] >= HeadLen

\* Toward the server an end of file finds the hop before it at its end.
UpEnds(f) ==
    /\ Undisturbed /\ Whole(f) /\ "app" \notin broken[f]
         /\ ("strUp" \in eof[f] \/ (desk[f] = "pump" /\ "up" \notin copies[f]))
         => Drained(f, "appUp")
    /\ alive /\ "srv" \notin gone[f] /\ "srvUp" \in eof[f] => Drained(f, "strUp")

\* And toward the application.
DownEnds(f) == Undisturbed /\ gone[f] = {} =>
    /\ "strDown" \in eof[f] =>
         \/ Drained(f, "srvDown")
         \/ socket[f] = "none" /\ phone[f] = "ended"
    /\ desk[f] = "pump" /\ "down" \notin copies[f] => Drained(f, "strDown")
    /\ "appDown" \in eof[f] => Drained(f, "strDown") \/ phone[f] = "none"

FlowInv(f) ==
    Places(f) /\ Counts(f) /\ Held(f) /\ UpEnds(f) /\ DownEnds(f)

Inv == Types /\ SlotsInv /\ \A f \in Flows : FlowInv(f)

-----------------------------------------------------------------------------
(* A step of one flow leaves the others alone.                             *)

Same(g) ==
    /\ q'[g] = q[g] /\ eof'[g] = eof[g] /\ sent'[g] = sent[g] /\ gone'[g] = gone[g]
    /\ broken'[g] = broken[g] /\ hand'[g] = hand[g] /\ (g \in quits' <=> g \in quits)
    /\ desk'[g] = desk[g] /\ copies'[g] = copies[g] /\ held'[g] = held[g]
    /\ (g \in passes' <=> g \in passes)
    /\ phone'[g] = phone[g] /\ down'[g] = down[g] /\ socket'[g] = socket[g]

LEMMA Frame ==
  ASSUME NEW g \in Flows, FlowInv(g), Same(g), UNCHANGED world
  PROVE  FlowInv(g)'
<1>1. Places(g)'
  BY DEF FlowInv, Same, world, Places
<1>2. Counts(g)'
  BY DEF FlowInv, Same, world, Counts, Up, Below, Undisturbed
<1>3. Held(g)'
  BY DEF FlowInv, Same, Held, Whole
<1>4. UpEnds(g)' /\ DownEnds(g)'
  BY DEF FlowInv, Same, world, UpEnds, DownEnds, Whole, Drained, Undisturbed
<1>. QED
  BY <1>1, <1>2, <1>3, <1>4 DEF FlowInv

Kept(f) ==
    /\ Types' /\ FlowInv(f)'
    /\ UNCHANGED world /\ \A g \in Flows \ {f} : Same(g)

LEMMA Added ==
  ASSUME NEW S, NEW F \in [Flows -> SUBSET S], NEW f \in Flows, NEW x \in S
  PROVE  [F EXCEPT ![f] = @ \cup {x}] \in [Flows -> SUBSET S]
  OBVIOUS

LEMMA Shuts ==
  ASSUME eof \in [Flows -> SUBSET Hops], NEW f \in Flows, NEW h \in Hops
  PROVE  /\ Shut(f, h) \in [Flows -> SUBSET Hops]
         /\ Shut(f, h)[f] = eof[f] \cup {h}
         /\ \A g \in Flows \ {f} : Shut(f, h)[g] = eof[g]
  BY DEF Shut

LEMMA StreamCloses ==
  ASSUME eof \in [Flows -> SUBSET Hops], NEW f \in Flows
  PROVE  /\ StreamClosed(f) \in [Flows -> SUBSET Hops]
         /\ StreamClosed(f)[f] = eof[f] \cup {h \in {"strDown"} : alive}
         /\ \A g \in Flows \ {f} : StreamClosed(f)[g] = eof[g]
  BY Shuts DEF StreamClosed, Hops

LEMMA Reading ==
  ASSUME Types, NEW f \in Flows, NEW h \in Hops, NEW c \in Copiers,
         NEW n \in 0 .. q[f][h], NEW m \in Nat, Reads(f, h, n, c, m)
  PROVE  /\ q' \in [Flows -> [Hops -> Nat]] /\ hand' \in [Flows -> [Copiers -> Nat]]
         /\ q'[f][h] = q[f][h] - n /\ hand'[f][c] = m
         /\ \A i \in Hops \ {h} : q'[f][i] = q[f][i]
         /\ \A d \in Copiers \ {c} : hand'[f][d] = hand[f][d]
         /\ \A g \in Flows \ {f} : q'[g] = q[g] /\ hand'[g] = hand[g]
  BY DEF Reads, Types

LEMMA Writing ==
  ASSUME Types, NEW f \in Flows, NEW h \in Hops, NEW c \in Copiers,
         hand[f][c] > 0, Writes(f, c, h)
  PROVE  /\ q' \in [Flows -> [Hops -> Nat]] /\ hand' \in [Flows -> [Copiers -> Nat]]
         /\ q'[f][h] = q[f][h] + 1 /\ hand'[f][c] = hand[f][c] - 1
         /\ \A i \in Hops \ {h} : q'[f][i] = q[f][i]
         /\ \A d \in Copiers \ {c} : hand'[f][d] = hand[f][d]
         /\ \A g \in Flows \ {f} : q'[g] = q[g] /\ hand'[g] = hand[g]
  BY DEF Writes, Types

LEMMA Losing ==
  ASSUME Types, NEW f \in Flows, NEW c \in Copiers, Loses(f, c)
  PROVE  /\ q' = q /\ hand' \in [Flows -> [Copiers -> Nat]]
         /\ hand'[f][c] = 0
         /\ \A d \in Copiers \ {c} : hand'[f][d] = hand[f][d]
         /\ \A g \in Flows \ {f} : hand'[g] = hand[g]
  BY DEF Loses, Types

-----------------------------------------------------------------------------
(* One lemma per action.                                                   *)

LEMMA AppConnectsKeeps ==
  ASSUME Types, NEW f \in Flows, FlowInv(f), AppConnects(f)
  PROVE  Kept(f)
<1> USE DEF AppConnects, At, data, handset, world
<1>1. Types'
  BY DEF Types
<1>2. FlowInv(f)'
  BY DEF Types, FlowInv, Places, Counts, Up, Below, Held, Whole, UpEnds, DownEnds,
     Drained, Undisturbed
<1>3. \A g \in Flows \ {f} : Same(g)
  BY DEF Types, Same
<1>. QED
  BY <1>1, <1>2, <1>3 DEF Kept

LEMMA SendsKeeps ==
  ASSUME Types, NEW f \in Flows, FlowInv(f), NEW side \in Sides, Sends(f, side)
  PROVE  Kept(f)
<1> USE DEF Sends, Toward, desktop, handset, world
<1>1. Types'
  BY DEF Types, Sides, Hops
<1>2. FlowInv(f)'
  <2>1. CASE side = "app"
    <3>1. /\ sent'[f]["app"] = sent[f]["app"] + 1 /\ sent'[f]["srv"] = sent[f]["srv"]
          /\ q'[f]["appUp"] = q[f]["appUp"] + 1
          /\ q'[f]["strUp"] = q[f]["strUp"] /\ q'[f]["srvUp"] = q[f]["srvUp"]
          /\ q'[f]["srvDown"] = q[f]["srvDown"] /\ q'[f]["strDown"] = q[f]["strDown"]
          /\ q'[f]["appDown"] = q[f]["appDown"]
      BY <2>1 DEF Types, Sides, Hops
    <3>2. /\ \A i \in Hops : q[f][i] \in Nat
          /\ \A s \in Sides : sent[f][s] \in Nat
          /\ held[f] \in Nat /\ \A c \in Copiers : hand[f][c] \in Nat
      BY DEF Types
    <3>3. \A s \in Sides : Units[f][s] \in Nat
      BY RelayAssumption DEF RelayAssumption
    <3>4. /\ sent[f]["app"] < Units[f]["app"] /\ "appUp" \notin eof[f]
          /\ "app" \notin gone[f] /\ Connected(f, "app")
      BY <2>1
    <3>5. UNCHANGED <<eof, gone, broken, hand, desk, copies, held, passes, quits, phone,
                      down, socket, alive, engine>>
      OBVIOUS
    <3>. HIDE DEF Sends
    <3>6. Places(f)' /\ Held(f)' /\ UpEnds(f)' /\ DownEnds(f)'
      BY <3>1, <3>2, <3>3, <3>4, <3>5 DEF Sides, Hops, Connected, FlowInv, Places,
         Held, Whole,
         UpEnds, DownEnds, Drained, Undisturbed
    <3>7. Counts(f)'
      <4>1. Up(f)' = Up(f) + 1 /\ Below(f)' = Below(f)
        BY <3>1, <3>2, <3>5 DEF Up, Below, Hops, Copiers
      <4>2. Up(f) \in Nat /\ Below(f) \in Nat
        BY <3>2 DEF Up, Below, Hops, Copiers
      <4>. QED
        BY <4>1, <4>2, <3>1, <3>2, <3>3, <3>4, <3>5 DEF Sides, FlowInv, Counts,
           Undisturbed
    <3>. QED
      BY <3>6, <3>7 DEF FlowInv
  <2>2. CASE side = "srv"
    <3>1. /\ sent'[f]["srv"] = sent[f]["srv"] + 1 /\ sent'[f]["app"] = sent[f]["app"]
          /\ q'[f]["srvDown"] = q[f]["srvDown"] + 1
          /\ q'[f]["appUp"] = q[f]["appUp"] /\ q'[f]["strUp"] = q[f]["strUp"]
          /\ q'[f]["srvUp"] = q[f]["srvUp"] /\ q'[f]["strDown"] = q[f]["strDown"]
          /\ q'[f]["appDown"] = q[f]["appDown"]
      BY <2>2 DEF Types, Sides, Hops
    <3>2. /\ \A i \in Hops : q[f][i] \in Nat
          /\ \A s \in Sides : sent[f][s] \in Nat
          /\ held[f] \in Nat /\ \A c \in Copiers : hand[f][c] \in Nat
      BY DEF Types
    <3>3. \A s \in Sides : Units[f][s] \in Nat
      BY RelayAssumption DEF RelayAssumption
    <3>4. /\ sent[f]["srv"] < Units[f]["srv"] /\ "srvDown" \notin eof[f]
          /\ "srv" \notin gone[f] /\ Connected(f, "srv")
      BY <2>2
    <3>5. UNCHANGED <<eof, gone, broken, hand, desk, copies, held, passes, quits, phone,
                      down, socket, alive, engine>>
      OBVIOUS
    <3>. HIDE DEF Sends
    <3>6. Places(f)' /\ Held(f)' /\ UpEnds(f)' /\ DownEnds(f)'
      BY <3>1, <3>2, <3>3, <3>4, <3>5 DEF Sides, Hops, Connected, FlowInv, Places,
         Held, Whole,
         UpEnds, DownEnds, Drained, Undisturbed
    <3>7. Counts(f)'
      <4>1. Up(f)' = Up(f) /\ Below(f)' = Below(f) + 1
        BY <3>1, <3>2, <3>5 DEF Up, Below, Hops, Copiers
      <4>2. Up(f) \in Nat /\ Below(f) \in Nat
        BY <3>2 DEF Up, Below, Hops, Copiers
      <4>. QED
        BY <4>1, <4>2, <3>1, <3>2, <3>3, <3>4, <3>5 DEF Sides, FlowInv, Counts,
           Undisturbed
    <3>. QED
      BY <3>6, <3>7 DEF FlowInv
  <2>. QED
    BY <2>1, <2>2 DEF Sides
<1>3. \A g \in Flows \ {f} : Same(g)
  BY DEF Types, Same
<1>. QED
  BY <1>1, <1>2, <1>3 DEF Kept

LEMMA FinishesKeeps ==
  ASSUME Types, NEW f \in Flows, FlowInv(f), NEW side \in Sides, Finishes(f, side)
  PROVE  Kept(f)
<1> USE DEF Finishes, Toward, Shut, desktop, handset, world
<1>1. Types'
  <2>1. Toward(side) \in Hops
    BY DEF Hops
  <2>2. eof' \in [Flows -> SUBSET Hops]
    BY <2>1, Added DEF Types
  <2>3. [gone EXCEPT ![f] = @ \cup {side}] \in [Flows -> SUBSET Sides]
    BY Added DEF Types
  <2>4. gone' \in [Flows -> SUBSET Sides]
    BY <2>3 DEF Types
  <2>. QED
    BY <2>2, <2>4 DEF Types
<1>2. FlowInv(f)'
  <2>1. CASE side = "app"
    BY <2>1 DEF Types, Sides, Hops, Connected, FlowInv,
       Places, Counts, Up, Below, Held, Whole, UpEnds, DownEnds, Drained, Undisturbed
  <2>2. CASE side = "srv"
    BY <2>2 DEF Types, Sides, Hops, Connected, FlowInv,
       Places, Counts, Up, Below, Held, Whole, UpEnds, DownEnds, Drained, Undisturbed
  <2>. QED
    BY <2>1, <2>2 DEF Sides
<1>3. \A g \in Flows \ {f} : Same(g)
  BY DEF Types, Same
<1>. QED
  BY <1>1, <1>2, <1>3 DEF Kept

LEMMA FailsKeeps ==
  ASSUME Types, NEW f \in Flows, FlowInv(f), NEW side \in Sides, Fails(f, side)
  PROVE  Kept(f)
<1> USE DEF Fails, desktop, handset, world
<1>1. /\ gone' \in [Flows -> SUBSET Sides] /\ gone'[f] = gone[f] \cup {side}
      /\ broken' \in [Flows -> SUBSET Sides] /\ broken'[f] = broken[f] \cup {side}
      /\ \A g \in Flows \ {f} : gone'[g] = gone[g] /\ broken'[g] = broken[g]
  BY Added DEF Types
<1>2. Types'
  BY <1>1 DEF Types
<1>3. FlowInv(f)'
  <2>1. CASE side = "app"
    BY <1>1, <2>1 DEF Types, Connected, FlowInv, Places, Counts, Up, Below, Held, Whole,
       UpEnds, DownEnds, Drained, Undisturbed
  <2>2. CASE side = "srv"
    BY <1>1, <2>2 DEF Types, Connected, FlowInv, Places, Counts, Up, Below, Held, Whole,
       UpEnds, DownEnds, Drained, Undisturbed
  <2>. QED
    BY <2>1, <2>2 DEF Sides
<1>4. \A g \in Flows \ {f} : Same(g)
  BY <1>1 DEF Same
<1>. QED
  BY <1>2, <1>3, <1>4 DEF Kept

LEMMA DialKeeps ==
  ASSUME Types, NEW f \in Flows, FlowInv(f), Dial(f)
  PROVE  Kept(f)
<1> USE DEF Dial, At, Shut, handset, world
<1>1. Types'
  <2>1. CASE desk' = At(desk, f, "closed") /\ eof' = Shut(f, "appDown")
    <3>1. eof' \in [Flows -> SUBSET Hops]
      BY <2>1, Shuts DEF Types, Hops
    <3>2. desk' \in [Flows -> {"idle", "dial", "open", "pump", "closed"}]
      BY <2>1 DEF Types
    <3>. QED
      BY <3>1, <3>2 DEF Types
  <2>2. CASE desk' = At(desk, f, "open") /\ UNCHANGED eof
    <3>1. desk' \in [Flows -> {"idle", "dial", "open", "pump", "closed"}]
      BY <2>2 DEF Types
    <3>. QED
      BY <2>2, <3>1 DEF Types
  <2>. QED
    BY <2>1, <2>2
<1>2. FlowInv(f)'
  BY DEF Types, Hops, FlowInv, Places, Counts, Up, Below, Held, Whole,
     UpEnds, DownEnds, Drained, Undisturbed
<1>3. \A g \in Flows \ {f} : Same(g)
  BY DEF Types, Same
<1>. QED
  BY <1>1, <1>2, <1>3 DEF Kept

LEMMA OpenKeeps ==
  ASSUME Types, NEW f \in Flows, FlowInv(f), Open(f)
  PROVE  Kept(f)
<1> USE DEF Open, At, world
<1>1. Types'
  <2>1. eof' \in [Flows -> SUBSET Hops]
    BY Shuts DEF Types, Hops
  <2>2. /\ desk' \in [Flows -> {"idle", "dial", "open", "pump", "closed"}]
        /\ copies' \in [Flows -> SUBSET {"up", "down"}]
        /\ phone' \in [Flows -> {"none", "queued", "connect", "pump", "join", "ended"}]
    <3>1. CASE alive
      <4>1. desk' = [desk EXCEPT ![f] = "pump"] /\ phone' = [phone EXCEPT ![f] = "queued"]
            /\ copies' = [copies EXCEPT ![f] = {"up", "down"}]
        BY <3>1
      <4>. QED
        BY <4>1 DEF Types
    <3>2. CASE ~alive
      <4>1. desk' = [desk EXCEPT ![f] = "closed"] /\ UNCHANGED <<copies, phone>>
        BY <3>2
      <4>. QED
        BY <4>1 DEF Types
    <3>. QED
      BY <3>1, <3>2
  <2>. QED
    BY <2>1, <2>2 DEF Types
<1>2. FlowInv(f)'
  BY DEF Shut, Types, Hops, FlowInv, Places, Counts, Up, Below, Held, Whole,
       UpEnds, DownEnds, Drained, Undisturbed
<1>3. \A g \in Flows \ {f} : Same(g)
  BY DEF Types, Same, Shut
<1>. QED
  BY <1>1, <1>2, <1>3 DEF Kept

LEMMA PumpReturnsKeeps ==
  ASSUME Types, NEW f \in Flows, FlowInv(f), PumpReturns(f)
  PROVE  Kept(f)
<1> USE DEF PumpReturns, At, Closes, BothDone, Aborted, handset, world
<1>1. Types'
  BY Added DEF Types, Hops
<1>2. FlowInv(f)'
  BY DEF Types, Hops, FlowInv, Places, Counts, Up, Below, Held, Whole,
     UpEnds, DownEnds, Drained, Undisturbed
<1>3. \A g \in Flows \ {f} : Same(g)
  BY DEF Types, Same
<1>. QED
  BY <1>1, <1>2, <1>3 DEF Kept

LEMMA AcceptKeeps ==
  ASSUME Types, NEW f \in Flows, FlowInv(f), Accept(f)
  PROVE  Kept(f)
<1> USE StreamCloses DEF Accept, At, desktop, world
<1>1. Types'
  <2>1. eof' \in [Flows -> SUBSET Hops]
    <3>1. eof' = StreamClosed(f) \/ eof' = eof
      OBVIOUS
    <3>. QED
      BY <3>1 DEF Types
  <2>2. phone' \in [Flows -> {"none", "queued", "connect", "pump", "join", "ended"}]
    <3>1. phone' = At(phone, f, "ended") \/ phone' = At(phone, f, "connect")
      OBVIOUS
    <3>. QED
      BY <3>1 DEF Types
  <2>. QED
    BY <2>1, <2>2 DEF Types
<1>2. FlowInv(f)'
  <2>1. CASE phone' = At(phone, f, "ended") /\ eof' = StreamClosed(f)
    <3>1. /\ phone'[f] = "ended" /\ socket[f] = "none"
          /\ eof'[f] = eof[f] \cup {h \in {"strDown"} : alive}
      BY <2>1 DEF Types, FlowInv, Places
    <3>2. UNCHANGED <<q, sent, gone, broken, hand, desk, copies, held, passes, quits,
                      down, socket, alive, engine>>
      BY <2>1
    <3>3. phone[f] = "queued"
      OBVIOUS
    <3>. HIDE DEF Accept
    <3>. QED
      BY <3>1, <3>2, <3>3 DEF FlowInv, Places, Counts, Up, Below, Held, Whole, UpEnds,
         DownEnds, Drained, Undisturbed
  <2>2. CASE phone' = At(phone, f, "connect") /\ UNCHANGED eof
    BY <2>2 DEF Types, Hops, FlowInv, Places, Counts, Up, Below, Held, Whole,
       UpEnds, DownEnds, Drained, Undisturbed
  <2>. QED
    BY <2>1, <2>2
<1>3. \A g \in Flows \ {f} : Same(g)
  BY DEF Types, Same
<1>. QED
  BY <1>1, <1>2, <1>3 DEF Kept

LEMMA SynIsLostKeeps ==
  ASSUME Types, NEW f \in Flows, FlowInv(f), SynIsLost(f)
  PROVE  Kept(f)
<1> USE DEF SynIsLost, At, data, desktop, world
<1>1. Types'
  BY Added DEF Types, Hops
<1>2. FlowInv(f)'
  BY DEF Types, Hops, FlowInv, Places, Counts, Up, Below, Held, Whole,
     UpEnds, DownEnds, Drained, Undisturbed
<1>3. \A g \in Flows \ {f} : Same(g)
  BY DEF Types, Same
<1>. QED
  BY <1>1, <1>2, <1>3 DEF Kept

LEMMA ConnectKeeps ==
  ASSUME Types, NEW f \in Flows, FlowInv(f), Connect(f)
  PROVE  Kept(f)
<1> USE StreamCloses DEF Connect, At, desktop, world
<1>1. Types'
  <2>1. eof' \in [Flows -> SUBSET Hops]
    <3>1. eof' = StreamClosed(f) \/ eof' = eof
      OBVIOUS
    <3>. QED
      BY <3>1 DEF Types
  <2>2. phone' \in [Flows -> {"none", "queued", "connect", "pump", "join", "ended"}]
    <3>1. phone' = At(phone, f, "ended") \/ phone' = At(phone, f, "pump")
      OBVIOUS
    <3>. QED
      BY <3>1 DEF Types
  <2>3. down' \in [Flows -> {"none", "runs", "ended"}]
    <3>1. down' = At(down, f, "runs") \/ down' = down
      OBVIOUS
    <3>. QED
      BY <3>1 DEF Types
  <2>4. socket' \in [Flows -> {"none", "open", "closed"}]
    <3>1. socket' = At(socket, f, "open") \/ socket' = socket
      OBVIOUS
    <3>. QED
      BY <3>1 DEF Types
  <2>. QED
    BY <2>1, <2>2, <2>3, <2>4 DEF Types
<1>2. FlowInv(f)'
  <2>1. CASE phone' = At(phone, f, "pump") /\ down' = At(down, f, "runs")
              /\ socket' = At(socket, f, "open") /\ UNCHANGED eof
    BY <2>1 DEF Types, Hops, FlowInv, Places, Counts, Up, Below, Held, Whole,
       UpEnds, DownEnds, Drained, Undisturbed
  <2>2. CASE phone' = At(phone, f, "ended") /\ eof' = StreamClosed(f)
              /\ UNCHANGED <<down, socket>>
    <3>1. /\ phone'[f] = "ended" /\ socket[f] = "none"
          /\ eof'[f] = eof[f] \cup {h \in {"strDown"} : alive}
      BY <2>2 DEF Types, FlowInv, Places
    <3>2. UNCHANGED <<q, sent, gone, broken, hand, desk, copies, held, passes, quits,
                      down, socket, alive, engine>>
      BY <2>2
    <3>3. phone[f] = "connect"
      OBVIOUS
    <3>. HIDE DEF Connect
    <3>. QED
      BY <3>1, <3>2, <3>3 DEF FlowInv, Places, Counts, Up, Below, Held, Whole, UpEnds,
         DownEnds, Drained, Undisturbed
  <2>. QED
    BY <2>1, <2>2
<1>3. \A g \in Flows \ {f} : Same(g)
  BY DEF Types, Same
<1>. QED
  BY <1>1, <1>2, <1>3 DEF Kept

LEMMA JoinKeeps ==
  ASSUME Types, NEW f \in Flows, FlowInv(f), Join(f)
  PROVE  Kept(f)
<1> USE DEF Join, At, data, desktop, world
<1>1. Types'
  BY Added DEF Types, Hops
<1>2. FlowInv(f)'
  BY DEF Types, Hops, FlowInv, Places, Counts, Up, Below, Held, Whole,
     UpEnds, DownEnds, Drained, Undisturbed
<1>3. \A g \in Flows \ {f} : Same(g)
  BY DEF Types, Same
<1>. QED
  BY <1>1, <1>2, <1>3 DEF Kept

\* SanitizedConn.Write loses nothing, holds less than a head, and goes on with
\* any flow that is HTTP.
LEMMA Sanitizes ==
  ASSUME Types, NEW f \in Flows, FlowInv(f), NEW n \in Nat, NEW w, w = Sanitized(f, n)
  PROVE  /\ w.write \in Nat /\ w.keep \in Nat
         /\ w.write + w.keep = held[f] + n
         /\ f \in passes => w.done
         /\ w.done \/ ~Sanitize => w.keep = 0
         /\ Sanitize /\ ~w.done => w.write = 0
         /\ f \in Http /\ w.keep > 0 => w.keep < HeadLen
         /\ Whole(f) => w.ok
<1>1. held[f] \in Nat /\ HeadLen \in Nat /\ MaxHold \in Nat /\ HeadLen <= MaxHold
      /\ Sanitize \in BOOLEAN
  BY RelayAssumption DEF RelayAssumption, Types
<1>2. CASE f \in passes \/ ~Sanitize
  <2>1. w = Outcome(n, 0, f \in passes, TRUE)
    BY <1>2 DEF Sanitized
  <2>2. w.write = n /\ w.keep = 0 /\ w.ok
    BY <2>1 DEF Outcome
  <2>3. w.done <=> f \in passes
    <3>1. w.done = (f \in passes)
      BY <2>1 DEF Outcome
    <3>. QED
      BY <3>1, Zenon
  <2>. QED
    BY <1>1, <1>2, <2>2, <2>3 DEF FlowInv, Held
<1>3. CASE f \notin passes /\ Sanitize
  <2> DEFINE total == held[f] + n
             complete == f \in Http /\ total >= HeadLen
  <2>1. CASE ~complete /\ total < MaxHold
    <3>1. w = Outcome(0, total, FALSE, TRUE)
      BY <1>3, <2>1 DEF Sanitized
    <3>2. w.write = 0 /\ w.keep = total /\ ~w.done /\ w.ok
      BY <3>1 DEF Outcome
    <3>. QED
      BY <1>1, <1>3, <2>1, <3>2
  <2>2. CASE ~(~complete /\ total < MaxHold)
    <3>1. w = Outcome(total, 0, TRUE, complete \/ held[f] = 0)
      BY <1>3, <2>2 DEF Sanitized
    <3>2. w.write = total /\ w.keep = 0 /\ w.done
      BY <3>1 DEF Outcome
    <3>3. complete => w.ok
      <4>1. w.ok = (complete \/ held[f] = 0)
        BY <3>1 DEF Outcome
      <4>. QED
        BY <4>1, Zenon
    <3>4. total \in Nat /\ ~(total < MaxHold) => total >= HeadLen
      BY <1>1
    <3>5. f \in Http => complete
      BY <1>1, <2>2, <3>4
    <3>. QED
      BY <1>1, <1>3, <3>2, <3>3, <3>5 DEF Whole
  <2>. QED
    BY <2>1, <2>2
<1>. QED
  BY <1>2, <1>3

\* When a step moves n units from one hop to the next, or loses them, the sums
\* stay, or shrink by what is lost.
LEMMA CountsFollow ==
  ASSUME Types, NEW f \in Flows, Counts(f), Types',
         UNCHANGED <<sent, gone, alive, engine>>,
         Up(f)' <= Up(f), Below(f)' <= Below(f),
         alive /\ "srv" \notin gone[f] => Up(f)' = Up(f),
         Undisturbed /\ "app" \notin gone[f] => Below(f)' = Below(f)
  PROVE  Counts(f)'
<1>1. /\ Up(f) \in Nat /\ Up(f)' \in Nat /\ Below(f) \in Nat /\ Below(f)' \in Nat
      /\ sent[f]["app"] \in Nat /\ sent[f]["srv"] \in Nat
  BY DEF Types, Up, Below, Hops, Copiers, Sides
<1>. QED
  BY <1>1 DEF Counts, Undisturbed

\* What every flow knows before one of its copiers takes a step.
LEMMA Amounts ==
  ASSUME Types, NEW f \in Flows
  PROVE  /\ \A h \in Hops : q[f][h] \in Nat
         /\ \A c \in Copiers : hand[f][c] \in Nat
         /\ held[f] \in Nat /\ Up(f) \in Nat /\ Below(f) \in Nat
         /\ sent[f]["app"] \in Nat /\ sent[f]["srv"] \in Nat
  BY DEF Types, Up, Below, Hops, Copiers, Sides

LEMMA Summands ==
  ASSUME Types, NEW f \in Flows
  PROVE  /\ q[f]["appUp"] \in Nat /\ q[f]["strUp"] \in Nat /\ q[f]["srvUp"] \in Nat
         /\ q[f]["srvDown"] \in Nat /\ q[f]["strDown"] \in Nat
         /\ q[f]["appDown"] \in Nat /\ held[f] \in Nat
         /\ hand[f]["up"] \in Nat /\ hand[f]["down"] \in Nat
         /\ hand[f]["toServer"] \in Nat /\ hand[f]["toClient"] \in Nat
  BY Amounts DEF Hops, Copiers

LEMMA EndsCopy ==
  ASSUME Types, NEW f \in Flows, NEW x \in {"up", "down"}, Ends(f, x)
  PROVE  /\ copies' \in [Flows -> SUBSET {"up", "down"}]
         /\ copies'[f] = copies[f] \ {x}
         /\ \A g \in Flows \ {f} : copies'[g] = copies[g]
  BY DEF Ends, Types

LEMMA ReadUpKeeps ==
  ASSUME Types, NEW f \in Flows, FlowInv(f), CopyUp(f), ReadUp(f)
  PROVE  Kept(f)
<1>1. UNCHANGED <<eof, sent, gone, broken, desk, phone, down, socket, alive, engine>>
  BY DEF CopyUp, handset, world
<1>2. /\ "up" \in copies[f] /\ desk[f] = "pump" /\ "strUp" \notin eof[f]
      /\ hand[f]["up"] = 0
  BY DEF CopyUp, ReadUp, FlowInv, Places, Types
<1>3. CASE /\ Aborted \/ "app" \in broken[f] \/ Drained(f, "appUp")
           /\ Ends(f, "up") /\ UNCHANGED <<q, hand, held, passes, quits>>
  <2>1. Types'
    BY <1>1, <1>3, EndsCopy DEF Types
  <2>2. copies'[f] = copies[f] \ {"up"}
    BY <1>3, EndsCopy
  <2>3. FlowInv(f)'
    BY <1>1, <1>2, <1>3, <2>2 DEF Aborted, FlowInv, Places, Counts, Up, Below, Held,
       Whole, UpEnds, DownEnds, Drained, Undisturbed
  <2>4. \A g \in Flows \ {f} : Same(g)
    BY <1>1, <1>3, EndsCopy DEF Same
  <2>. QED
    BY <1>1, <2>1, <2>3, <2>4 DEF Kept, world
<1>4. ASSUME NEW n \in 1 .. q[f]["appUp"], NEW w, w = Sanitized(f, n),
             Reads(f, "appUp", n, "up", w.write), held' = At(held, f, w.keep),
             passes' = IF w.done THEN passes \cup {f} ELSE passes,
             quits' = IF w.ok THEN quits ELSE quits \cup {f}, UNCHANGED copies
      PROVE  Kept(f)
  <2>1. n \in Nat /\ n <= q[f]["appUp"] /\ n > 0
    BY Amounts DEF Hops
  <2>2. /\ w.write \in Nat /\ w.keep \in Nat
        /\ w.write + w.keep = held[f] + n
        /\ f \in passes => w.done
        /\ w.done \/ ~Sanitize => w.keep = 0
        /\ Sanitize /\ ~w.done => w.write = 0
        /\ f \in Http /\ w.keep > 0 => w.keep < HeadLen
        /\ Whole(f) => w.ok
    BY <1>4, <2>1, Sanitizes
  <2>3. /\ held' \in [Flows -> Nat] /\ held'[f] = w.keep
        /\ \A g \in Flows \ {f} : held'[g] = held[g]
    BY <1>4, <2>2 DEF At, Types
  <2>4. /\ passes' \subseteq Flows
        /\ f \in passes' <=> w.done
        /\ \A g \in Flows \ {f} : g \in passes' <=> g \in passes
    BY <1>4, <2>2 DEF Types
  <2>5. /\ quits' \subseteq Flows
        /\ f \in quits' => f \in quits \/ ~Whole(f)
        /\ \A g \in Flows \ {f} : g \in quits' <=> g \in quits
    BY <1>4, <2>2 DEF Types
  <2>6. /\ q' \in [Flows -> [Hops -> Nat]] /\ hand' \in [Flows -> [Copiers -> Nat]]
        /\ q'[f]["appUp"] = q[f]["appUp"] - n /\ hand'[f]["up"] = w.write
        /\ q'[f]["strUp"] = q[f]["strUp"] /\ q'[f]["srvUp"] = q[f]["srvUp"]
        /\ q'[f]["srvDown"] = q[f]["srvDown"] /\ q'[f]["strDown"] = q[f]["strDown"]
        /\ q'[f]["appDown"] = q[f]["appDown"]
        /\ hand'[f]["down"] = hand[f]["down"] /\ hand'[f]["toServer"] = hand[f]["toServer"]
        /\ hand'[f]["toClient"] = hand[f]["toClient"]
        /\ \A g \in Flows \ {f} : q'[g] = q[g] /\ hand'[g] = hand[g]
    BY <1>4, <2>1, <2>2, Reading DEF Hops, Copiers
  <2>7. Types'
    BY <1>1, <1>4, <2>3, <2>4, <2>5, <2>6 DEF Types
  <2>8. Counts(f)'
    <3>1. Up(f)' = Up(f)
      <4>1. /\ q'[f]["appUp"] = q[f]["appUp"] - n /\ hand[f]["up"] = 0
            /\ held'[f] = held[f] + n - w.write /\ hand'[f]["up"] = w.write
            /\ q'[f]["strUp"] = q[f]["strUp"]
            /\ hand'[f]["toServer"] = hand[f]["toServer"]
            /\ q'[f]["srvUp"] = q[f]["srvUp"]
        BY <1>2, <2>1, <2>2, <2>3, <2>6, Summands
      <4>2. n \in Nat /\ w.write \in Nat
        BY <2>1, <2>2
      <4>. QED
        BY <4>1, <4>2, Summands DEF Up
    <3>2. Below(f)' = Below(f)
      BY <2>6 DEF Below
    <3>. QED
      BY <1>1, <2>7, <3>1, <3>2, Amounts, CountsFollow DEF FlowInv
  <2>9. Held(f)'
    BY <1>1, <2>1, <2>2, <2>3, <2>4, <2>5, <2>6 DEF FlowInv, Held, Whole
  <2>10. Places(f)' /\ UpEnds(f)' /\ DownEnds(f)'
    BY <1>1, <1>2, <1>4, <2>1, <2>6, Amounts
       DEF FlowInv, Places, UpEnds, DownEnds, Drained, Whole, Undisturbed, Hops
  <2>11. \A g \in Flows \ {f} : Same(g)
    BY <1>1, <1>4, <2>3, <2>4, <2>5, <2>6 DEF Same
  <2>. QED
    BY <1>1, <2>7, <2>8, <2>9, <2>10, <2>11 DEF Kept, FlowInv, world
<1>. QED
  BY <1>3, <1>4 DEF ReadUp

LEMMA WriteUpKeeps ==
  ASSUME Types, NEW f \in Flows, FlowInv(f), CopyUp(f), WriteUp(f)
  PROVE  Kept(f)
<1>1. UNCHANGED <<eof, sent, gone, broken, desk, held, passes, quits, phone, down, socket,
                  alive, engine>>
  BY DEF CopyUp, WriteUp, handset, world
<1>2. /\ "up" \in copies[f] /\ desk[f] = "pump" /\ "strUp" \notin eof[f]
      /\ hand[f]["up"] > 0
  BY DEF CopyUp, WriteUp, FlowInv, Places, Types
<1>3. CASE ~alive /\ Loses(f, "up") /\ Ends(f, "up")
  <2>1. /\ q' = q /\ hand' \in [Flows -> [Copiers -> Nat]] /\ hand'[f]["up"] = 0
        /\ hand'[f]["down"] = hand[f]["down"] /\ hand'[f]["toServer"] = hand[f]["toServer"]
        /\ hand'[f]["toClient"] = hand[f]["toClient"]
        /\ \A g \in Flows \ {f} : hand'[g] = hand[g]
    BY <1>3, Losing DEF Copiers
  <2>2. /\ copies'[f] = copies[f] \ {"up"}
        /\ \A g \in Flows \ {f} : copies'[g] = copies[g]
    BY <1>3, EndsCopy
  <2>3. Types'
    BY <1>1, <1>3, <2>1, EndsCopy DEF Types
  <2>4. Counts(f)'
    <3>1. Up(f)' <= Up(f) /\ Below(f)' = Below(f)
      BY <1>1, <2>1, Amounts DEF Up, Below, Hops, Copiers
    <3>. QED
      BY <1>1, <1>3, <2>3, <3>1, Amounts, CountsFollow DEF FlowInv
  <2>5. Places(f)' /\ Held(f)' /\ UpEnds(f)' /\ DownEnds(f)'
    BY <1>1, <1>2, <1>3, <2>1, <2>2 DEF FlowInv, Places, Held, UpEnds, DownEnds, Drained,
       Whole, Undisturbed
  <2>6. \A g \in Flows \ {f} : Same(g)
    BY <1>1, <2>1, <2>2 DEF Same
  <2>. QED
    BY <1>1, <2>3, <2>4, <2>5, <2>6 DEF Kept, FlowInv, world
<1>4. CASE /\ HasCredit(f, "strUp") /\ Writes(f, "up", "strUp")
           /\ IF hand[f]["up"] = 1 /\ f \in quits THEN Ends(f, "up") ELSE UNCHANGED copies
  <2>1. /\ q' \in [Flows -> [Hops -> Nat]] /\ hand' \in [Flows -> [Copiers -> Nat]]
        /\ q'[f]["strUp"] = q[f]["strUp"] + 1 /\ hand'[f]["up"] = hand[f]["up"] - 1
        /\ q'[f]["appUp"] = q[f]["appUp"] /\ q'[f]["srvUp"] = q[f]["srvUp"]
        /\ q'[f]["srvDown"] = q[f]["srvDown"] /\ q'[f]["strDown"] = q[f]["strDown"]
        /\ q'[f]["appDown"] = q[f]["appDown"]
        /\ hand'[f]["down"] = hand[f]["down"] /\ hand'[f]["toServer"] = hand[f]["toServer"]
        /\ hand'[f]["toClient"] = hand[f]["toClient"]
        /\ \A g \in Flows \ {f} : q'[g] = q[g] /\ hand'[g] = hand[g]
    BY <1>2, <1>4, Writing DEF Hops, Copiers
  <2>2. alive /\ q[f]["strUp"] < Window /\ Window \in Nat
    BY <1>4, RelayAssumption DEF RelayAssumption, HasCredit
  <2>3. /\ copies' \in [Flows -> SUBSET {"up", "down"}]
        /\ \/ copies'[f] = copies[f]
           \/ f \in quits /\ hand[f]["up"] = 1 /\ copies'[f] = copies[f] \ {"up"}
        /\ \A g \in Flows \ {f} : copies'[g] = copies[g]
    <3>1. CASE UNCHANGED copies
      BY <3>1 DEF Types
    <3>2. CASE hand[f]["up"] = 1 /\ f \in quits /\ Ends(f, "up")
      BY <3>2, EndsCopy
    <3>. QED
      BY <1>4, <3>1, <3>2
  <2>4. Types'
    BY <1>1, <2>1, <2>3 DEF Types
  <2>5. Counts(f)'
    <3>1. Up(f)' = Up(f)
      <4>1. /\ q'[f]["appUp"] = q[f]["appUp"] /\ held'[f] = held[f]
            /\ hand'[f]["up"] = hand[f]["up"] - 1
            /\ q'[f]["strUp"] = q[f]["strUp"] + 1
            /\ hand'[f]["toServer"] = hand[f]["toServer"]
            /\ q'[f]["srvUp"] = q[f]["srvUp"]
        BY <1>1, <2>1
      <4>. QED
        BY <4>1, Summands DEF Up
    <3>2. Below(f)' = Below(f)
      BY <2>1 DEF Below
    <3>. QED
      BY <1>1, <2>4, <3>1, <3>2, Amounts, CountsFollow DEF FlowInv
  <2>6. Places(f)'
    BY <1>1, <1>2, <2>1, <2>2, <2>3, Amounts DEF FlowInv, Places, Hops
  <2>7. Held(f)' /\ UpEnds(f)' /\ DownEnds(f)'
    BY <1>1, <1>2, <2>1, <2>2, <2>3, Amounts DEF FlowInv, Held, Places, UpEnds, DownEnds,
       Drained, Whole, Undisturbed, Hops, Copiers
  <2>8. \A g \in Flows \ {f} : Same(g)
    BY <1>1, <2>1, <2>3 DEF Same
  <2>. QED
    BY <1>1, <2>4, <2>5, <2>6, <2>7, <2>8 DEF Kept, FlowInv, world
<1>. QED
  BY <1>3, <1>4 DEF WriteUp

LEMMA CopyDownKeeps ==
  ASSUME Types, NEW f \in Flows, FlowInv(f), CopyDown(f)
  PROVE  Kept(f)
<1>1. UNCHANGED <<eof, sent, gone, broken, desk, held, passes, quits, phone, down, socket,
                  alive, engine>>
  BY DEF CopyDown, handset, world
<1>2. /\ "down" \in copies[f] /\ desk[f] = "pump" /\ "appDown" \notin eof[f]
  BY DEF CopyDown, FlowInv, Places, Types
<1>3. CASE /\ hand[f]["down"] = 0 /\ (~alive \/ Drained(f, "strDown"))
           /\ Ends(f, "down") /\ UNCHANGED <<q, hand>>
  <2>1. /\ copies'[f] = copies[f] \ {"down"}
        /\ \A g \in Flows \ {f} : copies'[g] = copies[g]
    BY <1>3, EndsCopy
  <2>2. Types'
    BY <1>1, <1>3, EndsCopy DEF Types
  <2>3. FlowInv(f)'
    BY <1>1, <1>2, <1>3, <2>1 DEF FlowInv, Places, Counts, Up, Below, Held, Whole, UpEnds,
       DownEnds, Drained, Undisturbed
  <2>4. \A g \in Flows \ {f} : Same(g)
    BY <1>1, <1>3, <2>1 DEF Same
  <2>. QED
    BY <1>1, <2>2, <2>3, <2>4 DEF Kept, world
<1>4. ASSUME NEW n \in 1 .. q[f]["strDown"], hand[f]["down"] = 0,
             Reads(f, "strDown", n, "down", n), UNCHANGED copies
      PROVE  Kept(f)
  <2>1. n \in Nat /\ n <= q[f]["strDown"] /\ n > 0
    BY Amounts DEF Hops
  <2>2. /\ q' \in [Flows -> [Hops -> Nat]] /\ hand' \in [Flows -> [Copiers -> Nat]]
        /\ q'[f]["strDown"] = q[f]["strDown"] - n /\ hand'[f]["down"] = n
        /\ q'[f]["appUp"] = q[f]["appUp"] /\ q'[f]["strUp"] = q[f]["strUp"]
        /\ q'[f]["srvUp"] = q[f]["srvUp"] /\ q'[f]["srvDown"] = q[f]["srvDown"]
        /\ q'[f]["appDown"] = q[f]["appDown"]
        /\ hand'[f]["up"] = hand[f]["up"] /\ hand'[f]["toServer"] = hand[f]["toServer"]
        /\ hand'[f]["toClient"] = hand[f]["toClient"]
        /\ \A g \in Flows \ {f} : q'[g] = q[g] /\ hand'[g] = hand[g]
    BY <1>4, <2>1, Reading DEF Hops, Copiers
  <2>3. Types'
    BY <1>1, <1>4, <2>2 DEF Types
  <2>4. Counts(f)'
    <3>1. Up(f)' = Up(f) /\ Below(f)' = Below(f)
      BY <1>1, <1>4, <2>1, <2>2, Amounts DEF Up, Below, Hops, Copiers
    <3>. QED
      BY <1>1, <2>3, <3>1, Amounts, CountsFollow DEF FlowInv
  <2>5. Places(f)'
    BY <1>1, <1>2, <1>4, <2>1, <2>2, Amounts, RelayAssumption
       DEF RelayAssumption, FlowInv, Places, Hops
  <2>6. Held(f)' /\ UpEnds(f)' /\ DownEnds(f)'
    BY <1>1, <1>2, <1>4, <2>1, <2>2, Amounts DEF FlowInv, Held, Places, UpEnds, DownEnds,
       Drained, Whole, Undisturbed, Hops, Copiers
  <2>7. \A g \in Flows \ {f} : Same(g)
    BY <1>1, <1>4, <2>2 DEF Same
  <2>. QED
    BY <1>1, <2>3, <2>4, <2>5, <2>6, <2>7 DEF Kept, FlowInv, world
<1>5. CASE FailDown(f)
  <2>1. /\ q' = q /\ hand' \in [Flows -> [Copiers -> Nat]] /\ hand'[f]["down"] = 0
        /\ hand'[f]["up"] = hand[f]["up"] /\ hand'[f]["toServer"] = hand[f]["toServer"]
        /\ hand'[f]["toClient"] = hand[f]["toClient"]
        /\ \A g \in Flows \ {f} : hand'[g] = hand[g]
    BY <1>5, Losing DEF FailDown, Copiers
  <2>2. /\ copies'[f] = copies[f] \ {"down"}
        /\ \A g \in Flows \ {f} : copies'[g] = copies[g]
    BY <1>5, EndsCopy DEF FailDown
  <2>3. ~Undisturbed \/ "app" \in gone[f]
    BY <1>5 DEF FailDown, Aborted, Undisturbed
  <2>4. Types'
    BY <1>1, <1>5, <2>1, EndsCopy DEF FailDown, Types
  <2>5. Counts(f)'
    <3>1. Up(f)' = Up(f) /\ Below(f)' <= Below(f)
      BY <1>1, <2>1, Amounts DEF Up, Below, Hops, Copiers
    <3>. QED
      BY <1>1, <2>3, <2>4, <3>1, Amounts, CountsFollow DEF FlowInv
  <2>6. Places(f)' /\ Held(f)' /\ UpEnds(f)' /\ DownEnds(f)'
    BY <1>1, <1>2, <2>1, <2>2, <2>3 DEF FlowInv, Places, Held, UpEnds, DownEnds, Drained,
       Whole, Undisturbed
  <2>7. \A g \in Flows \ {f} : Same(g)
    BY <1>1, <2>1, <2>2 DEF Same
  <2>. QED
    BY <1>1, <2>4, <2>5, <2>6, <2>7 DEF Kept, FlowInv, world
<1>. QED
  BY <1>3, <1>4, <1>5 DEF CopyDown, ReadDown

LEMMA AppTakesKeeps ==
  ASSUME Types, NEW f \in Flows, FlowInv(f), AppTakes(f)
  PROVE  Kept(f)
<1>1. UNCHANGED <<eof, sent, gone, broken, desk, copies, held, passes, quits, phone, down,
                  socket, alive, engine>>
  BY DEF AppTakes, desktop, handset, world
<1>2. /\ q' \in [Flows -> [Hops -> Nat]] /\ hand' \in [Flows -> [Copiers -> Nat]]
      /\ q'[f]["appDown"] = q[f]["appDown"] + 1 /\ hand'[f]["down"] = hand[f]["down"] - 1
      /\ q'[f]["appUp"] = q[f]["appUp"] /\ q'[f]["strUp"] = q[f]["strUp"]
      /\ q'[f]["srvUp"] = q[f]["srvUp"] /\ q'[f]["srvDown"] = q[f]["srvDown"]
      /\ q'[f]["strDown"] = q[f]["strDown"]
      /\ hand'[f]["up"] = hand[f]["up"] /\ hand'[f]["toServer"] = hand[f]["toServer"]
      /\ hand'[f]["toClient"] = hand[f]["toClient"]
      /\ \A g \in Flows \ {f} : q'[g] = q[g] /\ hand'[g] = hand[g]
  BY Writing DEF AppTakes, Hops, Copiers
<1>3. Types'
  BY <1>1, <1>2 DEF Types
<1>4. Counts(f)'
  <2>1. Up(f)' = Up(f)
    BY <1>1, <1>2, Summands DEF Up
  <2>2. Below(f)' = Below(f)
    <3>1. /\ q'[f]["srvDown"] = q[f]["srvDown"]
          /\ hand'[f]["toClient"] = hand[f]["toClient"]
          /\ q'[f]["strDown"] = q[f]["strDown"]
          /\ hand'[f]["down"] = hand[f]["down"] - 1
          /\ q'[f]["appDown"] = q[f]["appDown"] + 1
      BY <1>1, <1>2
    <3>. QED
      BY <3>1, Summands DEF Below
  <2>. QED
    BY <1>1, <1>3, <2>1, <2>2, Amounts, CountsFollow DEF FlowInv
<1>5. hand[f]["down"] > 0
  BY DEF AppTakes
<1>6. Places(f)' /\ Held(f)' /\ UpEnds(f)' /\ DownEnds(f)'
  BY <1>1, <1>2, <1>5 DEF FlowInv, Places, Held, UpEnds, DownEnds, Drained, Whole,
     Undisturbed
<1>7. \A g \in Flows \ {f} : Same(g)
  BY <1>1, <1>2 DEF Same
<1>. QED
  BY <1>1, <1>3, <1>4, <1>6, <1>7 DEF Kept, FlowInv, world

LEMMA ClientFailing ==
  ASSUME Types, NEW f \in Flows, ClientFails(f)
  PROVE  /\ socket' \in [Flows -> {"none", "open", "closed"}] /\ socket'[f] = "closed"
         /\ phone' \in [Flows -> {"none", "queued", "connect", "pump", "join", "ended"}]
         /\ phone'[f] = "join"
         /\ eof' \in [Flows -> SUBSET Hops] /\ eof'[f] = eof[f] \cup {"srvUp"}
         /\ \A g \in Flows \ {f} : /\ socket'[g] = socket[g] /\ phone'[g] = phone[g]
                                   /\ eof'[g] = eof[g]
<1>1. eof' = Shut(f, "srvUp")
  BY DEF ClientFails, SocketAfterError
<1>. QED
  BY <1>1, Shuts DEF ClientFails, SocketAfterError, At, Types, Hops

LEMMA ClientToRemoteKeeps ==
  ASSUME Types, NEW f \in Flows, FlowInv(f), ClientToRemote(f)
  PROVE  Kept(f)
<1>1. UNCHANGED <<sent, gone, broken, desk, copies, held, passes, quits, down, alive,
                  engine>>
  BY DEF ClientToRemote, desktop, world
<1>2. /\ phone[f] = "pump" /\ socket[f] = "open" /\ "srvUp" \notin eof[f]
  BY DEF ClientToRemote, FlowInv, Places, Types
<1>3. ASSUME NEW n \in 1 .. q[f]["strUp"], hand[f]["toServer"] = 0,
             Reads(f, "strUp", n, "toServer", n), UNCHANGED <<phone, socket, eof>>
      PROVE  Kept(f)
  <2>1. n \in Nat /\ n <= q[f]["strUp"] /\ n > 0
    BY Amounts DEF Hops
  <2>2. /\ q' \in [Flows -> [Hops -> Nat]] /\ hand' \in [Flows -> [Copiers -> Nat]]
        /\ q'[f]["strUp"] = q[f]["strUp"] - n /\ hand'[f]["toServer"] = n
        /\ q'[f]["appUp"] = q[f]["appUp"] /\ q'[f]["srvUp"] = q[f]["srvUp"]
        /\ q'[f]["srvDown"] = q[f]["srvDown"] /\ q'[f]["strDown"] = q[f]["strDown"]
        /\ q'[f]["appDown"] = q[f]["appDown"]
        /\ hand'[f]["up"] = hand[f]["up"] /\ hand'[f]["down"] = hand[f]["down"]
        /\ hand'[f]["toClient"] = hand[f]["toClient"]
        /\ \A g \in Flows \ {f} : q'[g] = q[g] /\ hand'[g] = hand[g]
    BY <1>3, <2>1, Reading DEF Hops, Copiers
  <2>3. Types'
    BY <1>1, <1>3, <2>2 DEF Types
  <2>4. Counts(f)'
    <3>1. Up(f)' = Up(f) /\ Below(f)' = Below(f)
      BY <1>1, <1>3, <2>1, <2>2, Amounts DEF Up, Below, Hops, Copiers
    <3>. QED
      BY <1>1, <2>3, <3>1, Amounts, CountsFollow DEF FlowInv
  <2>5. Places(f)'
    BY <1>1, <1>2, <1>3, <2>1, <2>2, Amounts, RelayAssumption
       DEF RelayAssumption, FlowInv, Places, Hops
  <2>6. Held(f)' /\ UpEnds(f)' /\ DownEnds(f)'
    BY <1>1, <1>2, <1>3, <2>1, <2>2, Amounts DEF FlowInv, Held, Places, UpEnds, DownEnds,
       Drained, Whole, Undisturbed, Hops, Copiers
  <2>7. \A g \in Flows \ {f} : Same(g)
    BY <1>1, <1>3, <2>2 DEF Same
  <2>. QED
    BY <1>1, <2>3, <2>4, <2>5, <2>6, <2>7 DEF Kept, FlowInv, world
<1>4. CASE /\ hand[f]["toServer"] = 0 /\ Drained(f, "strUp") /\ eof' = Shut(f, "srvUp")
           /\ phone' = At(phone, f, "join") /\ UNCHANGED <<q, hand, socket>>
  <2>1. /\ eof' \in [Flows -> SUBSET Hops] /\ eof'[f] = eof[f] \cup {"srvUp"}
        /\ \A g \in Flows \ {f} : eof'[g] = eof[g]
    BY <1>4, Shuts DEF Types, Hops
  <2>2. /\ phone' \in [Flows -> {"none", "queued", "connect", "pump", "join", "ended"}]
        /\ phone'[f] = "join" /\ \A g \in Flows \ {f} : phone'[g] = phone[g]
    BY <1>4 DEF At, Types
  <2>3. Types'
    BY <1>1, <1>4, <2>1, <2>2 DEF Types
  <2>4. FlowInv(f)'
    BY <1>1, <1>2, <1>4, <2>1, <2>2 DEF Counts, Up, Below, FlowInv, Places, Held, Whole,
       UpEnds, DownEnds, Drained, Undisturbed
  <2>5. \A g \in Flows \ {f} : Same(g)
    BY <1>1, <1>4, <2>1, <2>2 DEF Same
  <2>. QED
    BY <1>1, <2>3, <2>4, <2>5 DEF Kept, world
<1>5. CASE hand[f]["toServer"] = 0 /\ ~alive /\ ClientFails(f) /\ UNCHANGED <<q, hand>>
  <2>1. /\ socket'[f] = "closed" /\ phone'[f] = "join" /\ eof'[f] = eof[f] \cup {"srvUp"}
    BY <1>5, ClientFailing
  <2>2. Types'
    BY <1>1, <1>5, ClientFailing DEF Types
  <2>3. FlowInv(f)'
    BY <1>1, <1>2, <1>5, <2>1 DEF Counts, Up, Below, FlowInv, Places, Held, Whole,
       UpEnds, DownEnds, Drained, Undisturbed
  <2>4. \A g \in Flows \ {f} : Same(g)
    BY <1>1, <1>5, ClientFailing DEF Same
  <2>. QED
    BY <1>1, <2>2, <2>3, <2>4 DEF Kept, world
<1>6. CASE FailServer(f)
  <2>1. /\ q' = q /\ hand' \in [Flows -> [Copiers -> Nat]] /\ hand'[f]["toServer"] = 0
        /\ hand'[f]["up"] = hand[f]["up"] /\ hand'[f]["down"] = hand[f]["down"]
        /\ hand'[f]["toClient"] = hand[f]["toClient"]
        /\ \A g \in Flows \ {f} : hand'[g] = hand[g]
    BY <1>6, Losing DEF FailServer, Copiers
  <2>2. /\ socket'[f] = "closed" /\ phone'[f] = "join" /\ eof'[f] = eof[f] \cup {"srvUp"}
        /\ "srv" \in gone[f]
    BY <1>6, ClientFailing DEF FailServer
  <2>3. Types'
    BY <1>1, <1>6, <2>1, ClientFailing DEF FailServer, Types
  <2>4. Counts(f)'
    <3>1. Up(f)' <= Up(f) /\ Below(f)' = Below(f)
      BY <1>1, <2>1, Amounts DEF Up, Below, Hops, Copiers
    <3>. QED
      BY <1>1, <2>2, <2>3, <3>1, Amounts, CountsFollow DEF FlowInv
  <2>5. Places(f)' /\ Held(f)' /\ UpEnds(f)' /\ DownEnds(f)'
    BY <1>1, <1>2, <2>1, <2>2 DEF FlowInv, Places, Held, Whole, UpEnds, DownEnds, Drained,
       Undisturbed
  <2>6. \A g \in Flows \ {f} : Same(g)
    BY <1>1, <1>6, <2>1, ClientFailing DEF FailServer, Same
  <2>. QED
    BY <1>1, <2>3, <2>4, <2>5, <2>6 DEF Kept, FlowInv, world
<1>. QED
  BY <1>3, <1>4, <1>5, <1>6 DEF ClientToRemote, ReadClient

LEMMA ServerTakesKeeps ==
  ASSUME Types, NEW f \in Flows, FlowInv(f), ServerTakes(f)
  PROVE  Kept(f)
<1>1. UNCHANGED <<eof, sent, gone, broken, desk, copies, held, passes, quits, phone, down,
                  socket, alive, engine>>
  BY DEF ServerTakes, desktop, handset, world
<1>2. /\ q' \in [Flows -> [Hops -> Nat]] /\ hand' \in [Flows -> [Copiers -> Nat]]
      /\ q'[f]["srvUp"] = q[f]["srvUp"] + 1
      /\ hand'[f]["toServer"] = hand[f]["toServer"] - 1
      /\ q'[f]["appUp"] = q[f]["appUp"] /\ q'[f]["strUp"] = q[f]["strUp"]
      /\ q'[f]["srvDown"] = q[f]["srvDown"] /\ q'[f]["strDown"] = q[f]["strDown"]
      /\ q'[f]["appDown"] = q[f]["appDown"]
      /\ hand'[f]["up"] = hand[f]["up"] /\ hand'[f]["down"] = hand[f]["down"]
      /\ hand'[f]["toClient"] = hand[f]["toClient"]
      /\ \A g \in Flows \ {f} : q'[g] = q[g] /\ hand'[g] = hand[g]
  BY Writing DEF ServerTakes, Hops, Copiers
<1>3. Types'
  BY <1>1, <1>2 DEF Types
<1>4. Counts(f)'
  <2>1. Up(f)' = Up(f)
    <3>1. /\ q'[f]["appUp"] = q[f]["appUp"] /\ held'[f] = held[f]
          /\ hand'[f]["up"] = hand[f]["up"] /\ q'[f]["strUp"] = q[f]["strUp"]
          /\ hand'[f]["toServer"] = hand[f]["toServer"] - 1
          /\ q'[f]["srvUp"] = q[f]["srvUp"] + 1
      BY <1>1, <1>2
    <3>. QED
      BY <3>1, Summands DEF Up
  <2>2. Below(f)' = Below(f)
    BY <1>1, <1>2, Summands DEF Below
  <2>. QED
    BY <1>1, <1>3, <2>1, <2>2, Amounts, CountsFollow DEF FlowInv
<1>5. hand[f]["toServer"] > 0
  BY DEF ServerTakes
<1>6. Places(f)' /\ Held(f)' /\ UpEnds(f)' /\ DownEnds(f)'
  BY <1>1, <1>2, <1>5 DEF FlowInv, Places, Held, UpEnds, DownEnds, Drained, Whole,
     Undisturbed
<1>7. \A g \in Flows \ {f} : Same(g)
  BY <1>1, <1>2 DEF Same
<1>. QED
  BY <1>1, <1>3, <1>4, <1>6, <1>7 DEF Kept, FlowInv, world

LEMMA RemoteToClientKeeps ==
  ASSUME Types, NEW f \in Flows, FlowInv(f), RemoteToClient(f)
  PROVE  Kept(f)
<1>1. UNCHANGED <<sent, gone, broken, desk, copies, held, passes, quits, phone, socket,
                  alive, engine>>
  BY DEF RemoteToClient, desktop, world
<1>2. /\ down[f] = "runs" /\ socket[f] # "none" /\ "strDown" \notin eof[f]
      /\ phone[f] \notin {"none", "queued", "connect"}
  BY DEF RemoteToClient, FlowInv, Places, Types
<1>3. CASE /\ hand[f]["toClient"] = 0
           /\ socket[f] = "closed" \/ "srv" \in broken[f] \/ Drained(f, "srvDown")
           /\ down' = At(down, f, "ended") /\ eof' = StreamClosed(f) /\ UNCHANGED <<q, hand>>
  <2>1. /\ eof' \in [Flows -> SUBSET Hops]
        /\ eof'[f] = eof[f] \cup {h \in {"strDown"} : alive}
        /\ \A g \in Flows \ {f} : eof'[g] = eof[g]
    BY <1>3, StreamCloses DEF Types
  <2>2. Types'
    BY <1>1, <1>3, <2>1 DEF At, Types
  <2>3. down'[f] = "ended" /\ \A g \in Flows \ {f} : down'[g] = down[g]
    BY <1>3 DEF At, Types
  <2>4. FlowInv(f)'
    BY <1>1, <1>2, <1>3, <2>1, <2>3 DEF Types, Counts, Up, Below, FlowInv, Places, Held,
       Whole, UpEnds, DownEnds, Drained, Undisturbed
  <2>5. \A g \in Flows \ {f} : Same(g)
    BY <1>1, <1>3, <2>1, <2>3 DEF Same
  <2>. QED
    BY <1>1, <2>2, <2>4, <2>5 DEF Kept, world
<1>4. ASSUME NEW n \in 1 .. q[f]["srvDown"], hand[f]["toClient"] = 0,
             Reads(f, "srvDown", n, "toClient", n), UNCHANGED <<down, eof>>
      PROVE  Kept(f)
  <2>1. n \in Nat /\ n <= q[f]["srvDown"] /\ n > 0
    BY Amounts DEF Hops
  <2>2. /\ q' \in [Flows -> [Hops -> Nat]] /\ hand' \in [Flows -> [Copiers -> Nat]]
        /\ q'[f]["srvDown"] = q[f]["srvDown"] - n /\ hand'[f]["toClient"] = n
        /\ q'[f]["appUp"] = q[f]["appUp"] /\ q'[f]["strUp"] = q[f]["strUp"]
        /\ q'[f]["srvUp"] = q[f]["srvUp"] /\ q'[f]["strDown"] = q[f]["strDown"]
        /\ q'[f]["appDown"] = q[f]["appDown"]
        /\ hand'[f]["up"] = hand[f]["up"] /\ hand'[f]["down"] = hand[f]["down"]
        /\ hand'[f]["toServer"] = hand[f]["toServer"]
        /\ \A g \in Flows \ {f} : q'[g] = q[g] /\ hand'[g] = hand[g]
    BY <1>4, <2>1, Reading DEF Hops, Copiers
  <2>3. Types'
    BY <1>1, <1>4, <2>2 DEF Types
  <2>4. Counts(f)'
    <3>1. Up(f)' = Up(f) /\ Below(f)' = Below(f)
      BY <1>1, <1>4, <2>1, <2>2, Amounts DEF Up, Below, Hops, Copiers
    <3>. QED
      BY <1>1, <2>3, <3>1, Amounts, CountsFollow DEF FlowInv
  <2>5. Places(f)' /\ Held(f)' /\ UpEnds(f)' /\ DownEnds(f)'
    BY <1>1, <1>2, <1>4, <2>1, <2>2 DEF FlowInv, Places, Held, UpEnds, DownEnds, Drained,
       Whole, Undisturbed
  <2>6. \A g \in Flows \ {f} : Same(g)
    BY <1>1, <1>4, <2>2 DEF Same
  <2>. QED
    BY <1>1, <2>3, <2>4, <2>5, <2>6 DEF Kept, FlowInv, world
<1>5. CASE /\ hand[f]["toClient"] > 0 /\ HasCredit(f, "strDown")
           /\ Writes(f, "toClient", "strDown") /\ UNCHANGED <<down, eof>>
  <2>1. /\ q' \in [Flows -> [Hops -> Nat]] /\ hand' \in [Flows -> [Copiers -> Nat]]
        /\ q'[f]["strDown"] = q[f]["strDown"] + 1
        /\ hand'[f]["toClient"] = hand[f]["toClient"] - 1
        /\ q'[f]["appUp"] = q[f]["appUp"] /\ q'[f]["strUp"] = q[f]["strUp"]
        /\ q'[f]["srvUp"] = q[f]["srvUp"] /\ q'[f]["srvDown"] = q[f]["srvDown"]
        /\ q'[f]["appDown"] = q[f]["appDown"]
        /\ hand'[f]["up"] = hand[f]["up"] /\ hand'[f]["down"] = hand[f]["down"]
        /\ hand'[f]["toServer"] = hand[f]["toServer"]
        /\ \A g \in Flows \ {f} : q'[g] = q[g] /\ hand'[g] = hand[g]
    BY <1>5, Writing DEF Hops, Copiers
  <2>2. alive /\ q[f]["strDown"] < Window /\ Window \in Nat
    BY <1>5, RelayAssumption DEF RelayAssumption, HasCredit
  <2>3. Types'
    BY <1>1, <1>5, <2>1 DEF Types
  <2>4. Counts(f)'
    <3>1. Up(f)' = Up(f) /\ Below(f)' = Below(f)
      BY <1>1, <2>1, Amounts DEF Up, Below, Hops, Copiers
    <3>. QED
      BY <1>1, <2>3, <3>1, Amounts, CountsFollow DEF FlowInv
  <2>5. Places(f)'
    BY <1>1, <1>2, <1>5, <2>1, <2>2, Amounts DEF FlowInv, Places, Hops
  <2>6. Held(f)' /\ UpEnds(f)'
    BY <1>1, <1>2, <1>5, <2>1 DEF FlowInv, Held, UpEnds, Drained, Whole, Undisturbed
  <2>7. DownEnds(f)'
    BY <1>1, <1>2, <1>5, <2>1 DEF FlowInv, Places, DownEnds, Drained, Undisturbed
  <2>8. \A g \in Flows \ {f} : Same(g)
    BY <1>1, <1>5, <2>1 DEF Same
  <2>. QED
    BY <1>1, <2>3, <2>4, <2>5, <2>6, <2>7, <2>8 DEF Kept, FlowInv, world
<1>6. CASE ~alive /\ Loses(f, "toClient") /\ down' = At(down, f, "ended") /\ UNCHANGED eof
  <2>1. /\ q' = q /\ hand' \in [Flows -> [Copiers -> Nat]] /\ hand'[f]["toClient"] = 0
        /\ hand'[f]["up"] = hand[f]["up"] /\ hand'[f]["down"] = hand[f]["down"]
        /\ hand'[f]["toServer"] = hand[f]["toServer"]
        /\ \A g \in Flows \ {f} : hand'[g] = hand[g]
    BY <1>6, Losing DEF Copiers
  <2>2. /\ down' \in [Flows -> {"none", "runs", "ended"}]
        /\ down'[f] = "ended" /\ \A g \in Flows \ {f} : down'[g] = down[g]
    BY <1>6 DEF At, Types
  <2>3. Types'
    BY <1>1, <1>6, <2>1, <2>2 DEF Types
  <2>4. Counts(f)'
    <3>1. Up(f)' = Up(f) /\ Below(f)' <= Below(f)
      BY <1>1, <2>1, Amounts DEF Up, Below, Hops, Copiers
    <3>. QED
      BY <1>1, <1>6, <2>3, <3>1, Amounts, CountsFollow DEF FlowInv, Undisturbed
  <2>5. Places(f)' /\ Held(f)' /\ UpEnds(f)' /\ DownEnds(f)'
    BY <1>1, <1>2, <1>6, <2>1, <2>2 DEF FlowInv, Places, Held, UpEnds, DownEnds, Drained,
       Whole, Undisturbed
  <2>6. \A g \in Flows \ {f} : Same(g)
    BY <1>1, <1>6, <2>1, <2>2 DEF Same
  <2>. QED
    BY <1>1, <2>3, <2>4, <2>5, <2>6 DEF Kept, FlowInv, world
<1>. QED
  BY <1>3, <1>4, <1>5, <1>6 DEF RemoteToClient, ReadServer, WriteClient

-----------------------------------------------------------------------------
(* The counters.                                                           *)

LEMMA Finite == IsFiniteSet(Dialling) /\ IsFiniteSet(Served)
<1>1. Dialling \in SUBSET Flows /\ Served \in SUBSET Flows
  BY DEF Dialling, Served
<1>. QED
  BY <1>1, FS_Subset, RelayAssumption DEF RelayAssumption

LEMMA DialSlots ==
  ASSUME Types, NEW f \in Flows, SlotsInv, Dial(f)
  PROVE  SlotsInv'
<1>1. UNCHANGED <<active, phone>> /\ Served' = Served
  BY DEF Dial, handset, Served
<1>2. f \notin Dialling /\ MaxDials \in Nat
  BY RelayAssumption DEF RelayAssumption, Dial, Dialling
<1>3. CASE MaxDials > 0 /\ dials >= MaxDials
  <2>1. Dialling' = Dialling /\ dials' = dials
    BY <1>3 DEF Dial, At, Types, Dialling
  <2>. QED
    BY <1>1, <2>1 DEF SlotsInv
<1>4. CASE ~(MaxDials > 0 /\ dials >= MaxDials)
  <2>1. Dialling' = Dialling \cup {f}
    BY <1>4 DEF Dial, At, Types, Dialling
  <2>2. Cardinality(Dialling') = Cardinality(Dialling) + 1
    BY <1>2, <2>1, Finite, FS_AddElement
  <2>3. Cardinality(Dialling) \in Nat
    BY Finite, FS_CardinalityType
  <2>4. dials' = Acquired
    BY <1>4 DEF Dial
  <2>. QED
    BY <1>1, <1>2, <1>4, <2>2, <2>3, <2>4 DEF Acquired, SlotsInv
<1>. QED
  BY <1>3, <1>4

LEMMA OpenSlots ==
  ASSUME Types, NEW f \in Flows, FlowInv(f), SlotsInv, Open(f)
  PROVE  SlotsInv'
<1>1. active' = active /\ dials' = Released(alive)
  BY DEF Open
<1>2. f \in Dialling /\ MaxDials \in Nat /\ phone[f] = "none"
  BY RelayAssumption DEF RelayAssumption, Open, Dialling, FlowInv, Places
<1>3. Served' = Served
  <2>1. phone' = phone \/ phone' = [phone EXCEPT ![f] = "queued"]
    BY DEF Open, At
  <2>. QED
    BY <1>2, <2>1 DEF Types, Served
<1>4. Dialling' = Dialling \ {f}
  <2>1. desk' = [desk EXCEPT ![f] = "pump"] \/ desk' = [desk EXCEPT ![f] = "closed"]
    BY DEF Open, At
  <2>. QED
    BY <2>1 DEF Types, Dialling
<1>5. /\ Cardinality(Dialling') = Cardinality(Dialling) - 1
      /\ Cardinality(Dialling) \in Nat /\ Cardinality(Dialling') \in Nat
  BY <1>2, <1>4, Finite, FS_RemoveElement, FS_CardinalityType
<1>. QED
  BY <1>1, <1>2, <1>3, <1>5 DEF Released, SlotsInv

LEMMA AcceptSlots ==
  ASSUME Types, NEW f \in Flows, SlotsInv, Accept(f)
  PROVE  SlotsInv'
<1>1. UNCHANGED <<dials, desk>> /\ Dialling' = Dialling
  BY DEF Accept, desktop, Dialling
<1>2. f \notin Served /\ MaxStreams \in Nat
  BY RelayAssumption DEF RelayAssumption, Accept, Served
<1>3. CASE active + 1 > MaxStreams
  <2>1. Served' = Served /\ active' = active
    BY <1>3 DEF Accept, At, Types, Served
  <2>. QED
    BY <1>1, <2>1 DEF SlotsInv
<1>4. CASE ~(active + 1 > MaxStreams)
  <2>1. Served' = Served \cup {f}
    BY <1>4 DEF Accept, At, Types, Served
  <2>2. Cardinality(Served') = Cardinality(Served) + 1
    BY <1>2, <2>1, Finite, FS_AddElement
  <2>3. Cardinality(Served) \in Nat
    BY Finite, FS_CardinalityType
  <2>4. active' = active + 1
    BY <1>4 DEF Accept, Counted
  <2>. QED
    BY <1>1, <1>2, <1>4, <2>2, <2>3, <2>4 DEF SlotsInv
<1>. QED
  BY <1>3, <1>4

\* The two ways a flow gives its place at the phone back.
LEMMA GivesBack ==
  ASSUME Types, NEW f \in Flows, SlotsInv, phone[f] \in {"connect", "join"},
         phone' = At(phone, f, "ended"), active' = active - 1,
         UNCHANGED <<dials, desk>>
  PROVE  SlotsInv'
<1>1. Dialling' = Dialling
  BY DEF Dialling
<1>2. f \in Served /\ MaxStreams \in Nat
  BY RelayAssumption DEF RelayAssumption, Served
<1>3. Served' = Served \ {f}
  BY DEF At, Types, Served
<1>4. /\ Cardinality(Served') = Cardinality(Served) - 1
      /\ Cardinality(Served) \in Nat
  BY <1>2, <1>3, Finite, FS_RemoveElement, FS_CardinalityType
<1>. QED
  BY <1>1, <1>2, <1>4 DEF SlotsInv

\* Every other step neither moves a counter nor what it counts.
LEMMA OtherSlots ==
  ASSUME Types, NEW f \in Flows, SlotsInv, UNCHANGED <<dials, active>>,
         \/ UNCHANGED desk
         \/ \E x \in {"dial", "closed"} : desk[f] # "open" /\ desk' = At(desk, f, x),
         \/ UNCHANGED phone
         \/ phone[f] = "queued" /\ phone' = At(phone, f, "none")
         \/ phone[f] = "connect" /\ phone' = At(phone, f, "pump")
         \/ phone[f] = "pump" /\ phone' = At(phone, f, "join")
  PROVE  SlotsInv'
<1>1. Dialling' = Dialling
  BY DEF At, Types, Dialling
<1>2. Served' = Served
  BY DEF At, Types, Served
<1>. QED
  BY <1>1, <1>2 DEF SlotsInv

FlowStep(f) ==
    Environment(f) \/ Desktop(f) \/ CopyUp(f) \/ CopyDown(f) \/ Phone(f) \/ RemoteToClient(f)

LEMMA SlotsKept ==
  ASSUME Types, NEW f \in Flows, FlowInv(f), SlotsInv, FlowStep(f)
  PROVE  SlotsInv'
<1>1. CASE Environment(f)
  BY <1>1, OtherSlots DEF Environment, AppConnects, Sends, Finishes, Fails, AppTakes,
     ServerTakes, desktop, handset
<1>2. CASE Dial(f)
  BY <1>2, DialSlots
<1>3. CASE Open(f)
  BY <1>3, OpenSlots
<1>4. CASE PumpReturns(f)
  BY <1>4, OtherSlots DEF PumpReturns, handset
<1>5. CASE CopyUp(f) \/ CopyDown(f)
  BY <1>5, OtherSlots DEF CopyUp, CopyDown, handset
<1>6. CASE Accept(f)
  BY <1>6, AcceptSlots
<1>7. CASE SynIsLost(f)
  BY <1>7, OtherSlots DEF SynIsLost, desktop
<1>8. CASE Connect(f)
  <2>1. phone[f] = "connect" /\ UNCHANGED <<dials, desk>>
    BY <1>8 DEF Connect, desktop
  <2>2. \/ phone' = At(phone, f, "pump") /\ UNCHANGED active
        \/ phone' = At(phone, f, "ended") /\ active' = active - 1
    BY <1>8 DEF Connect
  <2>. QED
    BY <2>1, <2>2, OtherSlots, GivesBack
<1>9. CASE ClientToRemote(f)
  <2>1. phone[f] = "pump" /\ UNCHANGED <<dials, desk, active>>
    BY <1>9 DEF ClientToRemote, desktop
  <2>2. UNCHANGED phone \/ phone' = At(phone, f, "join")
    BY <1>9 DEF ClientToRemote, ReadClient, FailServer, ClientFails
  <2>. QED
    BY <2>1, <2>2, OtherSlots
<1>10. CASE Join(f)
  BY <1>10, GivesBack DEF Join, desktop
<1>11. CASE RemoteToClient(f)
  BY <1>11, OtherSlots DEF RemoteToClient, desktop
<1>. QED
  BY <1>1, <1>2, <1>3, <1>4, <1>5, <1>6, <1>7, <1>8, <1>9, <1>10, <1>11
     DEF FlowStep, Desktop, Phone

-----------------------------------------------------------------------------
(* The invariant holds.                                                    *)

LEMMA FlowKept ==
  ASSUME Types, NEW f \in Flows, FlowInv(f), FlowStep(f)
  PROVE  Kept(f)
<1>1. CASE Environment(f)
  BY <1>1, AppConnectsKeeps, AppTakesKeeps, ServerTakesKeeps, SendsKeeps, FinishesKeeps,
     FailsKeeps DEF Environment
<1>2. CASE Desktop(f)
  BY <1>2, DialKeeps, OpenKeeps, PumpReturnsKeeps DEF Desktop
<1>3. CASE CopyUp(f)
  <2>1. ReadUp(f) \/ WriteUp(f)
    BY <1>3 DEF CopyUp
  <2>. QED
    BY <1>3, <2>1, ReadUpKeeps, WriteUpKeeps
<1>4. CASE CopyDown(f) \/ RemoteToClient(f)
  BY <1>4, CopyDownKeeps, RemoteToClientKeeps
<1>5. CASE Phone(f)
  BY <1>5, AcceptKeeps, SynIsLostKeeps, ConnectKeeps, ClientToRemoteKeeps, JoinKeeps
     DEF Phone
<1>. QED
  BY <1>1, <1>2, <1>3, <1>4, <1>5 DEF FlowStep

LEMMA InitInv == Init => Inv
<1> SUFFICES ASSUME Init PROVE Inv
  OBVIOUS
<1>1. Types
  BY DEF Init, Types, Hops, Sides, Copiers
<1>2. SlotsInv
  <2>1. Dialling = {} /\ Served = {}
    BY DEF Init, Dialling, Served
  <2>. QED
    BY <2>1, FS_EmptySet, RelayAssumption DEF RelayAssumption, Init, SlotsInv
<1>3. ASSUME NEW f \in Flows
      PROVE  FlowInv(f)
  <2>1. /\ \A h \in Hops : q[f][h] = 0
        /\ sent[f]["app"] = 0 /\ sent[f]["srv"] = 0 /\ held[f] = 0
        /\ eof[f] = {} /\ gone[f] = {} /\ copies[f] = {} /\ desk[f] = "idle"
        /\ phone[f] = "none" /\ down[f] = "none" /\ socket[f] = "none"
        /\ \A c \in Copiers : hand[f][c] = 0
        /\ broken[f] = {} /\ quits = {} /\ Window \in Nat
    BY RelayAssumption DEF RelayAssumption, Init
  <2>2. \A side \in Sides : Units[f][side] \in Nat
    BY RelayAssumption DEF RelayAssumption
  <2>. QED
    BY <2>1, <2>2 DEF Hops, Copiers, Sides, FlowInv, Places, Counts, Up, Below, Held, UpEnds,
       DownEnds
<1>. QED
  BY <1>1, <1>2, <1>3 DEF Inv

LEMMA NextInv == Inv /\ [Next]_vars => Inv'
<1> SUFFICES ASSUME Inv, [Next]_vars PROVE Inv'
  OBVIOUS
<1>1. CASE UNCHANGED vars
  BY <1>1 DEF vars, data, desktop, handset, world, Inv, Types, SlotsInv, Dialling, Served,
     FlowInv, Places, Counts, Up, Below, Held, Whole, UpEnds, DownEnds, Drained, Undisturbed
<1>2. CASE SessionEnds \/ EngineStops
  <2>1. UNCHANGED <<data, desktop, handset>>
    BY <1>2 DEF SessionEnds, EngineStops
  <2>2. /\ alive' \in BOOLEAN /\ engine' \in {"up", "stopped"}
        /\ alive' => alive
        /\ Undisturbed' => Undisturbed
    <3>1. CASE SessionEnds
      <4>1. alive' = FALSE /\ engine' = engine
        BY <3>1 DEF SessionEnds
      <4>. QED
        BY <4>1 DEF Inv, Types, Undisturbed
    <3>2. CASE EngineStops
      <4>1. alive' = alive /\ engine = "up" /\ engine' = "stopped"
        BY <3>2 DEF EngineStops
      <4>. QED
        BY <4>1 DEF Inv, Types, Undisturbed
    <3>. QED
      BY <1>2, <3>1, <3>2
  <2>3. Types' /\ SlotsInv'
    BY <2>1, <2>2 DEF data, desktop, handset, Inv, Types, SlotsInv, Dialling, Served
  <2>4. ASSUME NEW f \in Flows
        PROVE  FlowInv(f)'
    <3>1. FlowInv(f)
      BY DEF Inv
    <3>. QED
      BY <2>1, <2>2, <3>1 DEF data, desktop, handset, FlowInv, Places, Counts, Up, Below,
         Held, Whole, UpEnds, DownEnds, Drained
  <2>. QED
    BY <2>3, <2>4 DEF Inv
<1>3. ASSUME NEW f \in Flows, FlowStep(f)
      PROVE  Inv'
  <2>1. Kept(f)
    BY <1>3, FlowKept DEF Inv
  <2>2. SlotsInv'
    BY <1>3, SlotsKept DEF Inv
  <2>3. ASSUME NEW g \in Flows
        PROVE  FlowInv(g)'
    BY <2>1, Frame DEF Kept, Inv
  <2>. QED
    BY <2>1, <2>2, <2>3 DEF Kept, Inv
<1>. QED
  BY <1>1, <1>2, <1>3 DEF Next, FlowStep

LEMMA AlwaysInv == Spec => []Inv
  BY InitInv, NextInv, PTL DEF Spec

-----------------------------------------------------------------------------
(* What it gives.                                                          *)

\* No hop holds more than its side may send, and no counter is negative
\* (pacing.go, RelayEngine.kt).
THEOREM RelayTypes == Spec => []TypeOK
<1>1. Inv => TypeOK
  <2> SUFFICES ASSUME Inv PROVE TypeOK
    OBVIOUS
  <2>1. Types
    BY DEF Inv
  <2>2. dials \in Nat /\ active \in Nat
    BY Finite, FS_CardinalityType DEF Inv, SlotsInv
  <2>3. ASSUME NEW f \in Flows
        PROVE  /\ \A h \in Hops : q[f][h] \in 0 .. Units[f][From(h)]
               /\ \A side \in Sides : sent[f][side] \in 0 .. Units[f][side]
               /\ held[f] \in 0 .. Units[f]["app"]
               /\ \A h \in {"strUp", "strDown"} : q[f][h] <= Window
               /\ \A c \in Copiers : hand[f][c] \in 0 .. Units[f][Handled(c)]
    <3>1. /\ \A h \in Hops : q[f][h] \in Nat
          /\ sent[f]["app"] \in Nat /\ sent[f]["srv"] \in Nat /\ held[f] \in Nat
          /\ \A c \in Copiers : hand[f][c] \in Nat
      BY DEF Inv, Types, Sides
    <3>2. Units[f]["app"] \in Nat /\ Units[f]["srv"] \in Nat
      BY RelayAssumption DEF RelayAssumption, Sides
    <3>3. Counts(f)
      BY DEF Inv, FlowInv
    <3>4. \A side \in Sides : sent[f][side] \in 0 .. Units[f][side]
      BY <3>1, <3>2, <3>3 DEF Counts, Sides
    <3>5. /\ q[f]["appUp"] <= Units[f]["app"] /\ q[f]["strUp"] <= Units[f]["app"]
          /\ q[f]["srvUp"] <= Units[f]["app"] /\ held[f] <= Units[f]["app"]
          /\ hand[f]["up"] <= Units[f]["app"] /\ hand[f]["toServer"] <= Units[f]["app"]
      BY <3>1, <3>2, <3>3 DEF Counts, Up, Hops, Copiers
    <3>6. /\ q[f]["srvDown"] <= Units[f]["srv"] /\ q[f]["strDown"] <= Units[f]["srv"]
          /\ q[f]["appDown"] <= Units[f]["srv"]
          /\ hand[f]["down"] <= Units[f]["srv"] /\ hand[f]["toClient"] <= Units[f]["srv"]
      BY <3>1, <3>2, <3>3 DEF Counts, Below, Hops, Copiers
    <3>7. \A h \in Hops : q[f][h] \in 0 .. Units[f][From(h)]
      BY <3>1, <3>2, <3>5, <3>6 DEF From, Hops
    <3>8. \A c \in Copiers : hand[f][c] \in 0 .. Units[f][Handled(c)]
      BY <3>1, <3>2, <3>5, <3>6 DEF Handled, Copiers
    <3>9. \A h \in {"strUp", "strDown"} : q[f][h] <= Window
      BY DEF Inv, FlowInv, Places
    <3>. QED
      BY <3>1, <3>2, <3>4, <3>5, <3>7, <3>8, <3>9
  <2>. QED
    BY <2>1, <2>2, <2>3 DEF TypeOK, Types
<1>. QED
  BY <1>1, AlwaysInv, PTL

\* The two counters are the flows they count and stay within their limits, for
\* any number of flows and whichever way each of them ends (pacing.go acquire
\* and release, RelayEngine.kt activeStreams).
THEOREM SlotsAreCounted == Spec => []SlotsMatch
<1>1. Inv => SlotsMatch
  BY RelayAssumption DEF RelayAssumption, Inv, SlotsInv, SlotsMatch, Dialling, Served
<1>. QED
  BY <1>1, AlwaysInv, PTL

\* In both directions an end of file comes after all the other side has sent,
\* however the copiers, the threads and other flows interleave (engine.go
\* pumpBidirectional, dialer.go SanitizedConn, RelayEngine.kt handleStream).
THEOREM EofComesLast == Spec => []EofIsComplete
<1>1. Inv => EofIsComplete
  <2> SUFFICES ASSUME Inv, Undisturbed PROVE EofIsComplete
    BY DEF EofIsComplete
  <2>1. ASSUME NEW f \in Flows, FlowInv(f)
        PROVE  /\ \A h \in Hops : q[f][h] \in Nat
               /\ sent[f]["app"] \in Nat /\ sent[f]["srv"] \in Nat
               /\ held[f] \in Nat /\ HeadLen \in Nat /\ alive
               /\ \A c \in Copiers : hand[f][c] \in Nat
    BY RelayAssumption DEF RelayAssumption, Inv, Types, Sides, Undisturbed
  <2>2. ASSUME NEW f \in Flows, Whole(f), "srvUp" \in eof[f], "srv" \notin gone[f],
               "app" \notin broken[f]
        PROVE  q[f]["srvUp"] = sent[f]["app"]
    <3>1. FlowInv(f)
      BY DEF Inv
    <3>2. Drained(f, "strUp") /\ Drained(f, "appUp")
      BY <2>1, <2>2, <3>1 DEF FlowInv, UpEnds, Drained
    <3>3. q[f]["srvUp"] + held[f] = sent[f]["app"]
      <4>1. hand[f]["up"] = 0 /\ hand[f]["toServer"] = 0
        BY <2>2, <3>1, <3>2 DEF FlowInv, Places, Drained
      <4>2. Up(f) = sent[f]["app"]
        BY <2>1, <2>2, <3>1 DEF FlowInv, Counts
      <4>. QED
        BY <3>2, <4>1, <4>2, Summands DEF Inv, Up, Drained
    <3>4. held[f] = 0
      <4>1. CASE f \in passes \/ ~Sanitize
        BY <3>1, <4>1 DEF FlowInv, Held
      <4>2. CASE f \notin passes /\ Sanitize
        BY <2>1, <2>2, <3>1, <3>2, <3>3, <4>2 DEF FlowInv, Held, Whole, Drained
      <4>. QED
        BY <4>1, <4>2
    <3>. QED
      BY <2>1, <3>1, <3>3, <3>4 DEF Hops
  <2>3. ASSUME NEW f \in Flows, "appDown" \in eof[f], gone[f] = {}
        PROVE  q[f]["appDown"] = sent[f]["srv"]
    <3>1. FlowInv(f)
      BY DEF Inv
    <3>2. Below(f) = sent[f]["srv"]
      BY <2>3, <3>1 DEF FlowInv, Counts
    <3>3. CASE sent[f]["srv"] = 0
      BY <3>2, <3>3, Summands DEF Inv, Below
    <3>4. CASE Drained(f, "strDown") /\ sent[f]["srv"] # 0
      <4>1. Drained(f, "srvDown")
        BY <2>3, <3>1, <3>4 DEF FlowInv, DownEnds, Places, Drained
      <4>2. hand[f]["down"] = 0 /\ hand[f]["toClient"] = 0
        BY <2>3, <3>1, <3>4 DEF FlowInv, Places, Drained
      <4>. QED
        BY <3>2, <3>4, <4>1, <4>2, Summands DEF Inv, Below, Drained
    <3>5. Drained(f, "strDown") \/ sent[f]["srv"] = 0
      BY <2>3, <3>1 DEF FlowInv, DownEnds, Places
    <3>. QED
      BY <3>3, <3>4, <3>5
  <2>. QED
    <3>1. \A f \in IF Sanitize THEN Http ELSE Flows : f \in Flows /\ Whole(f)
      BY RelayAssumption DEF RelayAssumption, Whole
    <3>. QED
      BY <2>2, <2>3, <3>1 DEF EofIsComplete
<1>. QED
  BY <1>1, AlwaysInv, PTL
=============================================================================
