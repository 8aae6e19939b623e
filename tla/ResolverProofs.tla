----------------------------- MODULE ResolverProofs -----------------------------
(***************************************************************************)
(* Proof that one DoH server is enough, for any number of ports, servers   *)
(* and queries.  The invariant says that the servers which have failed a   *)
(* query are exactly those before the one QueryWire is at.                 *)
(***************************************************************************)
EXTENDS Resolver, TLAPS

Serving == {"dial", "post", "silence", "write"}

ServerType ==
    /\ server \in [Ports -> Nat \ {0}]
    /\ job \in [Ports -> {"none", "read"} \cup Serving]
    /\ DOMAIN failed = Ports /\ DOMAIN fate = Ports /\ DOMAIN query = Ports
    /\ \A p \in Ports : DOMAIN fate[p] = 1 .. MaxAsks

\* The servers before the one QueryWire is at have failed the query.
TriedInv ==
    \A p \in Ports : job[p] \in Serving =>
        /\ failed[p] = 1 .. (server[p] - 1)
        /\ server[p] <= Len(Servers) + 1
        /\ job[p] # "dial" => server[p] <= Len(Servers)

\* Between two queries the last one has failed everywhere if it was refused.
RefusedInv ==
    \A p \in Ports : \A n \in 1 .. MaxAsks :
        job[p] \in {"none", "read"} /\ query[p] = n /\ fate[p][n] = "refused"
            => failed[p] = 1 .. Len(Servers)

ServerInv == ServerType /\ TriedInv /\ RefusedInv

LEMMA ServerInit == Init => ServerInv
BY DEF Init, ServerInv, ServerType, TriedInv, RefusedInv, Serving

LEMMA ServersType == Len(Servers) \in Nat /\ DOMAIN Servers = 1 .. Len(Servers)
BY ResolverAssumption DEF ResolverAssumption

\* The next server's turn.
LEMMA NextTurn ==
  ASSUME ServerInv, NEW p \in Ports, TriesNext(p), job[p] \in Serving,
         server[p] <= Len(Servers), UNCHANGED <<query, fate>>
  PROVE  ServerInv'
<1>1. /\ job' = [job EXCEPT ![p] = "dial"]
      /\ server' = [server EXCEPT ![p] = server[p] + 1]
      /\ failed' = [failed EXCEPT ![p] = @ \cup {server[p]}]
  BY DEF TriesNext, Put, NextServer
<1>2. ServerType'
  BY <1>1 DEF ServerInv, ServerType, Serving
<1>3. TriedInv'
  <2>1. SUFFICES ASSUME NEW q \in Ports, job'[q] \in Serving
                 PROVE  /\ failed'[q] = 1 .. (server'[q] - 1)
                        /\ server'[q] <= Len(Servers) + 1
                        /\ job'[q] # "dial" => server'[q] <= Len(Servers)
    BY DEF TriedInv
  <2>2. CASE q # p
    BY <1>1, <2>1, <2>2 DEF ServerInv, ServerType, TriedInv
  <2>3. CASE q = p
    <3>1. server'[p] = server[p] + 1 /\ failed'[p] = failed[p] \cup {server[p]}
      BY <1>1 DEF ServerInv, ServerType
    <3>2. failed[p] = 1 .. (server[p] - 1) /\ server[p] \in Nat \ {0}
      BY DEF ServerInv, ServerType, TriedInv
    <3>3. failed'[p] = 1 .. server[p] /\ server'[p] - 1 = server[p]
      BY <3>1, <3>2
    <3>4. job'[p] = "dial"
      BY <1>1 DEF ServerInv, ServerType
    <3> QED BY <2>3, <3>1, <3>2, <3>3, <3>4, ServersType
  <2> QED BY <2>2, <2>3
<1>4. RefusedInv'
  BY <1>1 DEF ServerInv, ServerType, RefusedInv
<1> QED BY <1>2, <1>3, <1>4 DEF ServerInv

LEMMA ServerStep == ServerInv /\ [Next]_vars => ServerInv'
<1> SUFFICES ASSUME ServerInv, [Next]_vars PROVE ServerInv'
  OBVIOUS
<1> USE DEF ServerInv, ServerType, TriedInv, RefusedInv, Serving, Put
<1>1. CASE StopEngine \/ UNCHANGED vars
  BY <1>1 DEF StopEngine, vars
<1>2. ASSUME NEW p \in Ports, Ask(p) PROVE ServerInv'
  <2>1. PICK n \in {asked[p] + 1}, how \in {"taken", "dropped", "queued"} :
          fate' = [fate EXCEPT ![p][n] = how]
    BY <1>2 DEF Ask, Settle
  <2>2. /\ UNCHANGED <<query, server, failed>>
        /\ job' = job \/ (job[p] = "none" /\ job' = [job EXCEPT ![p] = "read"])
    BY <1>2 DEF Ask
  <2>3. /\ ServerType' /\ TriedInv'
    BY <2>1, <2>2
  <2>4. \A q \in Ports : \A k \in 1 .. MaxAsks :
          fate'[q][k] = "refused" => fate[q][k] = "refused"
    BY <2>1
  <2>5. RefusedInv'
    BY <2>2, <2>4
  <2> QED BY <2>3, <2>5
<1>3. ASSUME NEW p \in Ports, ReadFails(p) PROVE ServerInv'
  BY <1>3 DEF ReadFails, Release
<1>4. ASSUME NEW p \in Ports, ReadQuery(p) PROVE ServerInv'
  BY <1>4, ServersType DEF ReadQuery
<1>5. ASSUME NEW p \in Ports, Reply(p) PROVE ServerInv'
  BY <1>5 DEF Reply, Release, Settle
<1>6. ASSUME NEW p \in Ports, Dials(p) \/ Answered(p) PROVE ServerInv'
  BY <1>6 DEF Dials, Answered
<1>7. ASSUME NEW p \in Ports, AllFailed(p) PROVE ServerInv'
  BY <1>7, ServersType DEF AllFailed, Release, Settle
<1>8. ASSUME NEW p \in Ports, DialFails(p) \/ PostFails(p) \/ TimesOut(p)
      PROVE  ServerInv'
  BY <1>8, NextTurn DEF DialFails, PostFails, TimesOut
<1> QED
  BY <1>1, <1>2, <1>3, <1>4, <1>5, <1>6, <1>7, <1>8 DEF Next, Serve

\* An application is refused an answer only when every server of the list has
\* failed the very query it is refused, and it is never answered from a server
\* that has failed (resolver.go QueryWire).
THEOREM OneIsEnough == Spec => []OneServerIsEnough
<1>1. ServerInv => OneServerIsEnough
  <2> SUFFICES ASSUME ServerInv PROVE OneServerIsEnough
    OBVIOUS
  <2>1. ASSUME NEW p \in Ports, NEW n \in 1 .. MaxAsks,
               job[p] = "none", query[p] = n, fate[p][n] = "refused"
        PROVE  failed[p] = DOMAIN Servers
    BY <2>1, ServersType DEF ServerInv, RefusedInv
  <2>2. ASSUME NEW p \in Ports, job[p] = "write"
        PROVE  server[p] \notin failed[p]
    <3>1. failed[p] = 1 .. (server[p] - 1) /\ server[p] \in Nat
      BY <2>2 DEF ServerInv, ServerType, TriedInv, Serving
    <3> QED BY <3>1
  <2> QED BY <2>1, <2>2 DEF OneServerIsEnough
<1> QED BY <1>1, ServerInit, ServerStep, PTL DEF Spec
=============================================================================
