------------------------------- MODULE Resolver -------------------------------
(***************************************************************************)
(* DNS on the PC: the net stack's port 53 (handleUDP and handleTCP of      *)
(* internal/netstack/engine.go) and the resolver behind it                 *)
(* (internal/resolver/resolver.go), which asks one DoH server after        *)
(* another through the tunnel.                                             *)
(*                                                                         *)
(* A port is a UDP source port or a TCP connection of an application.  Its *)
(* queries are numbered in the order they are sent.  The stack makes an    *)
(* endpoint for the first of them, whose goroutine takes one query, serves *)
(* it and closes the endpoint; what arrives in between waits in the        *)
(* endpoint and is closed with it.                                         *)
(***************************************************************************)
EXTENDS Naturals, Sequences, FiniteSets

CONSTANTS
    Ports, Tcp,  \* the ports, and those that are TCP connections
    Servers,     \* DohUpstream.ServerURLs: "ip" or "name" for each URL's host
    MaxAsks      \* bound: queries sent from one port

ASSUME ResolverAssumption ==
    /\ Tcp \subseteq Ports /\ MaxAsks \in Nat
    /\ Servers \in Seq({"ip", "name"})

VARIABLES
    running,  \* is the engine up?
    asked,    \* asked[p]: queries sent from p
    box,      \* box[p]: the queries waiting in p's endpoint
    job,      \* job[p]: what the goroutine of p's endpoint does, or "none"
    query,    \* query[p]: the query it serves
    server,   \* server[p]: the server QueryWire is at
    failed,   \* history: failed[p]: the servers that have failed this query
    fate      \* history: fate[p][n]: what has become of query n of p

vars == <<running, asked, box, job, query, server, failed, fate>>

Put(f, p, v) == [f EXCEPT ![p] = v]
Settle(p, n, how) == fate' = [fate EXCEPT ![p][n] = how]

Init ==
    /\ running = TRUE
    /\ asked = [p \in Ports |-> 0] /\ box = [p \in Ports |-> <<>>]
    /\ job = [p \in Ports |-> "none"] /\ query = [p \in Ports |-> 0]
    /\ server = [p \in Ports |-> 1] /\ failed = [p \in Ports |-> {}]
    /\ fate = [p \in Ports |-> [n \in 1..MaxAsks |-> "unsent"]]

\* The goroutine returns: its endpoint is closed, with what waits in it.
Release(p) ==
    /\ job' = Put(job, p, "none") /\ box' = Put(box, p, <<>>)

-----------------------------------------------------------------------------
(* The net stack.                                                          *)

\* A query for port 53 arrives; a free port gets an endpoint, or none when
\* CreateEndpoint fails.
Ask(p) ==
    LET n == asked[p] + 1 IN
    /\ running /\ asked[p] < MaxAsks
    /\ asked' = Put(asked, p, n)
    /\ \/ /\ job[p] = "none"
          /\ job' = Put(job, p, "read") /\ box' = Put(box, p, <<n>>)
          /\ Settle(p, n, "taken")
       \/ /\ job[p] = "none"
          /\ Settle(p, n, "dropped") /\ UNCHANGED <<job, box>>
       \/ /\ job[p] # "none"
          /\ box' = [box EXCEPT ![p] = Append(@, n)]
          /\ Settle(p, n, "queued") /\ UNCHANGED job
    /\ UNCHANGED <<running, query, server, failed>>

\* One query is read, whatever else follows it.
ReadQuery(p) ==
    /\ job[p] = "read" /\ box[p] # <<>>
    /\ query' = Put(query, p, Head(box[p]))
    /\ box' = Put(box, p, Tail(box[p]))
    /\ job' = Put(job, p, "dial") /\ server' = Put(server, p, 1)
    /\ failed' = Put(failed, p, {})
    /\ UNCHANGED <<running, asked, fate>>

\* HandleTCP: a bad length, or the application closes its connection; ReadFrom
\* fails once the engine has stopped.
ReadFails(p) ==
    /\ job[p] = "read" /\ (p \in Tcp \/ ~running)
    /\ Release(p)
    /\ fate' = [fate EXCEPT ![p] = [n \in 1..MaxAsks |->
                   IF @[n] = "taken" THEN "dropped" ELSE @[n]]]
    /\ UNCHANGED <<running, asked, query, server, failed>>

\* The answer goes to the endpoint, if there still is one.
Reply(p) ==
    /\ job[p] = "write"
    /\ Release(p)
    /\ Settle(p, query[p], IF running THEN "answered" ELSE "dropped")
    /\ UNCHANGED <<running, asked, query, server, failed>>

\* Engine.Stop closes every endpoint; a goroutine goes on to its end.
StopEngine ==
    /\ running /\ running' = FALSE
    /\ box' = [p \in Ports |-> <<>>]
    /\ UNCHANGED <<asked, job, query, server, failed, fate>>

-----------------------------------------------------------------------------
(* QueryWire and dohPost.                                                  *)

\* Dial parses the host of the URL as an address and opens a stream to it;
\* what is there answers the POST or does not.
Dials(p) ==
    /\ job[p] = "dial" /\ server[p] <= Len(Servers)
    /\ Servers[server[p]] = "ip"
    /\ \E what \in {"post", "silence"} : job' = Put(job, p, what)
    /\ UNCHANGED <<running, asked, box, query, server, failed, fate>>

\* Fault: QueryWire returns the first error.
StopsAtFirst(p) == Len(Servers) + 1

\* The loop goes on with the next server.
NextServer(p) == server[p] + 1

\* The server has failed: "continue".
TriesNext(p) ==
    /\ job' = Put(job, p, "dial")
    /\ server' = Put(server, p, NextServer(p))
    /\ failed' = [failed EXCEPT ![p] = @ \cup {server[p]}]

\* The dial fails: a name is no address, the session is gone, the cap of the
\* dialer is reached.
DialFails(p) ==
    /\ job[p] = "dial" /\ server[p] <= Len(Servers)
    /\ TriesNext(p)
    /\ UNCHANGED <<running, asked, box, query, fate>>

\* A 200 with a body of twelve bytes or more, up to its end or to the error
\* that cut it off.
Answered(p) ==
    /\ job[p] = "post"
    /\ job' = Put(job, p, "write")
    /\ UNCHANGED <<running, asked, box, query, server, failed, fate>>

\* An error of the POST, a status other than 200, a body too short or long.
PostFails(p) ==
    /\ job[p] = "post"
    /\ TriesNext(p)
    /\ UNCHANGED <<running, asked, box, query, fate>>

\* Fault: the client has no Timeout.
Waits(p) == FALSE /\ UNCHANGED vars

\* The 5 s Timeout of newHTTPClient.
TimesOut(p) ==
    /\ job[p] \in {"post", "silence"}
    /\ TriesNext(p)
    /\ UNCHANGED <<running, asked, box, query, fate>>

\* "all DoH servers failed".
AllFailed(p) ==
    /\ job[p] = "dial" /\ server[p] > Len(Servers)
    /\ Release(p)
    /\ Settle(p, query[p], "refused")
    /\ UNCHANGED <<running, asked, query, server, failed>>

Serve(p) ==
    \/ ReadQuery(p) \/ Reply(p)
    \/ Dials(p) \/ DialFails(p) \/ Answered(p) \/ PostFails(p)
    \/ TimesOut(p) \/ AllFailed(p)

Next ==
    \/ StopEngine
    \/ \E p \in Ports : Ask(p) \/ Serve(p) \/ ReadFails(p)

\* Goroutines run and timeouts pass.  Nobody has to ask, and no server has to
\* answer.
Spec ==
    /\ Init /\ [][Next]_vars
    /\ \A p \in Ports :
          /\ WF_vars(ReadQuery(p) \/ ReadFails(p)) /\ WF_vars(Reply(p))
          /\ WF_vars(Dials(p) \/ DialFails(p)) /\ WF_vars(AllFailed(p))
          /\ WF_vars(TimesOut(p))

-----------------------------------------------------------------------------
\* A query that finds its port free has an end, whatever the servers do: an
\* answer, or the failure of all servers, or its loss with the connection or
\* the engine.  Until then its port is deaf, so without that end the port
\* would be lost to DNS (handleUDP, HandleTCP, newHTTPClient).
QueryIsServed ==
    \A p \in Ports : \A n \in 1..MaxAsks :
        fate[p][n] = "taken" ~> fate[p][n] \in {"answered", "refused", "dropped"}

\* One server is enough: an application is refused an answer only when every
\* server of the list has failed the very query it is refused, and nothing
\* is left of the query before on that port (QueryWire).
OneServerIsEnough ==
    \A p \in Ports :
        /\ \A n \in 1..MaxAsks :
              job[p] = "none" /\ query[p] = n /\ fate[p][n] = "refused" =>
                  failed[p] = DOMAIN Servers
        /\ job[p] = "write" => server[p] \notin failed[p]
=============================================================================
