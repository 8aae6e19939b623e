------------------------------- MODULE MuxFlow -------------------------------
(***************************************************************************)
(* How the streams of module Mux implement module FlowControl, and where   *)
(* the units of a stream's window are at any moment.                       *)
(***************************************************************************)
EXTENDS Mux

\* The units that frames of one kind and one stream carry, unit u of the frame
\* at place k of s being <<k, u>>.
OnWire(s, flag, i) ==
    UNION {{k} \X (1 .. s[k].n) : k \in {j \in DOMAIN s : s[j].flag = flag /\ s[j].id = i}}

\* How many are on their way to e.
InFlight(flag, e, i) == Cardinality(OnWire(link[e], flag, i))

\* The direction of stream i that e reads and Peer(e) writes.
Credited(e, i) == sendWin[Peer(e)][i]
Flying(e, i)   == wr[Peer(e)][i] + InFlight("DATA", e, i)
Buffered(e, i) == buf[e][i]
Owed(e, i)     == rd[e][i] + InFlight("WIN", Peer(e), i)

\* Stream 1 is opened by "ini": ToRsp is the direction of the request, ToIni
\* that of the response.
ToRsp == INSTANCE FlowControl WITH
    Window <- InitialWindow, credit <- Credited("rsp", 1),
    flight <- Flying("rsp", 1), buffer <- Buffered("rsp", 1),
    owed <- Owed("rsp", 1), overrun <- "rsp" \in fault
ToIni == INSTANCE FlowControl WITH
    Window <- InitialWindow, credit <- Credited("ini", 1),
    flight <- Flying("ini", 1), buffer <- Buffered("ini", 1),
    owed <- Owed("ini", 1), overrun <- "ini" \in fault

\* Both directions of stream 1 implement FlowControl: Write, pushData, Read
\* and addSendWindow move units between the places FlowControl names, and
\* errors and teardown only lose them.
FlowImplemented == ToRsp!FlowSpec /\ ToIni!FlowSpec

\* While the connection and the stream live at both ends, no unit of the
\* window is lost either: a writer that finds sendWin = 0 is waiting for
\* units that a Read, or a frame on its way, will return.
NoUnitLost ==
    \A e \in Ends, i \in Ids :
       (/\ up /\ \A d \in Ends : phase[d] = "open"
        /\ i \in live[e] /\ i \in live[Peer(e)])
       => Credited(e, i) + Flying(e, i) + Buffered(e, i) + Owed(e, i)
            = InitialWindow
=============================================================================
