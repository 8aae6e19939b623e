----------------------------- MODULE FlowControl -----------------------------
(***************************************************************************)
(* What a TLMP stream promises about one of its directions: a credit of    *)
(* Window units circulates between the writer, the connection, the         *)
(* receive buffer and the reader.  Units may be lost with the connection,  *)
(* none is ever created, so the receiver never has to hold more than       *)
(* Window units and pushData never finds the window overrun.               *)
(***************************************************************************)
EXTENDS Integers

CONSTANT Window                 \* Config.InitialWindow

WindowAssumption == Window \in Nat

VARIABLES
    credit,    \* Stream.sendWin of the writer
    flight,    \* units taken from credit and not yet in the peer's buffer
    buffer,    \* len(Stream.buf) of the reader
    owed,      \* units read and not yet returned to the writer's credit
    overrun    \* pushData has found the window exceeded

flowVars == <<credit, flight, buffer, owed, overrun>>

FlowInit ==
    /\ credit = Window /\ flight = 0 /\ buffer = 0 /\ owed = 0
    /\ overrun = FALSE

\* Stream.Write takes n units of credit for a frame.
Take == \E n \in 1 .. credit :
    /\ credit' = credit - n /\ flight' = flight + n
    /\ UNCHANGED <<buffer, owed, overrun>>

\* Stream.pushData.
Arrive == \E n \in 1 .. flight :
    IF buffer + n > Window
    THEN overrun' = TRUE /\ flight' = flight - n
         /\ UNCHANGED <<credit, buffer, owed>>
    ELSE flight' = flight - n /\ buffer' = buffer + n
         /\ UNCHANGED <<credit, owed, overrun>>

\* Stream.Read empties part of the buffer.
Consume == \E n \in 1 .. buffer :
    /\ buffer' = buffer - n /\ owed' = owed + n
    /\ UNCHANGED <<credit, flight, overrun>>

\* Fault: more credit is restored than was returned.
RestoreTooMuch == \E n \in 1 .. owed :
    /\ owed' = owed - n /\ credit' = credit + n + 1
    /\ UNCHANGED <<flight, buffer, overrun>>

\* Stream.addSendWindow.
Restore == \E n \in 1 .. owed :
    /\ owed' = owed - n /\ credit' = credit + n
    /\ UNCHANGED <<flight, buffer, overrun>>

\* Frames lost with the connection, refused with an error, or addressed to a
\* stream that is no longer registered.
Lose ==
    /\ flight' \in 0 .. flight
    /\ owed' \in 0 .. owed
    /\ UNCHANGED <<credit, buffer, overrun>>

FlowNext == Take \/ Arrive \/ Consume \/ Restore \/ Lose

FlowSpec == FlowInit /\ [][FlowNext]_flowVars

FlowTypeOK ==
    /\ credit \in Nat /\ flight \in Nat /\ buffer \in Nat /\ owed \in Nat
    /\ overrun \in BOOLEAN

\* No unit is created, whatever the order of reads, writes, credits and
\* losses (stream.go Read, Write, addSendWindow): what the four places hold never exceeds the window.
NoUnitCreated == credit + flight + buffer + owed <= Window

\* A conforming writer never makes pushData fail (stream.go pushData).
NeverOverrun == ~overrun
=============================================================================
