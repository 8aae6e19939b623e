------------------------------ MODULE MCPairing ------------------------------
(* Values for the constants of Pairing that a .cfg cannot write.           *)
EXTENDS Pairing

\* ini writes a payload of three units, rsp one of one unit and one of none.
FewFrames == [e \in Ends |-> IF e = "ini" THEN <<3>> ELSE <<1, 0>>]

SameLimit == [e \in Ends |-> 3]
=============================================================================
