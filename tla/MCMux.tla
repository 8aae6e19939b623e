-------------------------------- MODULE MCMux --------------------------------
(***************************************************************************)
(* Values for the constants of module Mux that a .cfg cannot write.        *)
(***************************************************************************)
EXTENDS MuxFlow

Both    == Ends
IniOnly == {"ini"}
RspOnly == {"rsp"}
Nobody  == {}

Good     == {GoodTarget}
AnyOne   == {GoodTarget, BadTarget}

\* What the ends write on stream 1, and "ini" on any other.
Limits(ini, rsp, others) ==
    [e \in Ends |-> [i \in Ids |->
        IF i = 1 THEN (IF e = "ini" THEN ini ELSE rsp)
        ELSE IF e = "ini" THEN others ELSE 0]]

WriteOneEach  == Limits(1, 1, 1)
WriteThreeOne == Limits(3, 1, 0)
WriteIni      == Limits(1, 0, 1)
=============================================================================
