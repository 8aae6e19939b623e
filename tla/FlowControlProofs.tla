-------------------------- MODULE FlowControlProofs --------------------------
(***************************************************************************)
(* The credit of a stream direction is safe for every window size.  The    *)
(* inductive invariant is FlowInv: the places hold natural numbers and     *)
(* together no more than the window.  That pushData never fails follows    *)
(* from it one step at a time.                                             *)
(***************************************************************************)
EXTENDS FlowControl, TLAPS

FlowInv ==
    /\ credit \in Nat /\ flight \in Nat /\ buffer \in Nat /\ owed \in Nat
    /\ NoUnitCreated

LEMMA FlowInitInv ==
  ASSUME WindowAssumption PROVE FlowInit => FlowInv /\ NeverOverrun
<1>1. FlowInit => FlowInv
  BY DEF WindowAssumption, FlowInit, FlowInv, NoUnitCreated
<1>2. FlowInit => NeverOverrun
  BY DEF FlowInit, NeverOverrun
<1> QED BY <1>1, <1>2

\* What may arrive fits beside what is already buffered.
LEMMA ArrivalFits ==
  ASSUME WindowAssumption, FlowInv, NEW n \in 1 .. flight PROVE ~(buffer + n > Window)
BY DEF WindowAssumption, FlowInv, NoUnitCreated

LEMMA LessIsLess ==
  ASSUME NEW a \in Nat, NEW b \in Nat, NEW c \in Nat, NEW d \in Nat,
         NEW x \in Nat, NEW y \in Nat, NEW w \in Nat,
         a + b + c + d <= w, x <= b, y <= d
  PROVE  a + x + c + y <= w
OBVIOUS

\* Each step moves units between two places, or loses some.
LEMMA FlowStepInv ==
  ASSUME WindowAssumption PROVE FlowInv /\ [FlowNext]_flowVars => FlowInv'
<1> SUFFICES ASSUME FlowInv, [FlowNext]_flowVars PROVE FlowInv'
    OBVIOUS
<1> USE DEF WindowAssumption, FlowInv, NoUnitCreated
<1>1. CASE Take
  BY <1>1 DEF Take
<1>2. CASE Arrive
  <2>1. PICK n \in 1 .. flight :
           flight' = flight - n /\ buffer' = buffer + n /\ credit' = credit
             /\ owed' = owed
    BY <1>2, ArrivalFits DEF Arrive
  <2> QED BY <2>1
<1>3. CASE Consume
  BY <1>3 DEF Consume
<1>4. CASE Restore
  BY <1>4 DEF Restore
<1>5. CASE Lose
  <2>1. flight' \in Nat /\ flight' <= flight /\ owed' \in Nat /\ owed' <= owed
    BY <1>5 DEF Lose
  <2>2. credit' = credit /\ buffer' = buffer
    BY <1>5 DEF Lose
  <2> QED BY <2>1, <2>2, LessIsLess
<1>6. CASE UNCHANGED flowVars
  BY <1>6 DEF flowVars
<1> QED BY <1>1, <1>2, <1>3, <1>4, <1>5, <1>6 DEF FlowNext

LEMMA OverrunStep ==
  ASSUME WindowAssumption PROVE FlowInv /\ NeverOverrun /\ [FlowNext]_flowVars => NeverOverrun'
<1> SUFFICES ASSUME FlowInv, NeverOverrun, [FlowNext]_flowVars
             PROVE  NeverOverrun'
    OBVIOUS
<1>1. CASE Arrive
  <2>1. overrun' = overrun
    BY <1>1, ArrivalFits DEF Arrive
  <2> QED BY <2>1 DEF NeverOverrun
<1>2. CASE ~Arrive
  <2>1. overrun' = overrun
    BY <1>2 DEF FlowNext, Take, Consume, Restore, Lose, flowVars
  <2> QED BY <2>1 DEF NeverOverrun
<1> QED BY <1>1, <1>2

\* For every window size, the four places together never hold more than the
\* window (stream.go Read, Write, addSendWindow).
THEOREM FlowNoUnitCreated ==
  ASSUME WindowAssumption PROVE FlowSpec => []NoUnitCreated
<1>1. FlowInv => NoUnitCreated
  BY DEF FlowInv
<1> QED BY <1>1, FlowInitInv, FlowStepInv, PTL DEF FlowSpec

\* For every window size, pushData's window check never fails (stream.go
\* pushData), so the session is never torn down for it.
THEOREM FlowNeverOverrun ==
  ASSUME WindowAssumption PROVE FlowSpec => []NeverOverrun
BY FlowInitInv, FlowStepInv, OverrunStep, PTL DEF FlowSpec
=============================================================================
