------------------------------ MODULE DaemonProofs ------------------------------
(***************************************************************************)
(* Proofs about modules Failsafe and Daemon, for any number of mutations,  *)
(* sessions, crashes and failures.                                         *)
(*                                                                         *)
(* Part one is the journal: its inductive invariant is JournalInv, which   *)
(* besides HostIsCovered, stated with the entries that are outstanding in  *)
(* memory as well, says what RollbackAll has still to visit while it has   *)
(* seen no error.  Part two is the daemon: its steps are steps of          *)
(* Failsafe, so what the journal guarantees holds for it; "online" means   *)
(* what it says; and no attempt leaves anything open.                      *)
(***************************************************************************)
EXTENDS Daemon, SequenceTheorems, TLAPS

-----------------------------------------------------------------------------
(* Part one: the journal.                                                  *)


LEMMA InitType == Init => TypeOK
  BY FailsafeAssumption DEF FailsafeAssumption, Init, TypeOK, JournalType, HostType,
     WalkType, PhaseType, BudgetType, Muts, Entry, Off

\* Append and SubSeq on the journal.
LEMMA AddedEntry ==
  ASSUME NEW s \in Seq(Muts), NEW m \in Muts
  PROVE  /\ Append(s, m) \in Seq(Muts)
         /\ Len(Append(s, m)) = Len(s) + 1
         /\ Append(s, m)[Len(s) + 1] = m
         /\ \A k \in 1 .. Len(s) : Append(s, m)[k] = s[k]
  BY AppendProperties

LEMMA LoadedEntries ==
  ASSUME NEW s \in Seq(Muts), NEW n \in 0 .. Len(s)
  PROVE  /\ SubSeq(s, 1, n) \in Seq(Muts)
         /\ Len(SubSeq(s, 1, n)) = n
         /\ \A k \in 1 .. n : SubSeq(s, 1, n)[k] = s[k]
<1>1. \A k \in 1 .. n : s[k] \in Muts
  OBVIOUS
<1>2. /\ SubSeq(s, 1, n) \in Seq(Muts)
      /\ Len(SubSeq(s, 1, n)) = IF 1 <= n THEN n - 1 + 1 ELSE 0
      /\ \A k \in 1 .. n - 1 + 1 : SubSeq(s, 1, n)[k] = s[1 + k - 1]
  BY <1>1, SubSeqProperties
<1> QED BY <1>2

\* A failing command or write stays within the bound.
LEMMA FailsType ==
  ASSUME TypeOK, NEW what, Fails(what)
  PROVE  faults' \in 0 .. MaxFaults
  BY FailsafeAssumption DEF FailsafeAssumption, TypeOK, BudgetType, Fails

LEMMA TypeStep == TypeOK /\ [Next]_vars => TypeOK'
<1> SUFFICES ASSUME TypeOK, [Next]_vars PROVE TypeOK'
  OBVIOUS
<1> USE FailsafeAssumption DEF FailsafeAssumption, TypeOK, JournalType, HostType,
      WalkType, PhaseType, BudgetType, Muts, Entry, Off
<1>1. CASE UndoSucceeds
  BY <1>1 DEF UndoSucceeds, journal, budget
<1>2. CASE UndoFails
  <2>1. faults' \in 0 .. MaxFaults
    BY <1>2, FailsType DEF UndoFails
  <2>2. PICK i \in todo :
          \/ /\ firstErr' = "seen" /\ todo' = todo \ {i}
             /\ UNCHANGED <<pc, at, lost>>
          \/ /\ pc' = "mark" /\ at' = i /\ lost' = lost \cup {entries[i]}
             /\ UNCHANGED <<todo, firstErr>>
    BY <1>2 DEF UndoFails
  <2>3. /\ pc = "walk"
        /\ UNCHANGED <<entries, done, fileLen, fileDone, sys, step, why, stopping,
                       sessions, crashes>>
    BY <1>2 DEF UndoFails, journal
  <2>a. JournalType'
    BY <2>1, <2>2, <2>3
  <2>b. HostType'
    <3>1. entries[i] \in Muts
      OBVIOUS
    <3>2. lost' = lost \/ lost' = lost \cup {entries[i]}
      BY <2>2
    <3> QED BY <2>3, <3>1, <3>2
  <2>c. WalkType'
    BY <2>1, <2>2, <2>3
  <2>d. PhaseType'
    BY <2>1, <2>2, <2>3
  <2>e. BudgetType'
    BY <2>1, <2>2, <2>3
  <2> QED BY <2>a, <2>b, <2>c, <2>d, <2>e
<1>3. CASE Mark
  <2>1. faults' \in 0 .. MaxFaults
    BY <1>3, FailsType DEF Mark, NotPersisted
  <2>2. /\ firstErr' \in {"none", "seen"}
        /\ \/ fileLen' = Len(entries) /\ fileDone' = done'
           \/ UNCHANGED <<fileLen, fileDone>>
    BY <1>3 DEF Mark, NotPersisted
  <2>3. /\ pc = "mark" /\ pc' = "walk"
        /\ done' = done \cup {at} /\ todo' = todo \ {at}
        /\ UNCHANGED <<entries, sys, lost, step, why, at, stopping, sessions,
                       crashes>>
    BY <1>3 DEF Mark, system
  <2>a. JournalType'
    <3>1. at \in 1 .. Len(entries)
      BY <2>3
    <3>2. done' \subseteq 1 .. Len(entries)
      BY <2>3, <3>1
    <3>3. CASE fileLen' = Len(entries) /\ fileDone' = done'
      BY <2>3, <3>2, <3>3
    <3>4. CASE UNCHANGED <<fileLen, fileDone>>
      BY <2>3, <3>2, <3>4
    <3> QED BY <2>2, <3>3, <3>4
  <2>b. HostType'
    BY <2>1, <2>2, <2>3
  <2>c. WalkType'
    BY <2>1, <2>2, <2>3
  <2>d. PhaseType'
    BY <2>1, <2>2, <2>3
  <2>e. BudgetType'
    BY <2>1, <2>2, <2>3
  <2> QED BY <2>a, <2>b, <2>c, <2>d, <2>e
<1>4. CASE ApplySucceeds
  BY <1>4 DEF ApplySucceeds, journal, walk, budget
<1>5. CASE ApplyFails
  BY <1>5, FailsType DEF ApplyFails, journal, system, walk
<1>6. CASE Record
  <2>1. /\ entries' \in Seq(Muts) /\ Len(entries') = Len(entries) + 1
    BY <1>6, AddedEntry DEF Record
  <2>2. faults' \in 0 .. MaxFaults
    BY <1>6, FailsType DEF Record, NotPersisted
  <2>3. \/ /\ fileLen' = Len(entries) + 1 /\ fileDone' = done
           /\ lost' = lost \ {step}
           /\ \/ pc' = "online" /\ step' = step
              \/ pc' = "apply" /\ step' = step + 1 /\ step # Last
        \/ /\ UNCHANGED <<fileLen, fileDone, step>>
           /\ lost' = lost \cup {step} /\ pc' = "idle"
    BY <1>6 DEF Record, NotPersisted, Saved, AfterStep
  <2>4. UNCHANGED <<done, sys, why, todo, at, firstErr, stopping, sessions, crashes>>
    BY <1>6 DEF Record, walk
  <2>a. JournalType'
    <3>1. done' \subseteq 1 .. Len(entries')
      BY <2>1, <2>4
    <3>2. CASE fileLen' = Len(entries) + 1 /\ fileDone' = done
      BY <2>1, <2>4, <3>1, <3>2
    <3>3. CASE UNCHANGED <<fileLen, fileDone>>
      <4>1. fileLen' \in 0 .. Len(entries')
        BY <2>1, <3>3
      <4>2. fileDone' \subseteq (1 .. fileLen') \cap done'
        BY <2>4, <3>3
      <4> QED BY <2>1, <3>1, <4>1, <4>2
    <3> QED BY <2>3, <3>2, <3>3
  <2>b. HostType'
    <3>1. step' \in Muts
      BY <2>3
    <3>2. lost' \subseteq Muts
      BY <2>3
    <3> QED BY <2>4, <3>1, <3>2
  <2>c. WalkType'
    <3>1. todo' \subseteq 1 .. Len(entries') /\ at' \in (1 .. Len(entries')) \cup {0}
      BY <2>1, <2>4
    <3>2. pc' # "mark"
      BY <2>3
    <3> QED BY <3>1, <3>2
  <2>d. PhaseType'
    BY <2>3, <2>4
  <2>e. BudgetType'
    BY <2>2, <2>4
  <2> QED BY <2>a, <2>b, <2>c, <2>d, <2>e
<1>7. CASE Start
  <2>1. /\ entries' \in Seq(Muts) /\ Len(entries') = fileLen
    BY <1>7, LoadedEntries DEF Start
  <2> QED BY <1>7, <2>1 DEF Start, StartRollback, Outstanding, system, budget
<1>8. CASE SessionEnds
  BY <1>8 DEF SessionEnds, StartRollback, Outstanding, journal, system, budget
<1>9. CASE Connect
  BY <1>9 DEF Connect, journal, system, walk
<1>10. CASE Crash
  BY <1>10 DEF Crash, journal, walk
<1>11. CASE Reconciled \/ TornDown \/ Stop \/ Stopped
  BY <1>11 DEF Reconciled, TornDown, Stop, Stopped, journal, system, walk, budget
<1>12. CASE UNCHANGED vars
  BY <1>12 DEF vars, journal, system, walk, budget
<1> QED
  BY <1>1, <1>2, <1>3, <1>4, <1>5, <1>6, <1>7, <1>8, <1>9, <1>10, <1>11, <1>12
  DEF Next, Daemon

-----------------------------------------------------------------------------
LEMMA InitJournal == Init => JournalInv
  BY DEF Init, JournalInv, Covered, Marking, Visiting, Applying, StartIsHonest

\* An undo that runs takes its mutation out of force.
LEMMA UndoStep == TypeOK /\ JournalInv /\ UndoSucceeds => JournalInv'
<1> SUFFICES ASSUME TypeOK, JournalInv, UndoSucceeds PROVE JournalInv'
  OBVIOUS
<1> USE DEF TypeOK, PhaseType, Off
<1>1. PICK i \in todo : /\ at' = i /\ sys' = sys \ {entries[i]}
                         /\ lost' = lost \ {entries[i]}
  BY DEF UndoSucceeds
<1>2. /\ pc = "walk" /\ pc' = "mark"
      /\ UNCHANGED <<entries, done, fileLen, todo, step, why, firstErr>>
  BY DEF UndoSucceeds, journal
<1>3. sys' \ lost' \subseteq sys \ lost /\ entries[i] \notin sys' \ lost'
  BY <1>1
<1>4. Covered'
  BY <1>2, <1>3 DEF JournalInv, Covered, Listed
<1>5. Marking'
  BY <1>1, <1>2, <1>3 DEF Marking
<1>6. Visiting'
  BY <1>2, <1>3 DEF JournalInv, Visiting, ToVisit
<1>7. Applying' /\ StartIsHonest'
  BY <1>2 DEF Applying, StartIsHonest
<1> QED BY <1>4, <1>5, <1>6, <1>7 DEF JournalInv

\* An undo that fails is left outstanding, the second one given up.
LEMMA UndoFailStep == TypeOK /\ JournalInv /\ UndoFails => JournalInv'
<1> SUFFICES ASSUME TypeOK, JournalInv, UndoFails PROVE JournalInv'
  OBVIOUS
<1>1. PICK i \in todo :
        \/ /\ firstErr' = "seen" /\ UNCHANGED <<pc, at, lost>>
        \/ /\ firstErr # "none" /\ UNCHANGED firstErr
           /\ pc' = "mark" /\ at' = i /\ lost' = lost \cup {entries[i]}
  BY DEF UndoFails, Continues
<1>2. /\ pc = "walk"
      /\ UNCHANGED <<entries, done, fileLen, sys, step, why>>
  BY DEF UndoFails, journal
<1>3. firstErr' # "none"
  BY <1>1
<1>4. Covered'
  BY <1>1, <1>2 DEF JournalInv, Covered, Listed
<1>5. Marking'
  BY <1>1, <1>2 DEF Marking
<1>6. Visiting'
  BY <1>3 DEF Visiting
<1>7. Applying' /\ StartIsHonest'
  BY <1>1, <1>2 DEF Applying, StartIsHonest
<1> QED BY <1>4, <1>5, <1>6, <1>7 DEF JournalInv

\* Marking an entry drops nothing that is in force.
LEMMA MarkStep == TypeOK /\ JournalInv /\ Mark => JournalInv'
<1> SUFFICES ASSUME TypeOK, JournalInv, Mark PROVE JournalInv'
  OBVIOUS
<1>1. /\ pc = "mark" /\ pc' = "walk"
      /\ done' = done \cup {at} /\ todo' = todo \ {at}
      /\ UNCHANGED <<entries, sys, lost, step, why>>
  BY DEF Mark, system
<1>2. /\ fileLen' = Len(entries) \/ fileLen' = fileLen
      /\ firstErr' = firstErr \/ firstErr' = "seen"
  BY DEF Mark, NotPersisted
<1>3. entries[at] \notin sys \ lost
  BY <1>1 DEF JournalInv, Marking
<1>4. Covered'
  <2>1. SUFFICES ASSUME NEW m \in sys \ lost PROVE Listed(m)'
    BY <1>1 DEF Covered
  <2>2. PICK k \in (1 .. fileLen) \ done : entries[k] = m
    BY <1>1 DEF JournalInv, Covered, Listed
  <2>3. k # at
    BY <1>3, <2>2
  <2>4. k \in 1 .. fileLen'
    BY <1>2 DEF TypeOK, JournalType
  <2> QED BY <1>1, <2>2, <2>3, <2>4 DEF Listed
<1>5. Visiting'
  <2>1. SUFFICES ASSUME why = "reconcile", firstErr = "none", NEW m \in sys \ lost
                 PROVE  ToVisit(m)'
    BY <1>1, <1>2 DEF Visiting
  <2>2. PICK k \in todo : entries[k] = m
    BY <1>1, <2>1 DEF JournalInv, Visiting, ToVisit
  <2>3. k # at
    BY <1>3, <2>2
  <2> QED BY <1>1, <2>2, <2>3 DEF ToVisit
<1>6. Marking' /\ Applying' /\ StartIsHonest'
  BY <1>1 DEF Marking, Applying, StartIsHonest
<1> QED BY <1>4, <1>5, <1>6 DEF JournalInv
\* Steps that touch neither the journal nor the system.
LEMMA QuietStep ==
  ASSUME JournalInv, UNCHANGED <<entries, done, fileLen, sys, lost, why>>,
         pc # "record", pc' \notin {"walk", "mark"},
         pc' \in {"apply", "record", "online"} => why = "session",
         pc' = "idle" /\ why = "reconcile" => sys \subseteq lost
  PROVE  JournalInv'
BY DEF JournalInv, Covered, Marking, Visiting, Applying, StartIsHonest, Listed

\* RollbackAll starts with every outstanding entry.
LEMMA StartStep == TypeOK /\ JournalInv /\ Start => JournalInv'
<1> SUFFICES ASSUME TypeOK, JournalInv, Start PROVE JournalInv'
  OBVIOUS
<1>1. /\ pc \in Off /\ pc' = "walk" /\ UNCHANGED <<sys, lost, fileLen>>
      /\ done' = fileDone /\ todo' = (1 .. fileLen) \ fileDone
  BY DEF Start, StartRollback, Outstanding, system
<1>2. \A k \in 1 .. fileLen : entries'[k] = entries[k]
  BY LoadedEntries DEF Start, TypeOK, JournalType
<1>3. \A m \in sys \ lost : \E k \in (1 .. fileLen) \ fileDone : entries'[k] = m
  <2>1. SUFFICES ASSUME NEW m \in sys \ lost
                 PROVE  \E k \in (1 .. fileLen) \ fileDone : entries'[k] = m
    OBVIOUS
  <2>2. PICK k \in (1 .. fileLen) \ done : entries[k] = m
    BY <1>1 DEF JournalInv, Covered, Listed, Off
  <2>3. k \notin fileDone
    BY <2>2 DEF TypeOK, JournalType
  <2> QED BY <1>2, <2>2, <2>3
<1>4. Covered'
  BY <1>1, <1>3 DEF Covered, Listed
<1>5. Visiting'
  BY <1>1, <1>3 DEF Visiting, ToVisit
<1>6. Marking' /\ Applying' /\ StartIsHonest'
  BY <1>1 DEF Marking, Applying, StartIsHonest
<1> QED BY <1>4, <1>5, <1>6 DEF JournalInv

\* A teardown's rollback leaves what it finds covered.
LEMMA EndsStep == TypeOK /\ JournalInv /\ SessionEnds => JournalInv'
BY DEF SessionEnds, StartRollback, journal, system, JournalInv, Covered, Marking,
       Visiting, Applying, StartIsHonest, Listed

\* A mutation is in the file from Add on, or lost.
LEMMA RecordStep == TypeOK /\ JournalInv /\ Record => JournalInv'
<1> SUFFICES ASSUME TypeOK, JournalInv, Record PROVE JournalInv'
  OBVIOUS
<1> DEFINE n == Len(entries)
<1>1. /\ pc = "record" /\ pc' \in {"apply", "online", "idle"} /\ why = "session"
      /\ UNCHANGED <<done, sys, why>>
  BY DEF Record, AfterStep, walk, JournalInv, Applying
<1>2. /\ entries'[n + 1] = step
      /\ \A k \in 1 .. n : entries'[k] = entries[k]
  BY AddedEntry DEF Record, TypeOK, JournalType, HostType
<1>3. n + 1 \notin done /\ fileLen \in 0 .. n /\ n \in Nat
  BY DEF TypeOK, JournalType, Entry
<1>4. Covered'
  <2>1. SUFFICES ASSUME NEW m \in sys \ lost', m \notin lost \/ m = step
                 PROVE  Listed(m)'
    BY <1>1 DEF Covered, Record
  <2>2. \/ fileLen' = n + 1
        \/ fileLen' = fileLen /\ step \in lost'
    BY DEF Record, Saved, NotPersisted
  <2>3. CASE m = step
    BY <1>1, <1>2, <1>3, <2>2, <2>3 DEF Listed
  <2>4. CASE m # step
    <3>1. PICK k \in (1 .. fileLen) \ done : entries[k] = m
      BY <2>1, <2>4 DEF JournalInv, Covered, Listed
    <3>2. k \in 1 .. fileLen' /\ k \in 1 .. n
      BY <1>3, <2>2
    <3> QED BY <1>1, <1>2, <3>1, <3>2 DEF Listed
  <2> QED BY <2>3, <2>4
<1>5. Marking' /\ Visiting' /\ Applying' /\ StartIsHonest'
  BY <1>1 DEF Marking, Visiting, Applying, StartIsHonest
<1> QED BY <1>4, <1>5 DEF JournalInv

LEMMA CrashStep == TypeOK /\ JournalInv /\ Crash => JournalInv'
<1> SUFFICES ASSUME TypeOK, JournalInv, Crash PROVE JournalInv'
  OBVIOUS
<1>1. /\ pc' = "crashed" /\ UNCHANGED <<entries, done, fileLen, sys, why>>
      /\ lost' = IF pc = "record" THEN lost \cup {step} ELSE lost
  BY DEF Crash, journal
<1>2. Covered'
  BY <1>1 DEF JournalInv, Covered, Listed
<1>3. Marking' /\ Visiting' /\ Applying' /\ StartIsHonest'
  BY <1>1 DEF Marking, Visiting, Applying, StartIsHonest
<1> QED BY <1>2, <1>3 DEF JournalInv

LEMMA JournalStep == TypeOK /\ JournalInv /\ [Next]_vars => JournalInv'
<1> SUFFICES ASSUME TypeOK, JournalInv, [Next]_vars PROVE JournalInv'
  OBVIOUS
<1>1. CASE ApplySucceeds
  <2>1. /\ pc = "apply" /\ pc' = "record" /\ sys' = sys \cup {step}
        /\ UNCHANGED <<entries, done, fileLen, lost, step, why>>
    BY <1>1 DEF ApplySucceeds, journal
  <2>2. Covered'
    BY <2>1 DEF JournalInv, Covered, Listed
  <2> QED
    BY <2>1, <2>2 DEF JournalInv, Marking, Visiting, Applying, StartIsHonest
<1>2. CASE ApplyFails
  <2>1. why = "session"
    BY <1>2 DEF ApplyFails, JournalInv, Applying
  <2> QED BY <1>2, <2>1, QuietStep DEF ApplyFails, journal, system
<1>3. CASE Connect
  BY <1>3 DEF Connect, journal, system, JournalInv, Covered, Marking, Visiting,
     Applying, StartIsHonest, Listed
<1>4. CASE Reconciled
  <2>1. firstErr = "none" => sys \subseteq lost
    BY <1>4 DEF Reconciled, JournalInv, Visiting, ToVisit
  <2> QED
    BY <1>4, <2>1, QuietStep DEF Reconciled, ReconcileIsClean, journal, system
<1>5. CASE TornDown \/ Stopped
  BY <1>5, QuietStep DEF TornDown, Stopped, journal, system
<1>6. CASE Stop \/ UNCHANGED vars
  BY <1>6 DEF Stop, vars, journal, system, walk, JournalInv, Covered, Marking,
     Visiting, Applying, StartIsHonest, Listed, ToVisit
<1> QED
  BY <1>1, <1>2, <1>3, <1>4, <1>5, <1>6, UndoStep, UndoFailStep, MarkStep,
     StartStep, EndsStep, RecordStep, CrashStep
  DEF Next, Daemon

\* Every reachable state of the daemon, its journal and the system is well
\* typed (journal.go, manager.go, daemon.go).
THEOREM FailsafeType == Spec => []TypeOK
BY InitType, TypeStep, PTL DEF Spec

LEMMA JournalHolds == Spec => []JournalInv
BY InitType, TypeStep, InitJournal, JournalStep, PTL DEF Spec

\* What is listed in memory and file is listed in the file.
LEMMA CoveredOnFile == TypeOK /\ JournalInv => HostIsCovered
BY DEF TypeOK, JournalType, JournalInv, Covered, HostIsCovered, Listed, OnFile

\* Whatever fails, whenever the process is killed, a mutation in force is in
\* the journal file, but for the three the code lets go (journal.go Add,
\* MarkState, RollbackAll; manager.go Apply).
THEOREM HostCovered == Spec => []HostIsCovered
BY FailsafeType, JournalHolds, CoveredOnFile, PTL

\* A daemon that goes on after its start has undone all the journal listed
\* (daemon.go Run, journal.go RollbackAll).
THEOREM HonestStart == Spec => []StartIsHonest
<1>1. JournalInv => StartIsHonest
  BY DEF JournalInv
<1> QED BY <1>1, JournalHolds, PTL
-----------------------------------------------------------------------------
(* While nothing fails.  Then what is in force is among what a rollback,   *)
(* of a start or of a teardown, has still to visit, but for the mutation   *)
(* whose argument vector failed first; and the daemon is idle or stopped   *)
(* only after a rollback.                                                  *)

Unfailed == faults = 0 =>
    /\ UndoIsArgv \/ firstErr = "none"
    /\ pc \in {"walk", "mark"} =>
          \E x \in Muts : \A m \in sys \ lost :
             ToVisit(m) \/ (firstErr = "seen" /\ UndoIsArgv /\ m = x)
    /\ pc \in {"idle", "stopped"} => LittleRemains

LEMMA UnfailedStep ==
  ASSUME TypeOK, JournalInv, Unfailed, [Next]_vars
  PROVE  Unfailed'
<1> DEFINE Left1(x) == \A m \in sys \ lost :
                 ToVisit(m) \/ (firstErr = "seen" /\ UndoIsArgv /\ m = x)
<1>1. SUFFICES ASSUME faults' = 0
               PROVE  /\ (UndoIsArgv \/ firstErr = "none")'
                      /\ (pc \in {"walk", "mark"} => \E x \in Muts : Left1(x))'
                      /\ (pc \in {"idle", "stopped"} => LittleRemains)'
  BY DEF Unfailed
<1>2. \A what : ~Fails(what)
  BY <1>1 DEF Fails, TypeOK, BudgetType
<1>3. faults = 0 \/ UNCHANGED vars
  BY <1>1, <1>2 DEF Next, Daemon, UndoSucceeds, UndoFails, Mark, NotPersisted, ApplySucceeds,
     ApplyFails, Record, Reconciled, Connect, SessionEnds, TornDown, Stopped, Start,
     Stop, Crash, budget
<1>4. faults = 0
  BY <1>1, <1>3 DEF vars, budget
<1>5. /\ UndoIsArgv \/ firstErr = "none"
      /\ pc \in {"walk", "mark"} => \E x \in Muts : Left1(x)
      /\ pc \in {"idle", "stopped"} => LittleRemains
  BY <1>4 DEF Unfailed
<1>t. 1 \in Muts /\ \A i \in todo : entries[i] \in Muts
  BY FailsafeAssumption DEF FailsafeAssumption, Muts, TypeOK, JournalType, WalkType, Entry
<1>6. CASE UndoSucceeds
  BY <1>5, <1>6 DEF UndoSucceeds, ToVisit, journal
<1>7. CASE UndoFails
  <2>1. PICK i \in todo :
          \/ /\ firstErr = "none" /\ firstErr' = "seen" /\ todo' = todo \ {i}
             /\ UNCHANGED <<pc, at, lost>>
          \/ /\ pc' = "mark" /\ lost' = lost \cup {entries[i]}
             /\ UNCHANGED <<todo, firstErr>>
    BY <1>7 DEF UndoFails, Continues
  <2>2. pc = "walk" /\ UndoIsArgv /\ UNCHANGED <<entries, sys>>
    BY <1>2, <1>7 DEF UndoFails, journal
  <2>3. PICK x \in Muts : Left1(x)
    BY <1>5, <2>2
  <2>4. CASE firstErr = "none"
    <3>1. \A m \in sys \ lost : ToVisit(m)
      BY <2>3, <2>4
    <3>2. CASE firstErr' = "seen" /\ todo' = todo \ {i} /\ UNCHANGED <<pc, at, lost>>
      <4>1. PICK y \in Muts : y = entries[i]
        BY <1>t
      <4>2. Left1(y)'
        BY <2>2, <3>1, <3>2, <4>1 DEF ToVisit
      <4> QED BY <2>2, <3>2, <4>2
    <3>3. CASE pc' = "mark" /\ lost' = lost \cup {entries[i]} /\ UNCHANGED <<todo, firstErr>>
      <4>1. Left1(x)'
        BY <2>2, <3>1, <3>3 DEF ToVisit
      <4> QED BY <2>2, <3>3, <4>1
    <3> QED BY <2>1, <3>2, <3>3
  <2>5. CASE firstErr # "none"
    <3>1. pc' = "mark" /\ lost' = lost \cup {entries[i]} /\ UNCHANGED <<todo, firstErr>>
      BY <2>1, <2>5
    <3>2. Left1(x)'
      BY <2>2, <2>3, <3>1 DEF ToVisit
    <3> QED BY <2>2, <3>1, <3>2
  <2> QED BY <2>4, <2>5
<1>8. CASE Mark
  <2>1. /\ pc = "mark" /\ pc' = "walk" /\ todo' = todo \ {at}
        /\ UNCHANGED <<entries, sys, lost, firstErr>>
    BY <1>2, <1>8 DEF Mark, NotPersisted, system
  <2>2. entries[at] \notin sys \ lost
    BY <2>1 DEF JournalInv, Marking
  <2> QED BY <1>5, <2>1, <2>2 DEF ToVisit
<1>9. CASE Start
  <2>1. /\ pc \in Off /\ pc' = "walk" /\ firstErr' = "none" /\ UNCHANGED <<sys, lost>>
        /\ todo' = (1 .. fileLen) \ fileDone
    BY <1>9 DEF Start, StartRollback, Outstanding, system
  <2>2. \A k \in 1 .. fileLen : entries'[k] = entries[k]
    BY <1>9, LoadedEntries DEF Start, TypeOK, JournalType
  <2>3. \A m \in sys \ lost : \E k \in (1 .. fileLen) \ done : entries[k] = m
    BY <2>1 DEF JournalInv, Covered, Listed, Off
  <2>4. \A m \in sys' \ lost' : ToVisit(m)'
    BY <2>1, <2>2, <2>3 DEF ToVisit, TypeOK, JournalType
  <2> QED BY <1>t, <2>1, <2>4
<1>10. CASE SessionEnds
  <2>1. /\ pc = "online" /\ pc' = "walk" /\ firstErr' = "none"
        /\ UNCHANGED <<sys, lost, entries>> /\ todo' = Entry \ done
    BY <1>10 DEF SessionEnds, StartRollback, Outstanding, journal, system
  <2>2. \A m \in sys \ lost : \E k \in (1 .. fileLen) \ done : entries[k] = m
    BY <2>1 DEF JournalInv, Covered, Listed
  <2>3. \A m \in sys' \ lost' : ToVisit(m)'
    BY <2>1, <2>2 DEF ToVisit, TypeOK, JournalType, Entry
  <2> QED BY <1>t, <2>1, <2>3
<1>11. CASE Reconciled \/ TornDown
  <2>1. /\ pc = "walk" /\ todo = {} /\ pc' \in {"idle", "failed"}
        /\ UNCHANGED <<sys, lost, firstErr>>
    BY <1>11 DEF Reconciled, TornDown, system, walk
  <2>2. PICK x \in Muts : \A m \in sys \ lost : firstErr = "seen" /\ UndoIsArgv /\ m = x
    BY <1>5, <2>1 DEF ToVisit
  <2>3. LittleRemains'
    BY <2>1, <2>2 DEF LittleRemains
  <2> QED BY <1>5, <2>1, <2>3
<1>12. CASE Stop \/ Stopped
  <2>1. /\ UNCHANGED <<entries, sys, lost, todo, firstErr>>
        /\ pc' = pc \/ (pc = "idle" /\ pc' = "stopped")
    BY <1>12 DEF Stop, Stopped, journal, system, walk
  <2> QED BY <1>5, <2>1 DEF ToVisit, LittleRemains
<1>13. CASE ApplySucceeds \/ Connect \/ Crash
  BY <1>5, <1>13 DEF ApplySucceeds, Connect, Crash, walk
<1>14. CASE Record
  BY <1>2, <1>5, <1>14 DEF Record, NotPersisted, AfterStep, walk
<1>15. CASE UNCHANGED vars
  BY <1>5, <1>15 DEF vars, journal, system, walk, ToVisit, LittleRemains
<1>16. ~ApplyFails
  BY <1>2 DEF ApplyFails
<1> QED
  BY <1>6, <1>7, <1>8, <1>9, <1>10, <1>11, <1>12, <1>13, <1>14, <1>15, <1>16
  DEF Next, Daemon

\* A stop that follows no failure, and a reconciliation after a crash, leave
\* nothing in force that the journal knew of, where undo commands run as
\* commands, and no more than one mutation where they are argument vectors
\* (daemon.go Run, connect; journal.go RollbackAll).
THEOREM StopRestores == Spec => []Restored
<1>1. Init => Unfailed
  BY DEF Init, Unfailed, LittleRemains
<1>2. TypeOK /\ JournalInv /\ Unfailed /\ [Next]_vars => Unfailed'
  BY UnfailedStep
<1>3. Unfailed => Restored
  BY DEF Unfailed, Restored
<1> QED BY <1>1, <1>2, <1>3, FailsafeType, JournalHolds, PTL DEF Spec

\* Where undo commands run, memory and file agree, the outstanding entries are in the order of
\* Apply's list, and a rollback visits all of them.  Where they are argument
\* vectors nothing is ever taken out of force.
Left == Entry \ done

Agreed == fileLen = Len(entries) /\ fileDone = done
Sorted == \A i, j \in Left : i < j => entries[i] < entries[j]
Ahead  == pc \in {"apply", "record"} => \A i \in Left : entries[i] < step
Behind ==
    /\ pc \in {"walk", "mark"} => todo = Left
    /\ pc \in {"idle", "stopped"} => Left = {}
Reached ==
    /\ pc = "apply" => 1 .. (step - 1) \subseteq sys
    /\ pc = "record" => 1 .. step \subseteq sys
Prefix == \A m \in sys \ lost : \A k \in 1 .. m : k \in sys

NeverUndone == \A m \in sys : \A k \in 1 .. m : k \in sys

Orderly == Agreed /\ Sorted /\ Ahead /\ Behind /\ Reached /\ Prefix

LEMMA OrderStep ==
  ASSUME ~UndoIsArgv, TypeOK, JournalInv, Unfailed, faults = 0 => Orderly,
         [Next]_vars, faults' = 0
  PROVE  Orderly'
<1> USE DEF Left, Entry
<1>2. \A what : ~Fails(what)
  BY DEF Fails, TypeOK, BudgetType
<1>3. faults = 0 \/ UNCHANGED vars
  BY <1>2 DEF Next, Daemon, UndoSucceeds, UndoFails, Mark, NotPersisted, ApplySucceeds,
     ApplyFails, Record, Reconciled, Connect, SessionEnds, TornDown, Stopped, Start,
     Stop, Crash, budget
<1>4. faults = 0 /\ Orderly
  BY <1>3 DEF vars, budget
<1>5. Agreed /\ Sorted /\ Ahead /\ Behind /\ Reached /\ Prefix
  BY <1>4 DEF Orderly
<1>t. /\ entries \in Seq(Muts) /\ done \subseteq 1 .. Len(entries) /\ Len(entries) \in Nat
      /\ step \in Muts /\ sys \subseteq Muts /\ lost \subseteq Muts
      /\ \A i \in 1 .. Len(entries) : entries[i] \in Muts
      /\ Muts \subseteq Int
  <2>1. entries \in Seq(Muts) => \A i \in 1 .. Len(entries) : entries[i] \in Muts
    OBVIOUS
  <2>2. Muts \subseteq Int
    BY DEF Muts
  <2> QED BY <2>1, <2>2 DEF TypeOK, JournalType, HostType
<1>6. CASE UndoSucceeds
  <2>1. PICK i \in todo : /\ Newest(i)
                          /\ sys' = sys \ {entries[i]} /\ lost' = lost \ {entries[i]}
    BY <1>6 DEF UndoSucceeds
  <2>2. /\ pc = "walk" /\ pc' = "mark"
        /\ UNCHANGED <<entries, done, fileLen, fileDone, todo, step>>
    BY <1>6 DEF UndoSucceeds, journal
  <2>3. ASSUME NEW m \in sys' \ lost', NEW k \in 1 .. m
        PROVE  k \in sys'
    <3>1. m \in sys \ lost /\ m # entries[i]
      BY <2>1
    <3>2. PICK j \in todo : entries[j] = m
      BY <1>4, <2>2, <3>1 DEF Unfailed, ToVisit
    <3>3. i \in Left /\ j \in Left /\ j <= i /\ j # i
      BY <1>5, <2>1, <2>2, <3>1, <3>2 DEF Behind, Newest
    <3>4. m < entries[i]
      BY <1>5, <1>t, <3>2, <3>3 DEF Sorted
    <3>5. k # entries[i]
      BY <1>t, <3>1, <3>3, <3>4
    <3> QED BY <1>5, <2>1, <3>1, <3>5 DEF Prefix
  <2> QED
    BY <1>5, <2>2, <2>3 DEF Orderly, Agreed, Sorted, Ahead, Behind, Reached, Prefix
<1>7. CASE Mark
  <2>1. /\ pc = "mark" /\ pc' = "walk"
        /\ done' = done \cup {at} /\ todo' = todo \ {at}
        /\ fileLen' = Len(entries) /\ fileDone' = done'
        /\ UNCHANGED <<entries, sys, lost, step>>
    BY <1>2, <1>7 DEF Mark, NotPersisted, system
  <2> QED
    BY <1>5, <2>1 DEF Orderly, Agreed, Sorted, Ahead, Behind, Reached, Prefix
<1>8. CASE Start
  <2>1. /\ pc' = "walk" /\ UNCHANGED <<sys, lost, fileLen, fileDone>>
        /\ done' = fileDone /\ todo' = (1 .. fileLen) \ fileDone
    BY <1>8 DEF Start, StartRollback, Outstanding, system
  <2>2. /\ Len(entries') = Len(entries)
        /\ \A k \in 1 .. Len(entries) : entries'[k] = entries[k]
    BY <1>5, <1>8, <1>t, LoadedEntries DEF Start, Agreed
  <2> QED
    BY <1>5, <2>1, <2>2 DEF Orderly, Agreed, Sorted, Ahead, Behind, Reached, Prefix
<1>9. CASE SessionEnds
  <2>1. /\ pc' = "walk" /\ todo' = Left
        /\ UNCHANGED <<entries, done, fileLen, fileDone, sys, lost>>
    BY <1>9 DEF SessionEnds, StartRollback, Outstanding, journal, system
  <2> QED
    BY <1>5, <2>1 DEF Orderly, Agreed, Sorted, Ahead, Behind, Reached, Prefix
<1>10. CASE Reconciled \/ TornDown \/ Stop \/ Stopped \/ Crash \/ UNCHANGED vars
  <2>1. /\ UNCHANGED <<entries, done, fileLen, fileDone, sys, step, todo>>
        /\ lost \subseteq lost'
        /\ \/ pc' = pc
           \/ pc = "walk" /\ todo = {} /\ pc' \in {"idle", "failed"}
           \/ pc = "idle" /\ pc' = "stopped"
           \/ pc' = "crashed"
    BY <1>10 DEF Reconciled, TornDown, Stop, Stopped, Crash, vars, journal, system, walk
  <2> QED
    BY <1>5, <2>1 DEF Orderly, Agreed, Sorted, Ahead, Behind, Reached, Prefix
<1>11. CASE Connect
  <2>1. /\ pc = "idle" /\ pc' = "apply" /\ step' = 1
        /\ UNCHANGED <<entries, done, fileLen, fileDone, sys, lost>>
    BY <1>11 DEF Connect, journal, system
  <2> QED
    BY <1>5, <2>1 DEF Orderly, Agreed, Sorted, Ahead, Behind, Reached, Prefix
<1>12. CASE ApplySucceeds
  <2>1. /\ pc = "apply" /\ pc' = "record" /\ sys' = sys \cup {step}
        /\ UNCHANGED <<entries, done, fileLen, fileDone, lost, step>>
    BY <1>12 DEF ApplySucceeds, journal
  <2>2. 1 .. step \subseteq sys'
    BY <1>5, <1>t, <2>1 DEF Reached
  <2>3. Prefix'
    BY <1>5, <2>1, <2>2 DEF Prefix
  <2> QED
    BY <1>5, <2>1, <2>2, <2>3 DEF Orderly, Agreed, Sorted, Ahead, Behind, Reached
<1>13. CASE Record
  <2>1. /\ pc = "record" /\ UNCHANGED <<done, sys>>
        /\ fileLen' = Len(entries) + 1 /\ fileDone' = done /\ lost' = lost \ {step}
        /\ \/ pc' = "online" /\ step' = step
           \/ pc' = "apply" /\ step' = step + 1
    BY <1>2, <1>13 DEF Record, Saved, NotPersisted, AfterStep
  <2>2. /\ Len(entries') = Len(entries) + 1 /\ entries'[Len(entries) + 1] = step
        /\ \A k \in 1 .. Len(entries) : entries'[k] = entries[k]
    BY <1>13, <1>t, AddedEntry DEF Record
  <2>3. \A i \in Left' : i = Len(entries) + 1 \/ i \in Left
    BY <1>t, <2>1, <2>2
  <2>4. \A i \in Left : entries[i] < step
    BY <1>5, <2>1 DEF Ahead
  <2>5. Sorted'
    <3>1. SUFFICES ASSUME NEW i \in Left', NEW j \in Left', i < j
                   PROVE  entries'[i] < entries'[j]
      BY DEF Sorted
    <3>2. i \in Left
      BY <1>t, <2>2, <2>3, <3>1
    <3>3. CASE j \in Left
      BY <1>5, <2>2, <3>1, <3>2, <3>3 DEF Sorted
    <3>4. CASE j = Len(entries) + 1
      BY <2>2, <2>4, <3>2, <3>4
    <3> QED BY <2>3, <3>3, <3>4
  <2>6. Ahead'
    <3>1. SUFFICES ASSUME pc' = "apply", NEW i \in Left'
                   PROVE  entries'[i] < step'
      BY <2>1 DEF Ahead
    <3>2. step' = step + 1
      BY <2>1, <3>1
    <3>3. CASE i \in Left
      BY <1>t, <2>2, <2>4, <3>2, <3>3 DEF Muts
    <3>4. CASE i = Len(entries) + 1
      BY <1>t, <2>2, <3>2, <3>4 DEF Muts
    <3> QED BY <2>3, <3>3, <3>4
  <2>7. 1 .. step \subseteq sys
    BY <1>5, <2>1 DEF Reached
  <2>8. Reached' /\ Prefix'
    BY <1>5, <1>t, <2>1, <2>7 DEF Reached, Prefix, Muts
  <2> QED BY <2>1, <2>2, <2>5, <2>6, <2>8 DEF Orderly, Agreed, Behind
<1>14. ~UndoFails /\ ~ApplyFails
  BY <1>2 DEF UndoFails, ApplyFails
<1> QED
  BY <1>6, <1>7, <1>8, <1>9, <1>10, <1>11, <1>12, <1>13, <1>14 DEF Next, Daemon

LEMMA NeverUndoneStep ==
  ASSUME UndoIsArgv, TypeOK, Reached, NeverUndone, [Next]_vars
  PROVE  Reached' /\ NeverUndone'
<1>t. step \in Nat \ {0} /\ Muts = 1 .. Last
  BY DEF TypeOK, HostType, Muts
<1>1. CASE ApplySucceeds
  <2>1. pc = "apply" /\ pc' = "record" /\ sys' = sys \cup {step} /\ step' = step
    BY <1>1 DEF ApplySucceeds
  <2>2. 1 .. step \subseteq sys'
    BY <1>t, <2>1 DEF Reached
  <2> QED BY <2>1, <2>2 DEF Reached, NeverUndone
<1>2. CASE Record
  <2>1. /\ pc = "record" /\ sys' = sys
        /\ \/ pc' \in {"online", "idle"} \/ (pc' = "apply" /\ step' = step + 1)
    BY <1>2 DEF Record, AfterStep
  <2> QED BY <1>t, <2>1 DEF Reached, NeverUndone
<1>3. CASE Connect
  BY <1>3 DEF Connect, system, Reached, NeverUndone
<1>4. ~UndoSucceeds
  BY DEF UndoSucceeds
<1>5. CASE \/ UndoFails \/ Mark \/ ApplyFails \/ Reconciled \/ SessionEnds \/ TornDown
           \/ Stopped \/ Start \/ Stop \/ Crash \/ UNCHANGED vars
  <2>1. UNCHANGED <<sys, step>> /\ (pc' = pc \/ pc' \notin {"apply", "record"})
    BY <1>5 DEF UndoFails, Mark, ApplyFails, Reconciled, SessionEnds, StartRollback,
       TornDown, Stopped, Start, Stop, Crash, vars, system
  <2> QED BY <2>1 DEF Reached, NeverUndone
<1> QED BY <1>1, <1>2, <1>3, <1>4, <1>5 DEF Next, Daemon

\* While nothing fails, crashes apart, physical DNS points into the tunnel only
\* while the adapter has its address and the default routes, be undo lists
\* commands or argument vectors (manager.go Apply, journal.go RollbackAll).
THEOREM PrefixHolds == Spec => []OverlayIsPrefix
<1> DEFINE Inv == /\ Unfailed
                  /\ ~UndoIsArgv => (faults = 0 => Orderly)
                  /\ UndoIsArgv => Reached /\ NeverUndone
<1>1. Init => Inv
  <2>1. Init => Unfailed
    BY DEF Init, Unfailed, LittleRemains
  <2>2. Init => Orderly /\ NeverUndone
    BY DEF Init, Orderly, Agreed, Sorted, Ahead, Behind, Reached, Prefix, Left, Entry,
       NeverUndone
  <2> QED BY <2>1, <2>2 DEF Orderly
<1>2. TypeOK /\ JournalInv /\ Inv /\ [Next]_vars => Inv'
  BY UnfailedStep, OrderStep, NeverUndoneStep
<1>3. Inv => OverlayIsPrefix
  BY DEF Orderly, Prefix, NeverUndone, OverlayIsPrefix
<1> QED BY <1>1, <1>2, <1>3, FailsafeType, JournalHolds, PTL DEF Spec

-----------------------------------------------------------------------------
(* Part two: the daemon.                                                   *)

-----------------------------------------------------------------------------
(* The invariant.                                                          *)

Working == {"apply", "record", "online"}
Undoing == {"walk", "mark"}

\* Where Run and connect are while Failsafe's part of the daemon runs.
PlaceInv ==
    /\ pc \in Working => run = "apply"
    /\ pc \in Undoing => <<why, run>> \in {<<"reconcile", "boot">>, <<"teardown", "apply">>}
    /\ pc = "idle" => run \in Stages \cup
          {"ready", "loop", "wait", "failing", "failed", "ending", "ended"}

Everything == {"conn", "session", "injector", "adapter", "engine"}

\* What is open at each place.
OpenAt == [boot |-> {}, loop |-> {}, wait |-> {}, failed |-> {}, ended |-> {},
           transport |-> {}, dial |-> {}, handshake |-> {"conn"},
           adapter |-> Deferred, engine |-> Everything \ {"engine"},
           ready |-> Everything, apply |-> Everything, ending |-> Deferred]

\* A failing attempt still holds some of what it is to close.
HeldInv ==
    IF run = "failing" THEN held \subseteq Deferred
    ELSE held = IF run = "apply" /\ pc \in Undoing THEN Everything \ {"engine"}
                ELSE OpenAt[run]

\* "online" is reported from the end of Apply to the end of the teardown.
StatusInv ==
    status = "online" => pc = "online" \/ (pc \in Undoing /\ why = "teardown")

\* How far Apply has come.
CoverInv ==
    /\ pc = "apply" => 1 .. (step - 1) \subseteq sys
    /\ pc = "record" => 1 .. step \subseteq sys
    /\ pc = "online" => Muts \subseteq sys

\* The last entries of the journal are those of the session, and its rollback
\* has taken nothing out of force that it has yet to visit.
TailInv ==
    /\ pc \in {"apply", "record"} =>
          /\ Len(entries) >= step - 1
          /\ \A m \in 1 .. (step - 1) : entries[Len(entries) - (step - 1) + m] = m
    /\ pc = "online" \/ (pc \in Undoing /\ why = "teardown") =>
          /\ Len(entries) >= Last
          /\ \A m \in Muts : entries[EntryOf(m)] = m
    /\ pc \in Undoing /\ why = "teardown" => \A m \in Muts : m \in sys \/ Undone(m)

AttemptInv == pc \notin Off => PlaceInv /\ HeldInv /\ StatusInv /\ CoverInv

Base == TypeOK /\ JournalInv /\ AttemptInv

-----------------------------------------------------------------------------
(* Every step of the daemon keeps it.                                      *)

LEMMA AttemptInit == DaemonInit => AttemptInv
BY DEF DaemonInit, Init, AttemptInv, Off

\* The steps of Run outside an attempt.
LEMMA RunSteps ==
  ASSUME Base, Serve \/ Attempt \/ Returned \/ Wake \/ Quit \/ Finish \/ LinkMoves
  PROVE  AttemptInv'
<1> USE DEF Base, AttemptInv, PlaceInv, HeldInv, StatusInv, CoverInv, OpenAt, Working,
      Undoing, Stages, After, Off
<1>1. CASE Serve
  <2>1. run = "boot" /\ held = {} /\ status # "online"
    BY <1>1 DEF Serve, Reconciled
  <2>2. /\ pc' \in {"idle", "failed"} /\ UNCHANGED <<held, status>>
        /\ pc' = "idle" => run' = "loop"
    BY <1>1 DEF Serve, Reconciled
  <2> QED BY <2>1, <2>2
<1>2. CASE Attempt
  BY <1>2 DEF Attempt, vars
<1>3. CASE Returned
  BY <1>3 DEF Returned, AfterError, vars
<1>4. CASE Wake
  BY <1>4 DEF Wake, vars
<1>5. CASE Quit
  BY <1>5 DEF Quit, Stopped
<1>6. CASE Finish
  BY <1>6 DEF Finish, Deferred, vars
<1>7. CASE LinkMoves
  BY <1>7 DEF LinkMoves, vars
<1> QED BY <1>1, <1>2, <1>3, <1>4, <1>5, <1>6, <1>7

\* The stages of connect before Apply.
LEMMA StageSteps ==
  ASSUME Base, Pass \/ Fail \/ CallApply
  PROVE  AttemptInv'
<1> USE DEF Base, AttemptInv, PlaceInv, HeldInv, StatusInv, CoverInv, OpenAt, Working,
      Undoing, Stages, After, Off, Everything, Deferred
<1>1. CASE Pass
  BY <1>1 DEF Pass, Opened, vars
<1>2. CASE Fail
  BY <1>2 DEF Fail, Abandon, ClosedAt, vars
<1>3. CASE CallApply
  BY <1>3 DEF CallApply, Connect
<1> QED BY <1>1, <1>2, <1>3

\* Apply puts one mutation after the other in force.
LEMMA ApplySteps ==
  ASSUME Base, ApplyStep
  PROVE  AttemptInv'
<1> USE DEF Base, AttemptInv, PlaceInv, HeldInv, StatusInv, OpenAt, Working,
      Undoing, Stages, Off, Everything, Deferred
<1>1. /\ pc \in {"apply", "record"} /\ run = "apply" /\ held = Everything
      /\ status # "online"
  BY DEF ApplyStep, ApplySucceeds, ApplyFails, Record, After
<1>2. /\ pc' \in {"apply", "record", "online", "idle"}
      /\ pc' = "idle" => run' = "failing" /\ held' = Deferred
      /\ pc' # "idle" => UNCHANGED <<run, held>>
      /\ status' = "online" => pc' = "online"
  BY <1>1 DEF ApplyStep, ApplySucceeds, ApplyFails, Record, AfterStep, Abandon, ClosedAt,
     WhileApplying
<1>3. PlaceInv' /\ HeldInv' /\ StatusInv'
  BY <1>1, <1>2 DEF After
<1>4. CoverInv'
  <2> USE DEF CoverInv, TypeOK, HostType, Muts
  <2>1. CASE ApplySucceeds
    BY <2>1 DEF ApplySucceeds
  <2>2. CASE ApplyFails
    BY <2>2 DEF ApplyFails
  <2>3. CASE Record
    <3>1. /\ 1 .. step \subseteq sys /\ sys' = sys
          /\ \/ pc' = "online" /\ step = Last
             \/ pc' = "apply" /\ step' = step + 1
             \/ pc' = "idle"
      BY <2>3 DEF Record, AfterStep
    <3> QED BY <3>1
  <2> QED BY <2>1, <2>2, <2>3 DEF ApplyStep
<1> QED BY <1>3, <1>4

\* The end of a session, its rollback and the rest of connect.
LEMMA TeardownSteps ==
  ASSUME Base, EndSession \/ Unwind \/ Leave
  PROVE  AttemptInv'
<1> USE DEF Base, AttemptInv, PlaceInv, HeldInv, StatusInv, CoverInv, OpenAt, Working,
      Undoing, Stages, After, Off, Everything, Deferred
<1>1. CASE EndSession
  BY <1>1 DEF EndSession, SessionEnds, StartRollback
<1>2. CASE Unwind
  <2>1. pc \in Undoing /\ pc' \in Undoing /\ UNCHANGED <<why, run, held, status>>
    BY <1>2 DEF Unwind, UndoSucceeds, UndoFails, Mark, own
  <2> QED BY <2>1
<1>3. CASE Leave
  BY <1>3 DEF Leave, TornDown
<1> QED BY <1>1, <1>2, <1>3

\* Requests, the end of the process and its start.
LEMMA OuterSteps ==
  ASSUME Base, Boot \/ Reconnect \/ Interrupt \/ Kill \/ UNCHANGED all
  PROVE  AttemptInv'
<1> USE DEF Base, AttemptInv, Off
<1>1. CASE Boot
  BY <1>1 DEF Boot, Start, StartRollback, PlaceInv, HeldInv, StatusInv, CoverInv, OpenAt,
     Working, Undoing
<1>2. CASE Kill
  BY <1>2 DEF Kill, Crash
<1>3. CASE Reconnect \/ Interrupt \/ UNCHANGED all
  <2>1. UNCHANGED <<pc, why, run, held, status, sys, step>>
    BY <1>3 DEF Reconnect, Interrupt, Stop, own, all, vars, system
  <2> QED BY <2>1 DEF PlaceInv, HeldInv, StatusInv, CoverInv
<1> QED BY <1>1, <1>2, <1>3

LEMMA AttemptSteps == Base /\ [DaemonNext]_all => AttemptInv'
BY RunSteps, StageSteps, ApplySteps, TeardownSteps, OuterSteps DEF DaemonNext, Step

-----------------------------------------------------------------------------
(* The daemon implements Failsafe.                                         *)

LEMMA StepImplements == [DaemonNext]_all => [Next]_vars
BY DEF DaemonNext, Step, Serve, Attempt, Returned, Wake, Quit, Pass, Fail, CallApply,
   ApplyStep, Leave, Finish, LinkMoves, Unwind, EndSession, Boot, Reconnect, Interrupt, Kill, Next,
   Daemon, all

\* Whatever Run and connect do, the journal, the routes and the process take
\* the steps module Failsafe allows (daemon.go Run, connect).
THEOREM DaemonKeepsTheJournal == DaemonSpec => Spec
<1>1. DaemonInit => Init
  BY DEF DaemonInit
<1> QED BY <1>1, StepImplements, PTL DEF DaemonSpec, Spec
LEMMA AttemptHolds == DaemonSpec => [](TypeOK /\ JournalInv /\ AttemptInv)
<1>1. Base /\ [DaemonNext]_all => Base'
  BY StepImplements, TypeStep, JournalStep, AttemptSteps DEF Base
<1>2. DaemonInit => Base
  BY InitType, InitJournal, AttemptInit DEF Base, DaemonInit
<1>3. Base => TypeOK /\ JournalInv /\ AttemptInv
  BY DEF Base
<1> QED BY <1>1, <1>2, <1>3, PTL DEF DaemonSpec

\* The journal's end and the session's rollback.
LEMMA TailStep ==
  ASSUME TypeOK, TailInv, pc = "online" => Muts \subseteq sys, [Next]_vars
  PROVE  TailInv'
<1> USE DEF Undoing
<1>t. /\ Len(entries) \in Nat /\ step \in Nat \ {0} /\ Last \in Nat \ {0}
      /\ Muts = 1 .. Last /\ todo \subseteq 1 .. Len(entries)
      /\ \A i \in 1 .. Len(entries) : entries[i] \in Muts
  BY FailsafeAssumption DEF FailsafeAssumption, TypeOK, JournalType, HostType, WalkType,
     Entry, Muts
<1>1. CASE UndoSucceeds
  <2>1. PICK i \in todo : Newest(i) /\ at' = i /\ sys' = sys \ {entries[i]}
    BY <1>1 DEF UndoSucceeds
  <2>2. pc = "walk" /\ pc' = "mark" /\ UNCHANGED <<entries, todo, why>>
    BY <1>1 DEF UndoSucceeds, journal
  <2>3. ASSUME why = "teardown", NEW m \in Muts, m \notin sys'
        PROVE  Undone(m)'
    <3>1. CASE m \notin sys
      BY <2>2, <2>3, <3>1 DEF TailInv, Undone, EntryOf
    <3>2. CASE entries[i] = m /\ EntryOf(m) \in todo
      <4>1. EntryOf(m) <= i /\ i \in 1 .. Len(entries)
        BY <1>t, <2>1, <3>2 DEF Newest
      <4>2. PICK n \in Muts : i = EntryOf(n)
        <5>1. i - (Len(entries) - Last) \in Muts
          BY <1>t, <2>3, <4>1 DEF EntryOf
        <5>2. i = EntryOf(i - (Len(entries) - Last))
          BY <1>t, <4>1 DEF EntryOf
        <5> QED BY <5>1, <5>2
      <4>3. n = m
        BY <2>2, <2>3, <3>2, <4>2 DEF TailInv
      <4> QED BY <2>1, <2>2, <4>2, <4>3 DEF Undone, EntryOf
    <3>3. CASE EntryOf(m) \notin todo
      BY <2>2, <3>3 DEF Undone, EntryOf
    <3> QED BY <2>1, <2>3, <3>1, <3>2, <3>3
  <2> QED BY <2>2, <2>3 DEF TailInv, EntryOf
<1>2. CASE UndoFails
  <2>1. /\ pc = "walk" /\ UNCHANGED <<entries, sys, why>>
        /\ \/ pc' = "walk" /\ todo' \subseteq todo
           \/ pc' = "mark" /\ todo' = todo
    BY <1>2 DEF UndoFails, journal
  <2> QED BY <2>1 DEF TailInv, Undone, EntryOf
<1>3. CASE Mark
  <2>1. pc = "mark" /\ pc' = "walk" /\ todo' = todo \ {at} /\ UNCHANGED <<entries, sys, why>>
    BY <1>3 DEF Mark, system
  <2> QED BY <2>1 DEF TailInv, Undone, EntryOf
<1>4. CASE Record
  <2>1. /\ pc = "record" /\ UNCHANGED why
        /\ \/ pc' = "online" /\ step = Last
           \/ pc' = "apply" /\ step' = step + 1
           \/ pc' = "idle"
    BY <1>4 DEF Record, AfterStep
  <2>2. /\ Len(entries') = Len(entries) + 1 /\ entries'[Len(entries) + 1] = step
        /\ \A k \in 1 .. Len(entries) : entries'[k] = entries[k]
    BY <1>4, AddedEntry DEF Record, TypeOK, JournalType, HostType
  <2>3. /\ Len(entries) >= step - 1
        /\ \A m \in 1 .. (step - 1) : entries[Len(entries) - (step - 1) + m] = m
    BY <2>1 DEF TailInv
  <2>4. ASSUME NEW m \in 1 .. step
        PROVE  entries'[Len(entries') - step + m] = m
    <3>1. CASE m = step
      BY <1>t, <2>2, <3>1
    <3>2. CASE m # step
      <4>1. /\ m \in 1 .. (step - 1)
            /\ Len(entries') - step + m = Len(entries) - (step - 1) + m
            /\ Len(entries) - (step - 1) + m \in 1 .. Len(entries)
        BY <1>t, <2>2, <2>3, <3>2
      <4> QED BY <2>2, <2>3, <4>1
    <3> QED BY <3>1, <3>2
  <2>5. Len(entries') >= step
    BY <1>t, <2>2, <2>3
  <2>6. CASE pc' = "online" /\ step = Last
    BY <1>t, <2>4, <2>5, <2>6 DEF TailInv, EntryOf, Muts
  <2>7. CASE pc' = "apply" /\ step' = step + 1
    <3>1. step' - 1 = step
      BY <1>t, <2>7
    <3> QED BY <2>4, <2>5, <2>7, <3>1 DEF TailInv
  <2>8. CASE pc' = "idle"
    BY <2>8 DEF TailInv
  <2> QED BY <2>1, <2>6, <2>7, <2>8
<1>5. CASE ApplySucceeds
  BY <1>5 DEF ApplySucceeds, journal, TailInv
<1>6. CASE Connect
  BY <1>t, <1>6 DEF Connect, journal, TailInv
<1>7. CASE SessionEnds
  <2>1. pc = "online" /\ pc' = "walk" /\ UNCHANGED <<entries, sys>>
    BY <1>7 DEF SessionEnds, StartRollback, journal, system
  <2> QED BY <1>t, <2>1 DEF TailInv, EntryOf
<1>8. CASE Start
  BY <1>8 DEF Start, StartRollback, TailInv
<1>9. CASE ApplyFails \/ Reconciled \/ TornDown \/ Stopped \/ Crash
  BY <1>9 DEF ApplyFails, Reconciled, TornDown, Stopped, Crash, TailInv
<1>10. CASE Stop \/ UNCHANGED vars
  BY <1>10 DEF Stop, vars, journal, system, walk, TailInv, Undone, EntryOf
<1> QED
  BY <1>1, <1>2, <1>3, <1>4, <1>5, <1>6, <1>7, <1>8, <1>9, <1>10 DEF Next, Daemon

\* In the daemon as it runs, too, a mutation in force is in the journal file,
\* but for the three the code lets go (daemon.go connect, journal.go Add).
THEOREM DaemonIsCovered == DaemonSpec => []HostIsCovered
BY DaemonKeepsTheJournal, HostCovered, PTL

\* An attempt is made only after a start that has undone all the journal file
\* listed (daemon.go Run).
THEOREM DaemonStartsHonest == DaemonSpec => []StartIsHonest
BY DaemonKeepsTheJournal, HonestStart, PTL

\* Whenever Status says online the adapter and the session behind it are open;
\* while the session is up every mutation of Apply is in force and the net stack
\* runs, and during its teardown what the rollback has yet to visit is still in
\* force (daemon.go connect, journal.go RollbackAll).
THEOREM OnlineMeansCovered == DaemonSpec => []OnlineIsCovered
<1>1. TypeOK /\ JournalInv /\ AttemptInv /\ TailInv => OnlineIsCovered
  <2> SUFFICES ASSUME JournalInv, AttemptInv, TailInv, pc \notin Off, status = "online"
               PROVE  /\ {"conn", "session", "adapter"} \subseteq held
                      /\ why = "session" => Muts \subseteq sys /\ "engine" \in held
                      /\ why = "teardown" => \A m \in Muts : m \in sys \/ Undone(m)
    BY DEF OnlineIsCovered
  <2>1. PlaceInv /\ HeldInv /\ StatusInv /\ CoverInv
    BY DEF AttemptInv
  <2>2. CASE pc = "online"
    <3>1. run = "apply" /\ held = Everything
      BY <2>1, <2>2 DEF PlaceInv, Working, HeldInv, Undoing, OpenAt
    <3>2. why = "session"
      BY <2>2 DEF JournalInv, Applying
    <3> QED BY <2>1, <2>2, <3>1, <3>2 DEF CoverInv, Everything
  <2>3. CASE pc \in Undoing /\ why = "teardown"
    <3>1. run = "apply" /\ held = Everything \ {"engine"}
      BY <2>1, <2>3 DEF PlaceInv, HeldInv
    <3> QED BY <2>3, <3>1 DEF TailInv, Everything
  <2> QED BY <2>1, <2>2, <2>3 DEF StatusInv
<1>2. DaemonInit => TailInv
  BY DEF DaemonInit, Init, TailInv, Undoing
<1>3. TypeOK /\ JournalInv /\ AttemptInv /\ TailInv /\ [DaemonNext]_all => TailInv'
  BY StepImplements, TailStep DEF AttemptInv, CoverInv, Off
<1> QED BY <1>1, <1>2, <1>3, AttemptHolds, PTL DEF DaemonSpec

\* Run waits with nothing open, and the net stack is closed before the adapter
\* and the session it writes into (daemon.go connect).
THEOREM AttemptsLeakNothing == DaemonSpec => []NothingLeaks
<1>1. TypeOK /\ JournalInv /\ AttemptInv => NothingLeaks
  BY DEF TypeOK, PhaseType, AttemptInv, PlaceInv, HeldInv, OpenAt, NothingLeaks,
     Working, Undoing, Off, Stages, After, Everything, Deferred
<1> QED BY <1>1, AttemptHolds, PTL
=============================================================================
