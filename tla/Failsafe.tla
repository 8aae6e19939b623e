------------------------------- MODULE Failsafe -------------------------------
(***************************************************************************)
(* The desktop daemon and the system it changes: the mutation journal      *)
(* (internal/failsafe/journal.go), the route manager that applies and      *)
(* undoes mutations through it (internal/sysroute/manager.go) and the      *)
(* daemon loop that drives both (internal/daemon/daemon.go), with failing  *)
(* commands, failing writes of the journal file and crashes.               *)
(*                                                                         *)
(* The mutations of Manager.Apply are numbered in the order it executes    *)
(* them: 1 adapter address, 2 IPv4 default route, 3 IPv6 default route,    *)
(* 4 tunnel DNS, 5.. the DNS of each physical adapter.                     *)
(*                                                                         *)
(* An entry of the journal is a position of entries; done holds those in   *)
(* state "rolledback".  persist rewrites the whole file and renames it     *)
(* into place, so the file is always an earlier value of entries and done, *)
(* which is what fileLen and fileDone say.                                 *)
(***************************************************************************)
EXTENDS Integers, Sequences, FiniteSets

CONSTANTS
    Last,          \* number of mutations Apply makes
    MaxSessions,   \* bound: how often the daemon gets as far as Apply
    MaxCrashes,    \* bound: how often the process is killed
    MaxFaults,     \* bound: how many commands and writes fail
    Faults,        \* what may fail: "apply", "undo", "persist"
    UndoIsArgv     \* are undo lists argument vectors?

ASSUME FailsafeAssumption ==
    /\ Last \in Nat \ {0}
    /\ MaxSessions \in Nat /\ MaxCrashes \in Nat /\ MaxFaults \in Nat
    /\ Faults \subseteq {"apply", "undo", "persist"}
    /\ UndoIsArgv \in BOOLEAN

Muts == 1 .. Last

VARIABLES
    entries,   \* the mutations of Journal.entries
    done,      \* the entries whose State is "rolledback"
    fileLen,   \* the entries in the journal file
    fileDone,  \* the entries "rolledback" in the journal file
    sys,       \* the mutations in force in the system
    lost,      \* history: mutations in force that the journal no longer lists
    pc,        \* where the daemon is
    step,      \* the mutation Apply is at
    why,       \* what RollbackAll was last called for, or "session"
    todo,      \* the entries RollbackAll has yet to visit
    at,        \* the entry RollbackAll has just run the undo of
    firstErr,  \* RollbackAll has seen an error: "none" or "seen"
    stopping,  \* "no" or "yes": the daemon's context is cancelled
    sessions, crashes, faults

journal == <<entries, done, fileLen, fileDone>>
system  == <<sys, lost>>
walk    == <<todo, at, firstErr>>
budget  == <<sessions, crashes, faults>>
vars == <<journal, system, pc, step, why, walk, stopping, budget>>

Off == {"crashed", "stopped", "failed"}

Entry == 1 .. Len(entries)

Init ==
    /\ entries = <<>> /\ done = {} /\ fileLen = 0 /\ fileDone = {}
    /\ sys = {} /\ lost = {}
    /\ pc = "stopped" /\ step = 1 /\ why = "session"
    /\ todo = {} /\ at = 0 /\ firstErr = "none" /\ stopping = "no"
    /\ sessions = 0 /\ crashes = 0 /\ faults = 0

Fails(what) ==
    /\ what \in Faults /\ faults < MaxFaults
    /\ faults' = faults + 1

-----------------------------------------------------------------------------
(* The journal.                                                            *)

\* Fault: only applied entries are outstanding; nothing is ever marked so.
NoneOutstanding(all, undone) == {}

\* Journal.Outstanding.  No caller marks an entry applied, so pending and
\* applied are one state.
Outstanding(all, undone) == all \ undone

\* Fault: Add persists before it appends.
AllButNew(n) == n - 1

\* The number of entries Add writes when it has n of them.
Saved(n) == n

\* persist fails: the file is as it was.
NotPersisted == Fails("persist") /\ UNCHANGED <<fileLen, fileDone>>

\* The start of RollbackAll.
StartRollback(call, all, undone) ==
    /\ pc' = "walk" /\ why' = call
    /\ todo' = Outstanding(all, undone)
    /\ at' = 0 /\ firstErr' = "none"

\* Fault: RollbackAll goes from the first entry to the last.
Oldest(i) == \A j \in todo : i <= j

\* RollbackAll goes from the last entry to the first.
Newest(i) == \A j \in todo : j <= i

\* "err != nil && firstErr == nil": leave the entry outstanding.
Continues == firstErr = "none"

\* run(e) reverts the mutation.  An argument vector is run one word at a
\* time: the second word is no command.
UndoSucceeds ==
    /\ pc = "walk" /\ ~UndoIsArgv
    /\ \E i \in todo :
          /\ Newest(i)
          /\ at' = i
          /\ sys' = sys \ {entries[i]} /\ lost' = lost \ {entries[i]}
    /\ pc' = "mark"
    /\ UNCHANGED <<journal, step, why, todo, firstErr, stopping, budget>>

\* run(e) fails.  A second error is not looked at: the entry is marked.
UndoFails ==
    /\ pc = "walk"
    /\ IF UndoIsArgv THEN UNCHANGED faults ELSE Fails("undo")
    /\ \E i \in todo :
          /\ Newest(i)
          /\ \/ /\ Continues
                /\ firstErr' = "seen"
                /\ todo' = todo \ {i}
                /\ UNCHANGED <<pc, at, lost>>
             \/ /\ ~Continues
                /\ pc' = "mark" /\ at' = i
                /\ lost' = lost \cup {entries[i]}
                /\ UNCHANGED <<todo, firstErr>>
    /\ UNCHANGED <<journal, sys, step, why, stopping, sessions, crashes>>

\* MarkState(id, rolledback).
Mark ==
    /\ pc = "mark"
    /\ done' = done \cup {at}
    /\ todo' = todo \ {at}
    /\ pc' = "walk"
    /\ \/ /\ fileLen' = Len(entries) /\ fileDone' = done'
          /\ UNCHANGED <<firstErr, faults>>
       \/ NotPersisted /\ firstErr' = "seen"
    /\ UNCHANGED <<entries, system, step, why, at, stopping, sessions, crashes>>

-----------------------------------------------------------------------------
(* Manager.Apply.                                                          *)

\* Fault: one mutation too many.
StepTooFar == IF step > Last THEN "online" ELSE "apply"

\* What follows a journaled mutation.
AfterStep == IF step = Last THEN "online" ELSE "apply"

\* The configurer executes a mutation.
ApplySucceeds ==
    /\ pc = "apply"
    /\ sys' = sys \cup {step}
    /\ pc' = "record"
    /\ UNCHANGED <<journal, lost, step, why, walk, stopping, budget>>

\* The command, or ListInterfaces before it, fails; connect returns the error
\* without a rollback.
ApplyFails ==
    /\ pc = "apply"
    /\ Fails("apply")
    /\ pc' = "idle"
    /\ UNCHANGED <<journal, system, step, why, walk, stopping, sessions, crashes>>

\* Journal.Add; entries keeps the new one even when persist fails.
Record ==
    /\ pc = "record"
    /\ entries' = Append(entries, step)
    /\ \/ /\ fileLen' = Saved(Len(entries) + 1) /\ fileDone' = done
          /\ lost' = lost \ {step}
          /\ pc' = AfterStep
          /\ step' = IF AfterStep = "apply" THEN step + 1 ELSE step
          /\ UNCHANGED faults
       \/ /\ NotPersisted
          /\ lost' = lost \cup {step}
          /\ pc' = "idle"
          /\ UNCHANGED step
    /\ UNCHANGED <<done, sys, why, walk, stopping, sessions, crashes>>

-----------------------------------------------------------------------------
(* Daemon.Run and Daemon.connect.                                          *)

\* Open loads the file, Run calls Reconcile.
Start ==
    /\ pc \in Off
    /\ entries' = SubSeq(entries, 1, fileLen)
    /\ done' = fileDone
    /\ StartRollback("reconcile", 1 .. fileLen, fileDone)
    /\ stopping' = "no"
    /\ UNCHANGED <<fileLen, fileDone, system, step, budget>>

\* Fault: Run looks at no error of Reconcile.
AnyReconcile == TRUE

\* Reconcile has returned a nil error.
ReconcileIsClean == firstErr = "none"

\* Run gives up when Reconcile, or the control API's Listen after it, fails.
Reconciled ==
    /\ pc = "walk" /\ todo = {} /\ why = "reconcile"
    /\ \/ ReconcileIsClean /\ pc' = "idle"
       \/ pc' = "failed"
    /\ UNCHANGED <<journal, system, step, why, walk, stopping, budget>>

\* connect has a session, an adapter and a net stack, and calls Apply, whether
\* or not the context has been cancelled since Run looked.  What fails before
\* that leaves the state as it is.
Connect ==
    /\ pc = "idle" /\ sessions < MaxSessions
    /\ pc' = "apply" /\ step' = 1 /\ why' = "session"
    /\ sessions' = sessions + 1
    /\ UNCHANGED <<journal, system, walk, stopping, crashes, faults>>

\* The session ends, or Reconnect or the context asks for it: Rollback.
SessionEnds ==
    /\ pc = "online"
    /\ StartRollback("teardown", Entry, done)
    /\ UNCHANGED <<journal, system, step, stopping, budget>>

\* connect closes and deletes the adapter and returns; an error of Rollback
\* is printed.
TornDown ==
    /\ pc = "walk" /\ todo = {} /\ why = "teardown"
    /\ pc' = "idle"
    /\ UNCHANGED <<journal, system, step, why, walk, stopping, budget>>

\* An interrupt cancels the context at any time.
Stop ==
    /\ pc \notin Off /\ stopping = "no"
    /\ stopping' = "yes"
    /\ UNCHANGED <<journal, system, pc, step, why, walk, budget>>

\* The loop of Run, or its wait for the next attempt, sees the context.
Stopped ==
    /\ pc = "idle" /\ stopping = "yes"
    /\ pc' = "stopped"
    /\ UNCHANGED <<journal, system, step, why, walk, stopping, budget>>

\* The process is killed.  A mutation executed and not yet journaled is lost.
Crash ==
    /\ pc \notin Off /\ crashes < MaxCrashes
    /\ pc' = "crashed" /\ crashes' = crashes + 1
    /\ lost' = IF pc = "record" THEN lost \cup {step} ELSE lost
    /\ UNCHANGED <<journal, sys, step, why, walk, stopping, sessions, faults>>

-----------------------------------------------------------------------------
Daemon ==
    \/ UndoSucceeds \/ UndoFails \/ Mark
    \/ ApplySucceeds \/ ApplyFails \/ Record
    \/ Reconciled \/ Connect \/ SessionEnds \/ TornDown \/ Stopped

Next == Daemon \/ Start \/ Stop \/ Crash

Spec == Init /\ [][Next]_vars

\* The daemon's goroutine runs; the service is started again after a crash or
\* a failed start.  Nothing ends a healthy session or stops the service.
FairSpec ==
    /\ Spec
    /\ WF_vars(UndoSucceeds \/ UndoFails \/ Mark \/ Reconciled \/ TornDown)
    /\ WF_vars(pc # "stopped" /\ Start)
-----------------------------------------------------------------------------
(* Properties.                                                             *)

JournalType ==
    /\ entries \in Seq(Muts)
    /\ done \subseteq Entry
    /\ fileLen \in 0 .. Len(entries)
    /\ fileDone \subseteq (1 .. fileLen) \cap done
HostType == sys \subseteq Muts /\ lost \subseteq Muts /\ step \in Muts
WalkType ==
    /\ todo \subseteq Entry /\ at \in Entry \cup {0}
    /\ pc = "mark" => at \in todo
PhaseType ==
    /\ pc \in Off \cup {"walk", "mark", "idle", "apply", "record", "online"}
    /\ why \in {"reconcile", "session", "teardown"}
    /\ firstErr \in {"none", "seen"} /\ stopping \in {"no", "yes"}
BudgetType ==
    /\ sessions \in 0 .. MaxSessions /\ crashes \in 0 .. MaxCrashes
    /\ faults \in 0 .. MaxFaults

\* Every variable has its type: the file never holds more than the memory has
\* seen, and Apply never runs past its list (journal.go, manager.go Apply).
TypeOK == JournalType /\ HostType /\ WalkType /\ PhaseType /\ BudgetType

\* The journal file lists m as a mutation to undo.
OnFile(m) == \E k \in (1 .. fileLen) \ fileDone : entries[k] = m

\* Whatever the failures and crashes, a mutation in force is listed in the
\* journal file, except for three that the code lets go: one whose undo failed
\* second in a RollbackAll, one executed and not yet journaled, and one whose
\* persist failed (journal.go Add, MarkState, RollbackAll; manager.go Apply).
HostIsCovered ==
    \A m \in sys \ lost : OnFile(m) \/ (pc = "record" /\ step = m)

\* While nothing fails, crashes apart, physical DNS points into the tunnel only
\* while the adapter has its address and the default routes (manager.go
\* Apply, journal.go RollbackAll): what is in force is a prefix of Apply's list.
OverlayIsPrefix == faults = 0 =>
    \A m \in sys \ lost : \A k \in 1 .. m : k \in sys

\* A daemon that goes on after its start has undone everything the journal
\* file listed, whatever failed; otherwise it refuses to start (daemon.go Run).
StartIsHonest == (pc = "idle" /\ why = "reconcile") => sys \subseteq lost

\* Why the two hold.  Each mutation in force is outstanding in the file and in
\* memory; the entry whose undo has just been run no longer matters; and while
\* Reconcile has seen no error, what is in force is among what it has still to
\* visit.
Listed(m) == \E k \in (1 .. fileLen) \ done : entries[k] = m
ToVisit(m) == \E k \in todo : entries[k] = m

Covered == \A m \in sys \ lost : Listed(m) \/ (pc = "record" /\ step = m)
Marking == pc = "mark" => entries[at] \notin sys \ lost
Visiting == (pc \in {"walk", "mark"} /\ why = "reconcile" /\ firstErr = "none")
              => \A m \in sys \ lost : ToVisit(m)
Applying == pc \in {"apply", "record", "online"} => why = "session"

JournalInv == Covered /\ Marking /\ Visiting /\ Applying /\ StartIsHonest

\* What is in force and still known to the journal when no rollback runs.
\* Argument vectors are undone by no command: the first failing undo of a
\* rollback leaves its mutation listed, the rest are given up.
LittleRemains ==
    IF UndoIsArgv THEN \A m, n \in sys \ lost : m = n ELSE sys \subseteq lost

\* A stop that follows no failure, and a reconciliation after a crash, leave
\* nothing in force that the journal knew of (daemon.go Run, connect); where
\* undo lists are argument vectors, no more than one mutation.
Restored == faults = 0 =>
    ((pc = "stopped" \/ (pc = "idle" /\ why # "session")) => LittleRemains)

\* After a crash everything the journal knew of is undone, once the service
\* is started again and its commands stop failing (daemon.go Run).
CrashIsRepaired == (pc = "crashed") ~> (sys \subseteq lost)

\* docs/ARCHITECTURE.md:239: kill the daemon, restart: the system is at
\* baseline.
CrashLeavesNothing == (pc = "idle" /\ why = "reconcile") => sys = {}

\* journal.go:98: Outstanding returns every entry that still mutates the
\* system.
OutstandingIsComplete ==
    \A k \in done : entries[k] \in sys =>
       \/ \E j \in Entry \ done : entries[j] = entries[k]
       \/ pc = "record" /\ step = entries[k]
=============================================================================
