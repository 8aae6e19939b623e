-------------------------------- MODULE Daemon --------------------------------
(***************************************************************************)
(* Daemon.Run and Daemon.connect (internal/daemon/daemon.go) step by step, *)
(* on top of the journal, the routes and the faults of module Failsafe:    *)
(* what an attempt opens and what each way out of it closes, the state     *)
(* Status reports and the requests to stop or to reconnect, which may come *)
(* at any moment (internal/api/server.go, cmd/toppasvc).                   *)
(*                                                                         *)
(* How long a dial, a handshake or the back-off takes is left out: each    *)
(* has a timeout.  The deferred calls of connect have none: they write to  *)
(* the session's connection, or wait for a goroutine that does, before     *)
(* anything closes it.                                                     *)
(***************************************************************************)
EXTENDS Failsafe

VARIABLES
    run,     \* where Run and connect are while nothing of Failsafe runs
    held,    \* what connect has opened and not closed
    status,  \* Daemon.state
    token,   \* is there a token in the channel reconnect?
    link     \* the session's connection: "open", "clogged" when it takes no
             \* frame, "down" when the session has died

own  == <<run, held, status, token, link>>
all  == <<vars, own>>

\* What connect does before Apply, in order, and what each stage opens.
After == [transport |-> "dial", dial |-> "handshake", handshake |-> "adapter",
          adapter |-> "engine", engine |-> "ready"]
Opened == [transport |-> {}, dial |-> {"conn"}, adapter |-> {"adapter"},
           handshake |-> {"session", "injector"}, engine |-> {"engine"}]

Stages == DOMAIN After

DaemonInit ==
    /\ Init
    /\ run = "boot" /\ held = {} /\ status = "offline" /\ token = FALSE
    /\ link = "open"

-----------------------------------------------------------------------------
(* Ways out of connect.                                                    *)

\* Fault: Apply fails and the adapter stays open.
AdapterForgotten(stage) == IF stage = "apply" THEN {"engine"} ELSE {"adapter"}

\* What a failing stage closes itself; the rest is deferred.
ClosedAt(stage) ==
    CASE stage = "engine" -> {"adapter"}
      [] stage = "apply"  -> {"engine", "adapter"}
      [] OTHER            -> {}

Deferred == {"conn", "session", "injector"}

\* connect returns an error, once its deferred calls are done.
Abandon(stage) ==
    /\ run' = "failing"
    /\ held' = held \ ClosedAt(stage)

\* The deferred calls: injector.Stop waits for an injector that may be in the
\* middle of a PING, session.Close writes a GOAWAY, and conn.Close comes last.
Finish ==
    /\ pc = "idle" /\ link # "clogged"
    /\ \/ run = "ending" /\ run' = "ended"
       \/ run = "failing" /\ run' = "failed"
    /\ held' = held \ Deferred
    /\ link' = "open"
    /\ UNCHANGED <<vars, status, token>>

\* The connection's buffers fill up or are emptied, or the session dies.  When
\* that happens matters only to the deferred calls.
LinkMoves ==
    /\ pc = "idle" /\ run \in {"ending", "failing"}
    /\ "session" \in held /\ link # "down"
    /\ link' \in {"open", "clogged", "down"}
    /\ UNCHANGED <<vars, run, held, status, token>>

-----------------------------------------------------------------------------
(* Run.                                                                    *)

\* The service is started: New, then Reconcile.
Boot ==
    /\ Start
    /\ run' = "boot" /\ held' = {} /\ status' = "offline" /\ token' = FALSE
    /\ link' = "open"

\* Reconcile and Listen have returned.
Serve ==
    /\ Reconciled
    /\ run' = IF pc' = "idle" THEN "loop" ELSE run
    /\ UNCHANGED <<held, status, token, link>>

\* The head of the loop: the context is looked at, then connect is called.
Attempt ==
    /\ pc = "idle" /\ run = "loop" /\ stopping = "no"
    /\ run' = "transport" /\ status' = "connecting"
    /\ UNCHANGED <<vars, held, token, link>>

\* Fault: Run returns the error of connect.
GiveUp == "gone"

\* "session ended": Run tries again.
AfterError == "wait"

\* connect has returned.  An error ends Run only when the context is cancelled.
Returned ==
    /\ pc = "idle"
    /\ \/ run = "ended" /\ run' = "wait"
       \/ run = "failed" /\ stopping = "no" /\ run' = AfterError
    /\ UNCHANGED <<vars, held, status, token, link>>

\* The wait between two attempts ends by itself or by a request.
Wake ==
    /\ pc = "idle" /\ run = "wait"
    /\ \/ token /\ token' = FALSE
       \/ UNCHANGED token
    /\ run' = "loop"
    /\ UNCHANGED <<vars, held, status, link>>

\* Run returns ctx.Err().
Quit ==
    /\ run \in {"loop", "wait", "failed"}
    /\ Stopped /\ UNCHANGED own

-----------------------------------------------------------------------------
(* connect.                                                                *)

Pass ==
    /\ pc = "idle" /\ run \in Stages
    /\ run = "engine" => sessions < MaxSessions
    /\ run' = After[run]
    /\ held' = held \cup Opened[run]
    /\ UNCHANGED <<vars, status, token, link>>

\* pickTransport finds nothing, or a stage returns an error.
Fail ==
    /\ pc = "idle" /\ run \in Stages
    /\ Abandon(run)
    /\ \/ run = "transport" /\ status' = "offline"
       \/ UNCHANGED status
    /\ UNCHANGED <<vars, token, link>>

\* Apply is called, the context cancelled or not.
CallApply ==
    /\ run = "ready" /\ Connect
    /\ run' = "apply"
    /\ UNCHANGED <<held, status, token, link>>

\* Fault: the state is set when Apply is called.
OnlineEarly == "online"

\* The state while Apply runs.
WhileApplying == status

\* A step of Apply; its error makes connect return, its end is "online".
ApplyStep ==
    /\ ApplySucceeds \/ ApplyFails \/ Record
    /\ IF pc' = "idle" THEN Abandon("apply") ELSE UNCHANGED <<run, held>>
    /\ status' = IF pc' = "online" THEN "online" ELSE WhileApplying
    /\ UNCHANGED <<token, link>>

\* Fault: the select of connect does not look at the context.
DeafToStop == {"down", "reconnect"}

\* What the select of connect waits for.
Wakers == {"down", "reconnect", "stop"}

\* The select of connect, and engine.Stop before the rollback starts.
EndSession ==
    /\ SessionEnds
    /\ \E cause \in Wakers :
          /\ cause = "stop" => stopping = "yes"
          /\ token' = (token /\ cause # "reconnect")
          /\ cause = "reconnect" => token
          /\ link' = IF cause = "down" THEN "down" ELSE link
    /\ held' = held \ {"engine"}
    /\ UNCHANGED <<run, status>>

\* The select has no choice but to go on.
Asked == token \/ (stopping = "yes" /\ "stop" \in Wakers)

\* The rest of connect, up to its deferred calls.
Leave ==
    /\ TornDown
    /\ run' = "ending" /\ status' = "offline"
    /\ held' = held \ {"adapter"}
    /\ UNCHANGED <<token, link>>

\* Undo commands run, or fail, and are marked.
Unwind == (UndoSucceeds \/ UndoFails \/ Mark) /\ UNCHANGED own

-----------------------------------------------------------------------------
(* Requests and the end of the process.                                    *)

\* POST /reconnect, once the API listens; a second token is dropped.
Reconnect ==
    /\ pc \notin Off /\ run # "boot" /\ ~token
    /\ token' = TRUE
    /\ UNCHANGED <<vars, run, held, status, link>>

Interrupt == Stop /\ UNCHANGED own

Kill == Crash /\ UNCHANGED own

Step ==
    \/ Serve \/ Attempt \/ Returned \/ Wake \/ Quit
    \/ Pass \/ Fail \/ CallApply \/ ApplyStep \/ Leave \/ Finish \/ Unwind

DaemonNext ==
    Step \/ EndSession \/ LinkMoves \/ Boot \/ Reconnect \/ Interrupt \/ Kill

\* The daemon's goroutine runs; what it waits for in a session may never
\* come, and nothing has to ask, fail or kill.  A connection that takes frames
\* again and again takes those the deferred calls wait for: sync.Mutex hands
\* writeMu over in turn.  The service is started again unless it was stopped.
DaemonSpec ==
    /\ DaemonInit /\ [][DaemonNext]_all
    /\ WF_all(Step)
    /\ SF_all(Finish)
    /\ WF_all(Asked /\ EndSession)
    /\ WF_all(pc # "stopped" /\ Boot)

-----------------------------------------------------------------------------
\* The entry of the current session's mutation m, once Apply is through.
EntryOf(m) == Len(entries) - Last + m

\* What the rollback of the session has undone of it so far.
Undone(m) == EntryOf(m) \notin todo \/ (pc = "mark" /\ at = EntryOf(m))

\* "online" is a promise: while a session is up and Status says so, every
\* mutation of Apply is in force and the net stack behind them runs, so no
\* traffic goes around the tunnel (connect: state is stored after Apply).  The
\* state stays "online" while the teardown rolls back: then what the rollback
\* has yet to visit is still in force, and leads into an adapter that is open.
OnlineIsCovered ==
    pc \notin Off /\ status = "online" =>
        /\ {"conn", "session", "adapter"} \subseteq held
        /\ why = "session" => Muts \subseteq sys /\ "engine" \in held
        /\ why = "teardown" => \A m \in Muts : m \in sys \/ Undone(m)

\* However an attempt ends, Run waits with nothing of it open; and the net
\* stack never outlives the adapter or the session it writes into
\* (connect's early returns, its teardown and its deferred calls).
NothingLeaks ==
    /\ pc = "idle" /\ run \in {"loop", "wait"} => held = {}
    /\ pc \notin Off /\ "engine" \in held =>
          {"conn", "session", "adapter"} \subseteq held

\* connect is in its deferred calls and the connection takes no frame.
Stuck == run \in {"ending", "failing"} /\ link = "clogged"

\* A daemon that nobody stops or kills tries again after every failure and
\* every session, forever (Run), unless the deferred calls of connect wait on
\* a connection that never takes another frame.
KeepsTrying ==
    (pc = "idle" /\ run \in {"failing", "ending", "failed", "ended"}) ~>
        (run = "transport" \/ stopping = "yes" \/ pc \in Off \/ []Stuck)

\* A request is heard wherever it finds the daemon but there: an interrupt
\* ends it, by way of the rollback if a session is up, and a reconnect ends
\* the session that is up (the selects of Run and connect).
RequestsAreHeard ==
    /\ (stopping = "yes") ~> (pc \in Off \/ []Stuck)
    /\ (token /\ pc = "online") ~> (pc # "online")
=============================================================================
