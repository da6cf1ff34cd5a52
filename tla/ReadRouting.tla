----------------------------- MODULE ReadRouting -----------------------------
(***************************************************************************)
(* Queries served by a read replica that lags, and the LSN that lets a     *)
(* client read what it wrote (services/read_routing.py, the middleware of  *)
(* main.py, client/api.py and client/session.py).                          *)
(*                                                                         *)
(* The log of the primary is a counter: an LSN is a position in it, every  *)
(* committed command is one position more, and a base that has replayed up *)
(* to n shows the first n commands.  A run of the dfsha command is a       *)
(* process: it loads the session file, sends one request, and saves the    *)
(* session when the answer brings a newer LSN.  A session may have several *)
(* processes at a time.                                                    *)
(*                                                                         *)
(* The replica can be unreachable and, by hand, be promoted when the       *)
(* primary is lost, with what it had replayed (deploy/RUNBOOK-postgres.md):*)
(* the control nodes are stopped first, and come back without a replica    *)
(* until one is built.                                                     *)
(***************************************************************************)
EXTENDS Integers, FiniteSets

CONSTANTS
    Session,    \* session files
    Process,    \* processes of the client
    SessionOf,  \* the session each process runs in
    MaxLSN,     \* bound: commands committed
    MaxFaults   \* bound: faults

ASSUME RoutingAssumption ==
    /\ SessionOf \in [Process -> Session]
    /\ MaxLSN \in Nat /\ MaxFaults \in Nat

None == 0    \* no LSN: positions start at 1

VARIABLES
    wal,       \* position of the primary
    replayed,  \* position of the replica
    replica,   \* is a replica configured?
    reachable, \* does the replica answer?
    file,      \* last_write_lsn in each session file
    proc,      \* what each process is doing
    acked,     \* ghost: for each session, the last of its commands that a client
               \*   process was told of, with its LSN, and no promotion has lost
    faults     \* faults so far

vars == <<wal, replayed, replica, reachable, file, proc, acked, faults>>

\* memory: last_write_lsn as loaded; at: position of its command, or the position a
\* query was served from; stamp: the LSN in the answer; must: ghost, what the query has
\* to show; target: the base it was routed to.
Free == [pc |-> "free", memory |-> None, at |-> 0, stamp |-> None, must |-> 0,
         target |-> "none"]

Init ==
    /\ wal = 0
    /\ replayed = 0
    /\ replica = TRUE
    /\ reachable = TRUE
    /\ file = [s \in Session |-> None]
    /\ proc = [p \in Process |-> Free]
    /\ acked = [s \in Session |-> 0]
    /\ faults = 0

Fault == faults < MaxFaults /\ faults' = faults + 1

Goes(p, pc) == proc' = [proc EXCEPT ![p] = [proc[p] EXCEPT !.pc = pc]]

UnchangedBases == UNCHANGED <<wal, replayed, replica, reachable>>

-----------------------------------------------------------------------------
(* Commands.                                                               *)

\* The process loads the session and sends a command.
StartCommand(p) ==
    /\ proc[p].pc = "free"
    /\ wal < MaxLSN
    /\ proc' = [proc EXCEPT ![p] = [Free EXCEPT !.pc = "command", !.memory = file[SessionOf[p]]]]
    /\ UnchangedBases
    /\ UNCHANGED <<file, acked, faults>>

\* The transaction commits, on the primary.
Execute(p) ==
    /\ proc[p].pc = "command"
    /\ wal < MaxLSN
    /\ wal' = wal + 1
    /\ proc' = [proc EXCEPT ![p] = [proc[p] EXCEPT !.pc = "committed", !.at = wal + 1]]
    /\ UNCHANGED <<replayed, replica, reachable, file, acked, faults>>

\* mutant: the LSN is taken before the transaction commits.
WriteLSNBefore(p) == proc[p].at - 1

\* mutant: one position too far.
WriteLSNNext(p) == wal + 1

\* The middleware asks where the primary is, after the commit.
WriteLSN(p) == wal

Stamp(p) ==
    /\ proc[p].pc = "committed"
    /\ proc' = [proc EXCEPT ![p] =
                  [proc[p] EXCEPT !.pc = "answered",
                                  !.stamp = IF replica THEN WriteLSN(p) ELSE None]]
    /\ UnchangedBases
    /\ UNCHANGED <<file, acked, faults>>

\* The middleware cannot ask: the answer goes without the header.
StampFails(p) ==
    /\ proc[p].pc = "committed"
    /\ replica
    /\ Fault
    /\ Goes(p, "answered")
    /\ UnchangedBases
    /\ UNCHANGED <<file, acked>>

\* _recordar_lsn: what is kept never goes back, as far as this process knows.
Recorded(memory, stamp) == IF stamp > memory THEN stamp ELSE memory

\* The answer arrives; the session is saved if it brought a newer LSN.
Receive(p) ==
    /\ proc[p].pc = "answered"
    /\ LET s == SessionOf[p]
           kept == Recorded(proc[p].memory, proc[p].stamp)
       IN /\ file' = IF kept # proc[p].memory THEN [file EXCEPT ![s] = kept] ELSE file
          /\ acked' = IF proc[p].stamp # None /\ proc[p].at > acked[s]
                      THEN [acked EXCEPT ![s] = proc[p].at] ELSE acked
    /\ proc' = [proc EXCEPT ![p] = Free]
    /\ UnchangedBases
    /\ UNCHANGED faults

\* The process dies, or the answer does not arrive: what was committed stays.
Lost(p) ==
    /\ proc[p].pc # "free"
    /\ Fault
    /\ proc' = [proc EXCEPT ![p] = Free]
    /\ UnchangedBases
    /\ UNCHANGED <<file, acked>>

-----------------------------------------------------------------------------
(* Queries.                                                                *)

StartQuery(p) ==
    /\ proc[p].pc = "free"
    /\ proc' = [proc EXCEPT ![p] =
                  [Free EXCEPT !.pc = "query", !.memory = file[SessionOf[p]],
                               !.must = acked[SessionOf[p]]]]
    /\ UnchangedBases
    /\ UNCHANGED <<file, acked, faults>>

\* mutant: a replica that is exactly there is taken to be behind.
StrictlyPast(lsn) == reachable /\ replayed > lsn

\* Has the replica replayed what the client asks for?  Unreachable, it does not say.
CaughtUp(lsn) == reachable /\ replayed >= lsn

\* for_read: without an LSN, the replica, and nobody asks how far it is.
ForRead(lsn) ==
    IF ~replica THEN "primary"
    ELSE IF lsn = None THEN "replica"
    ELSE IF CaughtUp(lsn) THEN "replica"
    ELSE "primary"

Route(p) ==
    /\ proc[p].pc = "query"
    /\ proc' = [proc EXCEPT ![p] = [proc[p] EXCEPT !.pc = "routed",
                                                   !.target = ForRead(proc[p].memory)]]
    /\ UnchangedBases
    /\ UNCHANGED <<file, acked, faults>>

\* The query itself, some time after the decision.
Serve(p) ==
    /\ proc[p].pc = "routed"
    /\ proc' = [proc EXCEPT ![p] =
                  IF proc[p].target = "primary" THEN [proc[p] EXCEPT !.pc = "served", !.at = wal]
                  ELSE IF reachable THEN [proc[p] EXCEPT !.pc = "served", !.at = replayed]
                  ELSE [proc[p] EXCEPT !.pc = "error"]]
    /\ UnchangedBases
    /\ UNCHANGED <<file, acked, faults>>

\* A query brings no LSN: the process ends and the session stays as it is.
EndQuery(p) ==
    /\ proc[p].pc \in {"served", "error"}
    /\ proc' = [proc EXCEPT ![p] = Free]
    /\ UnchangedBases
    /\ UNCHANGED <<file, acked, faults>>

-----------------------------------------------------------------------------
(* The bases.                                                              *)

Replay ==
    /\ replica /\ reachable
    /\ replayed < wal
    /\ replayed' = replayed + 1
    /\ UNCHANGED <<wal, replica, reachable, file, proc, acked, faults>>

Unreachable ==
    /\ replica /\ reachable
    /\ Fault
    /\ reachable' = FALSE
    /\ UNCHANGED <<wal, replayed, replica, file, proc, acked>>

Reachable ==
    /\ ~reachable
    /\ reachable' = TRUE
    /\ UNCHANGED <<wal, replayed, replica, file, proc, acked, faults>>

AtMost(n, bound) == IF n > bound THEN bound ELSE n

\* The primary is lost: the control nodes are stopped, and with them the requests in
\* hand; the replica goes on from where it was, and what it had not replayed is gone:
\* the runbook says that a promotion may lose the last transactions, so that acked is
\* cut to what is left, and nobody is held to what was lost.
Promote ==
    /\ replica /\ reachable
    /\ Fault
    /\ wal' = replayed
    /\ replica' = FALSE
    /\ proc' = [p \in Process |-> Free]
    /\ acked' = [s \in Session |-> AtMost(acked[s], replayed)]
    /\ UNCHANGED <<replayed, reachable, file>>

\* A replica is cloned from the primary and configured: the control nodes restart.
Rebuild ==
    /\ ~replica
    /\ replica' = TRUE
    /\ replayed' = wal
    /\ proc' = [p \in Process |-> Free]
    /\ UNCHANGED <<wal, reachable, file, acked, faults>>

Next ==
    \/ \E p \in Process :
         \/ StartCommand(p) \/ Execute(p) \/ Stamp(p) \/ StampFails(p)
         \/ Receive(p) \/ Lost(p)
         \/ StartQuery(p) \/ Route(p) \/ Serve(p) \/ EndQuery(p)
    \/ Replay \/ Unreachable \/ Reachable
    \/ Promote \/ Rebuild

Spec == Init /\ [][Next]_vars

\* The replica replays while it is connected, and an outage ends.
FairSpec == Spec /\ WF_vars(Replay) /\ WF_vars(Reachable) /\ WF_vars(Rebuild)

-----------------------------------------------------------------------------
(* Properties.                                                             *)

Proc ==
    [pc : {"free", "command", "committed", "answered", "query", "routed", "served", "error"},
     memory : 0..MaxLSN, at : 0..MaxLSN, stamp : 0..MaxLSN, must : 0..MaxLSN,
     target : {"none", "primary", "replica"}]

TypeOK ==
    /\ wal \in 0..MaxLSN
    /\ replayed \in 0..wal
    /\ replica \in BOOLEAN
    /\ reachable \in BOOLEAN
    /\ file \in [Session -> 0..MaxLSN]
    /\ acked \in [Session -> 0..MaxLSN]
    /\ faults \in 0..MaxFaults
    /\ proc \in [Process -> Proc]

\* A query shows every command of its session that a client process had been told of,
\* with its LSN, before the query began: whatever the replica lags, whichever base
\* serves, and whatever was promoted meanwhile (main.py: "le garantiza leer sus
\* propias escrituras aunque le atienda otro ControlNode contra la replica").  The
\* commands a promotion lost are forgiven: the replica had not replayed them, no base
\* has them any more, and the property does not ask for them.
ReadYourWrites ==
    \A p \in Process : proc[p].pc = "served" => proc[p].at >= proc[p].must

\* The session of a client covers its commands: a saved LSN is not replaced by an
\* older one (client/api.py: "Solo avanza").
SessionAdvances ==
    [][\A s \in Session : file'[s] >= file[s]]_file

\* The cost falls on those who have just written: the replica ends up serving every
\* session whose LSN the log holds (one kept from before a promotion may be past it).
ReplicaServesAgain ==
    <>[](\A s \in Session : file[s] <= wal => ForRead(file[s]) = "replica")

\* README: a query is not sent to a replica that cannot be reached; all the ways to
\* fail end in the primary.
UnreachableFallsBack ==
    [][\A p \in Process : Route(p) => reachable \/ proc'[p].target = "primary"]_vars

=============================================================================
