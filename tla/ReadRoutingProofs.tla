-------------------------- MODULE ReadRoutingProofs --------------------------
(***************************************************************************)
(* Reading one's own writes through a replica that lags, for any number of *)
(* sessions, commands, outages and promotions.                             *)
(***************************************************************************)
EXTENDS ReadRouting, TLAPS

USE RoutingAssumption

-----------------------------------------------------------------------------
(* Type correctness                                                        *)

LEMMA InitType == Init => TypeOK
  BY DEF Init, TypeOK, Free, None, Proc

\* What a step of one process does to the types.
LEMMA ProcessType ==
    ASSUME TypeOK, NEW p \in Process,
           \/ StartCommand(p) \/ Execute(p) \/ Stamp(p) \/ StampFails(p)
           \/ Receive(p) \/ Lost(p)
           \/ StartQuery(p) \/ Route(p) \/ Serve(p) \/ EndQuery(p)
    PROVE  TypeOK'
  <1> USE DEF TypeOK, UnchangedBases
  <1>0. /\ SessionOf[p] \in Session /\ proc[p] \in Proc /\ Free \in Proc
        /\ wal \in 0..MaxLSN /\ replayed \in 0..MaxLSN
    BY DEF Free, None, Proc
  <1>1. CASE StartCommand(p)
    <2>1. [Free EXCEPT !.pc = "command", !.memory = file[SessionOf[p]]] \in Proc
      BY <1>0 DEF Proc
    <2>2. QED
      BY <1>1, <2>1, Zenon DEF StartCommand
  <1>2. CASE Execute(p)
    <2>1. wal + 1 \in 0..MaxLSN /\ proc[p] \in Proc
      BY <1>0, <1>2 DEF Execute
    <2>2. [proc[p] EXCEPT !.pc = "committed", !.at = wal + 1] \in Proc
      <3> HIDE DEF TypeOK
      <3> QED
        BY <2>1 DEF Proc
    <2>3. proc' \in [Process -> Proc]
      BY <1>2, <2>2 DEF Execute
    <2>4. wal' \in 0..MaxLSN /\ replayed \in 0..wal'
      BY <1>2 DEF Execute
    <2>5. QED
      BY <1>2, <2>3, <2>4, Zenon DEF Execute
  <1>3. CASE Stamp(p)
    <2>1. \A n \in 0..MaxLSN : [proc[p] EXCEPT !.pc = "answered", !.stamp = n] \in Proc
      <3> HIDE DEF TypeOK
      <3> QED
        BY <1>0 DEF Proc
    <2>2. (IF replica THEN WriteLSN(p) ELSE None) \in 0..MaxLSN
      <3>1. CASE replica
        BY <1>0, <3>1 DEF WriteLSN
      <3>2. CASE ~replica
        BY <3>2 DEF None
      <3>3. QED
        BY <3>1, <3>2
    <2>3. proc' \in [Process -> Proc]
      BY <1>3, <2>1, <2>2, Zenon DEF Stamp
    <2>4. QED
      BY <1>3, <2>3, Zenon DEF Stamp
  <1>4. CASE StampFails(p)
    <2>1. [proc[p] EXCEPT !.pc = "answered"] \in Proc
      BY <1>0 DEF Proc
    <2>2. QED
      BY <1>4, <2>1 DEF StampFails, Goes, Fault
  <1>5. CASE Receive(p)
    <2>1. Recorded(proc[p].memory, proc[p].stamp) \in 0..MaxLSN /\ proc[p].at \in 0..MaxLSN
      BY <1>0 DEF Recorded, Proc
    <2>2. QED
      BY <1>0, <1>5, <2>1 DEF Receive
  <1>6. CASE Lost(p)
    BY <1>0, <1>6 DEF Lost, Fault
  <1>7. CASE StartQuery(p)
    <2>1. [Free EXCEPT !.pc = "query", !.memory = file[SessionOf[p]],
                       !.must = acked[SessionOf[p]]] \in Proc
      BY <1>0 DEF Proc
    <2>2. QED
      BY <1>7, <2>1 DEF StartQuery
  <1>8. CASE Route(p)
    <2>1. [proc[p] EXCEPT !.pc = "routed", !.target = ForRead(proc[p].memory)] \in Proc
      BY <1>0 DEF ForRead, Proc
    <2>2. QED
      BY <1>8, <2>1 DEF Route
  <1>9. CASE Serve(p)
    <2>1. /\ [proc[p] EXCEPT !.pc = "served", !.at = wal] \in Proc
          /\ [proc[p] EXCEPT !.pc = "served", !.at = replayed] \in Proc
          /\ [proc[p] EXCEPT !.pc = "error"] \in Proc
      BY <1>0 DEF Proc
    <2>2. QED
      BY <1>9, <2>1 DEF Serve
  <1>10. CASE EndQuery(p)
    BY <1>0, <1>10 DEF EndQuery
  <1>11. QED
    BY <1>1, <1>2, <1>3, <1>4, <1>5, <1>6, <1>7, <1>8, <1>9, <1>10

\* What the bases do to the types.
LEMMA BaseType ==
    ASSUME TypeOK, Replay \/ Unreachable \/ Reachable \/ Promote \/ Rebuild
    PROVE  TypeOK'
  <1> USE DEF TypeOK
  <1>0. Free \in Proc
    BY DEF Free, None, Proc
  <1>1. CASE Replay
    <2>1. replayed' \in 0..wal'
      BY <1>1 DEF Replay
    <2>2. QED
      BY <1>1, <2>1, Zenon DEF Replay
  <1>2. CASE Unreachable
    <2>1. faults' \in 0..MaxFaults
      BY <1>2 DEF Unreachable, Fault
    <2>2. QED
      BY <1>2, <2>1, Zenon DEF Unreachable
  <1>3. CASE Reachable
    BY <1>3 DEF Reachable
  <1>4. CASE Promote
    <2>1. \A s \in Session : AtMost(acked[s], replayed) \in 0..MaxLSN
      BY DEF AtMost
    <2>2. /\ acked' \in [Session -> 0..MaxLSN]
          /\ proc' \in [Process -> Proc]
      BY <1>0, <1>4, <2>1 DEF Promote
    <2>3. /\ wal' \in 0..MaxLSN
          /\ replayed' \in 0..wal'
          /\ faults' \in 0..MaxFaults
      BY <1>4 DEF Promote, Fault
    <2>4. QED
      BY <1>4, <2>2, <2>3, Zenon DEF Promote
  <1>5. CASE Rebuild
    BY <1>0, <1>5 DEF Rebuild
  <1>6. QED
    BY <1>1, <1>2, <1>3, <1>4, <1>5

LEMMA StepType == TypeOK /\ [Next]_vars => TypeOK'
  <1>1. TypeOK /\ UNCHANGED vars => TypeOK'
    BY DEF TypeOK, vars
  <1>2. QED
    BY <1>1, ProcessType, BaseType DEF Next

\* Positions stay within the log, and the replica never passes the primary.
THEOREM TypeCorrect == Spec => []TypeOK
  BY InitType, StepType, PTL DEF Spec

-----------------------------------------------------------------------------
(* Reading one's own writes                                                *)

\* Each session is used by one process at a time.
OneProcessEach == \A p, q \in Process : SessionOf[p] = SessionOf[q] => p = q

\* What a process knows at each of its steps: it works with the LSN its session still
\* holds, its command is in the log, its answer carries no older LSN, and what a query
\* must show is in the base it has been routed to.
ProcInv(p) ==
    LET s == SessionOf[p]
        r == proc[p]
    IN  /\ r.pc \in {"command", "committed", "answered", "query", "routed"} => r.memory = file[s]
        /\ r.pc \in {"committed", "answered"} => r.at <= wal
        /\ r.pc \in {"command", "committed"} => r.stamp = None
        /\ r.pc = "answered" => r.stamp = None \/ r.at <= r.stamp
        /\ r.pc \in {"query", "routed"} => r.must <= wal
        /\ r.pc = "query" => r.must <= r.memory
        /\ r.pc = "routed" /\ r.target # "primary" => r.must <= replayed
        /\ r.pc = "served" => r.must <= r.at

\* What a client was told of is in the log and in its session file.
SessionInv ==
    /\ \A s \in Session : acked[s] <= wal /\ acked[s] <= file[s]
    /\ \A p \in Process : ProcInv(p)

LEMMA InitSession == Init => SessionInv
  BY DEF Init, SessionInv, ProcInv, Free, None

\* A step that leaves a process and its session alone leaves what it knows true: the
\* log and the replica only go forward.
LEMMA Elsewhere ==
    ASSUME TypeOK, SessionInv, NEW q \in Process,
           proc'[q] = proc[q], file'[SessionOf[q]] = file[SessionOf[q]],
           wal' \in Nat, wal' >= wal, replayed' \in Nat, replayed' >= replayed
    PROVE  ProcInv(q)'
  <1>1. proc[q] \in Proc /\ wal \in Nat /\ replayed \in Nat
    BY DEF TypeOK
  <1>2. /\ proc[q].memory \in Nat /\ proc[q].at \in Nat
        /\ proc[q].stamp \in Nat /\ proc[q].must \in Nat
    BY <1>1 DEF Proc
  <1>3. ProcInv(q)
    BY DEF SessionInv
  <1>4. QED
    BY <1>1, <1>2, <1>3 DEF ProcInv

\* An idle process knows nothing that could be wrong.
LEMMA FreeKnowsNothing ==
    ASSUME NEW q \in Process, proc'[q] = Free
    PROVE  ProcInv(q)'
  BY DEF ProcInv, Free

\* One step of a process, when no other process runs in its session.
LEMMA ProcessSession ==
    ASSUME OneProcessEach, TypeOK, TypeOK', SessionInv, NEW p \in Process,
           \/ StartCommand(p) \/ Execute(p) \/ Stamp(p) \/ StampFails(p)
           \/ Receive(p) \/ Lost(p)
           \/ StartQuery(p) \/ Route(p) \/ Serve(p) \/ EndQuery(p)
    PROVE  SessionInv'
  <1> DEFINE s == SessionOf[p]
  <1>0. /\ s \in Session /\ proc[p] \in Proc /\ proc \in [Process -> Proc]
        /\ wal \in Nat /\ replayed \in Nat /\ replayed <= wal
        /\ file \in [Session -> Nat] /\ acked \in [Session -> Nat]
        /\ ProcInv(p)
        /\ \A t \in Session : acked[t] <= wal /\ acked[t] <= file[t]
    <2>1. file \in [Session -> Nat] /\ acked \in [Session -> Nat]
      BY DEF TypeOK
    <2>2. wal \in Nat /\ replayed \in Nat /\ replayed <= wal
      BY DEF TypeOK
    <2>3. QED
      BY <2>1, <2>2 DEF TypeOK, SessionInv
  <1>1. /\ proc[p].memory \in Nat /\ proc[p].at \in Nat /\ proc[p].stamp \in Nat
        /\ proc[p].must \in Nat
    BY <1>0 DEF Proc
  <1>2. ASSUME UNCHANGED <<file, acked>>, wal' \in Nat, wal' >= wal, replayed' = replayed,
               \A q \in Process \ {p} : proc'[q] = proc[q],
               ProcInv(p)'
        PROVE  SessionInv'
    <2>1. \A q \in Process \ {p} : ProcInv(q)'
      BY <1>0, <1>2, Elsewhere
    <2>2. \A t \in Session : acked'[t] <= wal' /\ acked'[t] <= file'[t]
      BY <1>0, <1>2
    <2>3. QED
      BY <1>2, <2>1, <2>2 DEF SessionInv
  <1>3. CASE StartCommand(p)
    <2>1. proc'[p] = [Free EXCEPT !.pc = "command", !.memory = file[s]]
      BY <1>0, <1>3 DEF StartCommand
    <2>2. proc'[p].pc = "command" /\ proc'[p].memory = file[s] /\ proc'[p].stamp = None
      BY <2>1 DEF Free
    <2>3. ProcInv(p)'
      BY <1>0, <1>3, <2>2 DEF ProcInv, StartCommand
    <2>4. QED
      BY <1>0, <1>2, <1>3, <2>3 DEF StartCommand, UnchangedBases
  <1>4. CASE Execute(p)
    <2>1. proc'[p] = [proc[p] EXCEPT !.pc = "committed", !.at = wal + 1]
      BY <1>0, <1>4 DEF Execute
    <2>2. /\ proc'[p].pc = "committed" /\ proc'[p].at = wal + 1
          /\ proc'[p].memory = proc[p].memory /\ proc'[p].stamp = proc[p].stamp
      BY <1>0, <2>1 DEF Proc
    <2>3. ProcInv(p)'
      BY <1>0, <1>4, <2>2 DEF ProcInv, Execute
    <2>4. QED
      BY <1>0, <1>2, <1>4, <2>3 DEF Execute
  <1>5. CASE Stamp(p)
    <2>1. proc'[p] = [proc[p] EXCEPT !.pc = "answered",
                                     !.stamp = IF replica THEN WriteLSN(p) ELSE None]
      BY <1>0, <1>5 DEF Stamp
    <2>2. /\ proc'[p].pc = "answered" /\ proc'[p].at = proc[p].at
          /\ proc'[p].memory = proc[p].memory
          /\ proc'[p].stamp = None \/ proc'[p].stamp = wal
      BY <1>0, <2>1 DEF Proc, WriteLSN
    <2>3. ProcInv(p)'
      BY <1>0, <1>1, <1>5, <2>2 DEF ProcInv, Stamp, UnchangedBases
    <2>4. QED
      BY <1>0, <1>2, <1>5, <2>3 DEF Stamp, UnchangedBases
  <1>6. CASE StampFails(p)
    <2>1. proc'[p] = [proc[p] EXCEPT !.pc = "answered"]
      BY <1>0, <1>6 DEF StampFails, Goes
    <2>2. /\ proc'[p].pc = "answered" /\ proc'[p].at = proc[p].at
          /\ proc'[p].memory = proc[p].memory
          /\ proc'[p].stamp = proc[p].stamp
      BY <1>0, <2>1 DEF Proc
    <2>3. ProcInv(p)'
      BY <1>0, <1>1, <1>6, <2>2 DEF ProcInv, StampFails, UnchangedBases
    <2>4. QED
      BY <1>0, <1>2, <1>6, <2>3 DEF StampFails, Goes, UnchangedBases
  <1>7. CASE Receive(p)
    <2> DEFINE kept == Recorded(proc[p].memory, proc[p].stamp)
    <2>1. proc[p].pc = "answered" /\ proc[p].memory = file[s] /\ proc[p].at <= wal
          /\ (proc[p].stamp = None \/ proc[p].at <= proc[p].stamp)
      BY <1>0, <1>7 DEF Receive, ProcInv
    <2>2. kept \in Nat /\ kept >= file[s] /\ kept >= proc[p].stamp
      BY <1>0, <1>1, <2>1 DEF Recorded
    <2>3. /\ file' = IF kept # proc[p].memory THEN [file EXCEPT ![s] = kept] ELSE file
          /\ acked' = IF proc[p].stamp # None /\ proc[p].at > acked[s]
                      THEN [acked EXCEPT ![s] = proc[p].at] ELSE acked
          /\ proc' = [proc EXCEPT ![p] = Free]
          /\ wal' = wal /\ replayed' = replayed
      BY <1>7 DEF Receive, UnchangedBases
    <2>4. file'[s] = kept /\ \A t \in Session \ {s} : file'[t] = file[t]
      BY <1>0, <2>1, <2>3
    <2>5. \A t \in Session : acked'[t] <= wal' /\ acked'[t] <= file'[t]
      <3>1. \A t \in Session \ {s} : acked'[t] = acked[t]
        BY <1>0, <2>3
      <3>2. acked'[s] <= wal /\ acked'[s] <= kept
        <4>1. CASE proc[p].stamp # None /\ proc[p].at > acked[s]
          BY <1>0, <1>1, <2>1, <2>2, <2>3, <4>1
        <4>2. CASE ~(proc[p].stamp # None /\ proc[p].at > acked[s])
          BY <1>0, <2>1, <2>2, <2>3, <4>2
        <4>3. QED
          BY <4>1, <4>2
      <3>3. QED
        BY <1>0, <2>3, <2>4, <3>1, <3>2
    <2>6. ProcInv(p)'
      BY <1>0, <2>3, FreeKnowsNothing
    <2>7. \A q \in Process \ {p} : ProcInv(q)'
      <3>1. \A q \in Process \ {p} : SessionOf[q] \in Session \ {s}
        BY DEF OneProcessEach
      <3>2. QED
        BY <1>0, <2>3, <2>4, <3>1, Elsewhere
    <2>8. QED
      BY <2>5, <2>6, <2>7 DEF SessionInv
  <1>8. CASE Lost(p)
    BY <1>0, <1>2, <1>8, FreeKnowsNothing DEF Lost, UnchangedBases
  <1>9. CASE StartQuery(p)
    <2>1. proc'[p] = [Free EXCEPT !.pc = "query", !.memory = file[s], !.must = acked[s]]
      BY <1>0, <1>9 DEF StartQuery
    <2>2. proc'[p].pc = "query" /\ proc'[p].memory = file[s] /\ proc'[p].must = acked[s]
      BY <2>1 DEF Free
    <2>3. ProcInv(p)'
      BY <1>0, <1>9, <2>2 DEF ProcInv, StartQuery, UnchangedBases
    <2>4. QED
      BY <1>0, <1>2, <1>9, <2>3 DEF StartQuery, UnchangedBases
  <1>10. CASE Route(p)
    <2>1. proc'[p] = [proc[p] EXCEPT !.pc = "routed", !.target = ForRead(proc[p].memory)]
      BY <1>0, <1>10 DEF Route
    <2>2. /\ proc'[p].pc = "routed" /\ proc'[p].must = proc[p].must
          /\ proc'[p].memory = proc[p].memory
          /\ proc'[p].target = ForRead(proc[p].memory)
      BY <1>0, <2>1 DEF Proc
    <2>3. /\ proc[p].memory = file[s]
          /\ proc[p].must <= wal /\ proc[p].must <= proc[p].memory
      BY <1>0, <1>10 DEF ProcInv, Route
    <2>4. proc'[p].target # "primary" => proc[p].must <= replayed
      BY <1>0, <1>1, <2>2, <2>3 DEF ForRead, CaughtUp, None
    <2>5. ProcInv(p)'
      BY <1>0, <1>1, <1>10, <2>2, <2>3, <2>4 DEF ProcInv, Route, UnchangedBases
    <2>6. QED
      BY <1>0, <1>2, <1>10, <2>5 DEF Route, UnchangedBases
  <1>11. CASE Serve(p)
    <2>1. proc[p].target # "primary" => proc[p].must <= replayed
      BY <1>0, <1>11 DEF ProcInv, Serve
    <2>2. proc[p].must <= wal
      BY <1>0, <1>11 DEF ProcInv, Serve
    <2>3. ASSUME proc[p].target = "primary" PROVE ProcInv(p)'
      <3>1. proc'[p] = [proc[p] EXCEPT !.pc = "served", !.at = wal]
        BY <1>0, <1>11, <2>3 DEF Serve
      <3>2. proc'[p].pc = "served" /\ proc'[p].at = wal /\ proc'[p].must = proc[p].must
        BY <1>0, <3>1 DEF Proc
      <3>3. QED
        BY <2>2, <3>2 DEF ProcInv
    <2>4. ASSUME proc[p].target # "primary" /\ reachable PROVE ProcInv(p)'
      <3>1. proc'[p] = [proc[p] EXCEPT !.pc = "served", !.at = replayed]
        BY <1>0, <1>11, <2>4 DEF Serve
      <3>2. proc'[p].pc = "served" /\ proc'[p].at = replayed /\ proc'[p].must = proc[p].must
        BY <1>0, <3>1 DEF Proc
      <3>3. QED
        BY <2>1, <2>4, <3>2 DEF ProcInv
    <2>5. ASSUME proc[p].target # "primary" /\ ~reachable PROVE ProcInv(p)'
      <3>1. proc'[p] = [proc[p] EXCEPT !.pc = "error"]
        BY <1>0, <1>11, <2>5 DEF Serve
      <3>2. proc'[p].pc = "error"
        BY <1>0, <3>1 DEF Proc
      <3>3. QED
        BY <3>2 DEF ProcInv
    <2>6. ProcInv(p)'
      BY <2>3, <2>4, <2>5
    <2>7. QED
      BY <1>0, <1>2, <1>11, <2>6 DEF Serve, UnchangedBases
  <1>12. CASE EndQuery(p)
    BY <1>0, <1>2, <1>12, FreeKnowsNothing DEF EndQuery, UnchangedBases
  <1>13. QED
    BY <1>3, <1>4, <1>5, <1>6, <1>7, <1>8, <1>9, <1>10, <1>11, <1>12

\* The bases: replaying brings the replica nearer, and what a promotion forgets no
\* client process waits for any more.
LEMMA BaseSession ==
    ASSUME TypeOK, SessionInv, Replay \/ Unreachable \/ Reachable \/ Promote \/ Rebuild
    PROVE  SessionInv'
  <1>1. /\ wal \in Nat /\ replayed \in Nat /\ replayed <= wal
        /\ file \in [Session -> Nat] /\ acked \in [Session -> Nat]
    <2>1. file \in [Session -> Nat] /\ acked \in [Session -> Nat]
      BY DEF TypeOK
    <2>2. wal \in Nat /\ replayed \in Nat /\ replayed <= wal
      BY DEF TypeOK
    <2>3. QED
      BY <2>1, <2>2
  <1>2. \A t \in Session : acked[t] <= wal /\ acked[t] <= file[t]
    BY DEF SessionInv
  <1>3. CASE Replay \/ Unreachable \/ Reachable
    <2>1. /\ UNCHANGED <<file, acked, wal, proc>>
          /\ replayed' = replayed \/ replayed' = replayed + 1
      BY <1>3 DEF Replay, Unreachable, Reachable
    <2>2. replayed' \in Nat /\ replayed' >= replayed
      BY <1>1, <2>1
    <2>3. \A q \in Process : ProcInv(q)'
      BY <1>1, <2>1, <2>2, Elsewhere
    <2>4. QED
      BY <1>2, <2>1, <2>3 DEF SessionInv
  <1>4. CASE Promote
    <2>1. \A q \in Process : ProcInv(q)'
      BY <1>4, FreeKnowsNothing DEF Promote
    <2>2. \A t \in Session : acked'[t] <= replayed /\ acked'[t] <= acked[t]
      BY <1>1, <1>4 DEF Promote, AtMost
    <2>3. \A t \in Session : acked'[t] <= wal' /\ acked'[t] <= file'[t]
      <3>1. wal' = replayed /\ file' = file /\ \A t \in Session : acked'[t] \in Nat
        BY <1>1, <1>4 DEF Promote, AtMost
      <3>2. QED
        BY <1>1, <1>2, <2>2, <3>1
    <2>4. QED
      BY <2>1, <2>3 DEF SessionInv
  <1>5. CASE Rebuild
    <2>1. \A q \in Process : ProcInv(q)'
      BY <1>5, FreeKnowsNothing DEF Rebuild
    <2>2. QED
      BY <1>2, <1>5, <2>1 DEF SessionInv, Rebuild
  <1>6. QED
    BY <1>3, <1>4, <1>5

LEMMA StepSession ==
    ASSUME OneProcessEach
    PROVE  TypeOK /\ TypeOK' /\ SessionInv /\ [Next]_vars => SessionInv'
  <1>1. SessionInv /\ UNCHANGED vars => SessionInv'
    BY DEF SessionInv, ProcInv, vars
  <1>2. QED
    BY <1>1, ProcessSession, BaseSession DEF Next

\* A query shows every command its session was told of before it began, whichever base
\* serves it: for any number of sessions, as long as a session has one process at a time.
\* What a promotion lost, for the replica had not replayed it, is not asked for.
\* With two processes at a time it is false: the session file may go back.
THEOREM SessionReads ==
    ASSUME OneProcessEach
    PROVE  Spec => []ReadYourWrites
  <1>1. SessionInv => ReadYourWrites
    BY DEF SessionInv, ProcInv, ReadYourWrites
  <1>2. QED
    BY <1>1, InitSession, StepSession, TypeCorrect, PTL DEF Spec

\* A process that is alone in its session never puts an older LSN in the session file.
THEOREM SessionFileAdvances ==
    ASSUME OneProcessEach
    PROVE  Spec => SessionAdvances
  <1>1. TypeOK /\ SessionInv /\ [Next]_vars => [\A s \in Session : file'[s] >= file[s]]_file
    <2> SUFFICES ASSUME TypeOK, SessionInv, [Next]_vars, file' # file, NEW s \in Session
                 PROVE  file'[s] >= file[s]
      OBVIOUS
    <2>1. file \in [Session -> 0..MaxLSN]
      BY DEF TypeOK
    <2>2. PICK p \in Process : Receive(p)
      BY DEF Next, vars, StartCommand, Execute, Stamp, StampFails, Lost, StartQuery, Route,
             Serve, EndQuery, Replay, Unreachable, Reachable, Promote, Rebuild, UnchangedBases
    <2>3. /\ SessionOf[p] \in Session
          /\ proc[p].memory = file[SessionOf[p]]
          /\ proc[p].stamp \in Nat
      BY <2>2 DEF Receive, SessionInv, ProcInv, TypeOK, Proc
    <2>4. /\ Recorded(proc[p].memory, proc[p].stamp) >= file[SessionOf[p]]
          /\ file' = [file EXCEPT ![SessionOf[p]] = Recorded(proc[p].memory, proc[p].stamp)]
      BY <2>1, <2>2, <2>3 DEF Receive, Recorded
    <2>5. QED
      BY <2>1, <2>3, <2>4
  <1>2. QED
    BY <1>1, InitSession, StepSession, TypeCorrect, PTL DEF Spec, SessionAdvances

=============================================================================
