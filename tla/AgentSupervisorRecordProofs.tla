--------------------- MODULE AgentSupervisorRecordProofs ----------------------
(***************************************************************************)
(* Proofs about the life of a run as its durable record tells it: what one  *)
(* step may do to the record, that a quarantine is never lifted and, when   *)
(* no write of run_state.json fails, that AgentSupervisor implements        *)
(* RunLifecycle and reports one end of a run; what may follow an end when   *)
(* such a write fails; and when the journals can be replayed.               *)
(***************************************************************************)
EXTENDS AgentSupervisorProofs

-----------------------------------------------------------------------------
(* The protocol of one record *)

\* The record says what it said, and the run was not started.
RecordKept(p) ==
  /\ Last(p)' = Last(p) /\ (Admitted(p)' <=> Admitted(p))
  /\ starts'[p] = starts[p]

\* What one action may write in the record of a run.
RecordAdmitted(p) ==
  /\ ~Admitted(p) /\ Admitted(p)' /\ Last(p)'.st = "queued"
  /\ starts'[p] = starts[p]

RecordStarted(p) ==
  /\ Last(p).st = "queued" /\ starts[p] = 0 /\ starts'[p] = 1
  /\ Last(p)'.st \in {"queued", "running"}

RecordMoved(p) ==
  /\ starts'[p] = starts[p]
  /\ \/ Last(p)'.st = Last(p).st
     \/ Last(p).st = "queued" /\ starts[p] = 0 /\ Last(p)'.st \in {"stopped", "failed"}
     \/ Last(p).st = "running" /\ Last(p)'.st \in {"cancelling", "completed"}
     \/ Last(p).st \in {"running", "cancelling"} /\ Last(p)'.st \in {"stopped", "failed"}
     \/ /\ Last(p)'.st = "interrupted" /\ Last(p)'.q
        /\ Last(p).st \in ACTIVE \/ workers[p].on

RecordStep(p) ==
  \/ RecordKept(p)
  \/ RecordAdmitted(p)
  \/ /\ Admitted(p) /\ Admitted(p)' /\ (Last(p).q => Last(p)'.q)
     /\ RecordStarted(p) \/ RecordMoved(p)

\* One run at most is concerned.
OneRecord ==
  \/ \A p \in Runs : RecordKept(p)
  \/ \E r \in Runs : RecordStep(r) /\ \A p \in Runs \ {r} : RecordKept(p)

LEMMA UntouchedRecords ==
  ASSUME UNCHANGED <<journal, starts>>
  PROVE  OneRecord
BY DEF OneRecord, RecordKept, Last, Admitted

\* A transition committed by a healthy service or by the handler of _monitor.
LEMMA CommitRecord ==
  ASSUME TypeOK, Consistent, phase = "up",
         NEW r \in Runs, NEW s \in RunStates, NEW tr \in BOOLEAN,
         NEW o \in Outcomes, NEW w \in [Runs -> WorkerRecords],
         Commit(r, s, tr, o, w),
         starts' = starts
  PROVE  /\ \A p \in Runs \ {r} : RecordKept(p)
         /\ \/ RecordKept(r)
            \/ tr /\ Admitted(r)' /\ Last(r)'.st = s.st /\ Last(r)'.q = s.q
            \/ ~tr /\ Admitted(r)' /\ Last(r)' = Last(r)
<1>1. \A p \in Runs \ {r} : RecordKept(p)
  <2>1. \A p \in Runs \ {r} : journal'[p] = journal[p]
    BY OtherRun
  <2> QED
    BY <2>1 DEF RecordKept, Last, Admitted
<1>2. \/ Last(r)' = Last(r) /\ (Admitted(r)' <=> Admitted(r))
      \/ /\ Admitted(r)'
         /\ tr => Last(r)'.st = s.st /\ Last(r)'.q = s.q
         /\ ~tr => Last(r)' = Last(r)
  BY CommittedRun
<1> QED
  BY <1>1, <1>2 DEF RecordKept

LEMMA SubmitRecord ==
  ASSUME TypeOK, Consistent, NEW r \in Runs, NEW i \in Inputs, NEW o \in Outcomes,
         Submit(r, i, o)
  PROVE  OneRecord
<1> DEFINE s == [NoState EXCEPT !.st = "queued"]
<1>1. /\ phase = "up" /\ Commit(r, s, TRUE, o, workers) /\ starts' = starts
      /\ req[r] = NoReq
  BY DEF Submit, Ready, Fresh, os
<1>2. s \in RunStates /\ s.st = "queued"
  <2>1. NoState \in RunStates /\ "queued" \in ACTIVE
    BY ConstantFacts DEF ACTIVE
  <2> QED
    BY <2>1, StateFacts
<1>3. ~Admitted(r)
  BY <1>1 DEF Consistent, ExecutionInv
<1> HIDE DEF s
<1>4. workers \in [Runs -> WorkerRecords]
  BY DEF TypeOK
<1>5. /\ \A p \in Runs \ {r} : RecordKept(p)
      /\ RecordKept(r) \/ (Admitted(r)' /\ Last(r)'.st = "queued")
  BY <1>1, <1>2, <1>4, CommitRecord
<1> QED
  BY <1>1, <1>3, <1>5 DEF OneRecord, RecordStep, RecordAdmitted

\* The transitions of a healthy service: what it decides on is the record.
LEMMA HealthyRecord ==
  ASSUME TypeOK, Consistent, Healthy, NEW r \in Runs, Admitted(r),
         NEW s \in RunStates, states[r].q => s.q,
         NEW o \in Outcomes, NEW w \in [Runs -> WorkerRecords],
         Commit(r, s, TRUE, o, w), starts' = starts,
         \/ s.st = states[r].st
         \/ states[r].st = "queued" /\ s.st \in {"stopped", "failed"}
         \/ states[r].st = "running" /\ s.st \in {"cancelling", "completed"}
         \/ states[r].st \in {"running", "cancelling"} /\ s.st \in {"stopped", "failed"}
         \/ states[r].st \in ACTIVE /\ s.st = "interrupted" /\ s.q
  PROVE  OneRecord
<1>1. /\ states[r].st = Last(r).st /\ (Last(r).q => s.q)
      /\ states[r].st = "queued" => starts[r] = 0
  BY DEF Consistent, ServiceInv
<1>2. /\ \A p \in Runs \ {r} : RecordKept(p)
      /\ \/ RecordKept(r)
         \/ Admitted(r)' /\ Last(r)'.st = s.st /\ Last(r)'.q = s.q
  BY CommitRecord DEF Healthy
<1>3. CASE RecordKept(r)
  BY <1>2, <1>3 DEF OneRecord
<1>4. CASE Admitted(r)' /\ Last(r)'.st = s.st /\ Last(r)'.q = s.q
  <2>1. RecordMoved(r)
    BY <1>1, <1>4 DEF RecordMoved
  <2> QED
    BY <1>1, <1>2, <1>4, <2>1 DEF OneRecord, RecordStep
<1> QED
  BY <1>2, <1>3, <1>4

LEMMA CancelRecord ==
  ASSUME TypeOK, Consistent, NEW r \in Runs, NEW o \in Outcomes,
         CancelQueued(r, o) \/ CancelRunning(r, o) \/ LaunchFails(r, o)
  PROVE  OneRecord
<1>1. Healthy /\ starts' = starts /\ states[r] \in RunStates /\ states[r].st # "none"
  BY DEF CancelQueued, CancelRunning, LaunchFails, Launchable, Ready, Healthy, os, TypeOK
<1>2. Admitted(r)
  BY <1>1, ConstantFacts DEF Consistent, ServiceInv, ExecutionInv
<1>3. ASSUME NEW st \in {"stopped", "failed", "cancelling"}
      PROVE  /\ [states[r] EXCEPT !.st = st] \in RunStates
             /\ [states[r] EXCEPT !.st = st].st = st
             /\ [states[r] EXCEPT !.st = st].q = states[r].q
  <2>1. st \in ACTIVE \cup TERMINAL
    BY DEF ACTIVE, TERMINAL
  <2> QED
    BY <1>1, <2>1, StateFacts
<1>4. CASE CancelQueued(r, o) \/ LaunchFails(r, o)
  <2>1. PICK st \in {"stopped", "failed"} :
          /\ states[r].st = "queued"
          /\ Commit(r, [states[r] EXCEPT !.st = st], TRUE, o, workers)
    BY <1>4 DEF CancelQueued, LaunchFails, Launchable
  <2> DEFINE s == [states[r] EXCEPT !.st = st]
  <2>2. s \in RunStates /\ s.st = st /\ s.q = states[r].q
    BY <1>3
  <2>3. workers \in [Runs -> WorkerRecords]
    BY DEF TypeOK
  <2>4. Commit(r, s, TRUE, o, workers)
    BY <2>1
  <2> HIDE DEF s
  <2> QED
    BY <1>1, <1>2, <2>1, <2>2, <2>3, <2>4, HealthyRecord
<1>5. CASE CancelRunning(r, o)
  <2> DEFINE s == [states[r] EXCEPT !.st = "cancelling"]
             w == [workers EXCEPT ![r].cancel = workers[r].on]
  <2>1. states[r].st = "running" /\ Commit(r, s, TRUE, o, w)
    BY <1>5 DEF CancelRunning
  <2>2. s \in RunStates /\ s.st = "cancelling" /\ s.q = states[r].q
    BY <1>3
  <2>3. w \in [Runs -> WorkerRecords]
    BY DEF TypeOK, WorkerRecords
  <2> HIDE DEF s, w
  <2> QED
    BY <1>1, <1>2, <2>1, <2>2, <2>3, HealthyRecord
<1> QED
  BY <1>4, <1>5

LEMMA LaunchRecord ==
  ASSUME TypeOK, Consistent, NEW r \in Runs, NEW o \in Outcomes, Launch(r, o)
  PROVE  OneRecord
<1> DEFINE s == [states[r] EXCEPT !.st = "running"]
           w == [workers EXCEPT ![r] = NewWorker]
<1>1. /\ Healthy /\ states[r].st = "queued" /\ Commit(r, s, TRUE, o, w)
      /\ starts' = [starts EXCEPT ![r] = @ + 1]
  BY DEF Launch, Launchable, Ready, Healthy
<1>2. s \in RunStates /\ s.st = "running" /\ s.q = states[r].q
  <2>1. states[r] \in RunStates /\ "running" \in ACTIVE
    BY DEF TypeOK, ACTIVE
  <2> QED
    BY <2>1, StateFacts
<1>3. w \in [Runs -> WorkerRecords]
  BY ConstantFacts DEF TypeOK
<1> HIDE DEF s, w
<1>4. /\ Last(r).st = "queued" /\ starts[r] = 0 /\ (Last(r).q => states[r].q) /\ Admitted(r)
  BY <1>1, ConstantFacts DEF Consistent, ServiceInv, ExecutionInv
<1>5. starts'[r] = 1 /\ \A p \in Runs \ {r} : starts'[p] = starts[p]
  BY <1>1, <1>4 DEF TypeOK
<1>6. \A p \in Runs \ {r} : RecordKept(p)
  <2>1. \A p \in Runs \ {r} : journal'[p] = journal[p]
    BY <1>1, <1>2, <1>3, OtherRun DEF Healthy
  <2> QED
    BY <1>5, <2>1 DEF RecordKept, Last, Admitted
<1>7. \/ Last(r)' = Last(r) /\ (Admitted(r)' <=> Admitted(r))
      \/ Admitted(r)' /\ Last(r)'.st = s.st /\ Last(r)'.q = s.q
  BY <1>1, <1>2, <1>3, CommittedRun DEF Healthy
<1>8. RecordStarted(r) /\ Admitted(r)' /\ (Last(r).q => Last(r)'.q)
  BY <1>2, <1>4, <1>5, <1>7 DEF RecordStarted
<1> QED
  BY <1>4, <1>6, <1>8 DEF OneRecord, RecordStep

LEMMA AcceptRecord ==
  ASSUME TypeOK, Consistent, NEW r \in Runs, Accept(r)
  PROVE  OneRecord
<1>1. ASSUME NEW o \in Outcomes, AcceptEvent(r, o) \/ AcceptState(r, o) PROVE OneRecord
  <2>1. /\ Healthy /\ workers[r].on /\ starts' = starts
        /\ states[r] \in RunStates /\ workers \in [Runs -> WorkerRecords]
    BY <1>1 DEF AcceptEvent, AcceptState, Received, Ticking, Healthy, TypeOK
  <2>2. Admitted(r)
    BY <2>1 DEF Consistent, ServiceInv
  <2>3. CASE AcceptEvent(r, o)
    <3>1. Commit(r, states[r], FALSE, o, workers)
      BY <2>3 DEF AcceptEvent
    <3>2. /\ \A p \in Runs \ {r} : RecordKept(p)
          /\ RecordKept(r) \/ (Admitted(r)' /\ Last(r)' = Last(r))
      BY <2>1, <3>1, CommitRecord DEF Healthy
    <3> QED
      BY <2>1, <2>2, <3>2 DEF OneRecord, RecordKept
  <2>4. CASE AcceptState(r, o)
    <3>1. PICK s \in RunStates : /\ s.st = states[r].st /\ s.q = states[r].q
                                 /\ Commit(r, s, TRUE, o, workers)
      BY <2>1, <2>4, StateReport
    <3> QED
      BY <2>1, <2>2, <3>1, HealthyRecord
  <2> QED
    BY <1>1, <2>3, <2>4
<1>2. CASE AcceptResult(r) \/ AcceptTorn(r)
  BY <1>2, UntouchedRecords DEF AcceptResult, AcceptTorn, disk
<1> QED
  BY <1>1, <1>2 DEF Accept

\* A cancelled run never completes: the monitor's own flag says so.
LEMMA EndRecord ==
  ASSUME TypeOK, Consistent, NEW r \in Runs, NEW o \in Outcomes,
         ReapNormal(r, o) \/ ReapAbnormal(r, o) \/ HandleFatal(r, o)
  PROVE  OneRecord
<1>1. phase = "up" /\ workers[r].on /\ starts' = starts
  BY DEF ReapNormal, ReapAbnormal, HandleFatal, Reapable, Ticking
<1>2. states[r] \in RunStates /\ Admitted(r)
  BY <1>1 DEF TypeOK, Consistent, ServiceInv
<1>3. /\ Released(r, o) \in [Runs -> WorkerRecords]
      /\ [workers EXCEPT ![r] = NoWorker] \in [Runs -> WorkerRecords]
  BY ConstantFacts DEF Released, TypeOK
<1> DEFINE q == [Quarantined(states[r]) EXCEPT !.st = "interrupted"]
<1>4. q \in RunStates /\ q.st = "interrupted" /\ q.q
  BY <1>2, StateFacts DEF TERMINAL
<1>5. CASE ReapNormal(r, o)
  <2> DEFINE st == FinalStatus(workers[r])
             s == [states[r] EXCEPT !.st = st]
  <2>1. /\ Healthy /\ Commit(r, s, TRUE, o, Released(r, o))
    BY <1>5 DEF ReapNormal, Reapable, Ticking, Healthy
  <2>2. /\ states[r].st \in {"running", "cancelling"}
        /\ states[r].st = "cancelling" => workers[r].cancel
    BY <1>1, <2>1 DEF Consistent, ServiceInv
  <2>3. /\ st \in {"completed", "stopped", "failed"}
        /\ workers[r].cancel => st # "completed"
    BY DEF FinalStatus
  <2>4. st \in TERMINAL
    BY <2>3 DEF TERMINAL
  <2> HIDE DEF st
  <2>5. s \in RunStates /\ s.st = st /\ s.q = states[r].q
    BY <1>2, <2>4, StateFacts
  <2> HIDE DEF s
  <2> QED
    BY <1>1, <1>2, <1>3, <2>1, <2>2, <2>3, <2>5, HealthyRecord
<1>6. CASE ReapAbnormal(r, o)
  <2>1. Healthy /\ Commit(r, q, TRUE, o, Released(r, o))
    BY <1>6 DEF ReapAbnormal, Reapable, Ticking, Healthy
  <2>2. states[r].st \in ACTIVE
    BY <1>1, <2>1 DEF Consistent, ServiceInv, ACTIVE
  <2> HIDE DEF q
  <2> QED
    BY <1>1, <1>2, <1>3, <1>4, <2>1, <2>2, HealthyRecord
<1>7. CASE HandleFatal(r, o)
  <2>1. Commit(r, q, TRUE, o, [workers EXCEPT ![r] = NoWorker])
    BY <1>7 DEF HandleFatal
  <2> HIDE DEF q
  <2>2. /\ \A p \in Runs \ {r} : RecordKept(p)
        /\ \/ RecordKept(r)
           \/ Admitted(r)' /\ Last(r)'.st = "interrupted" /\ Last(r)'.q
    BY <1>1, <1>3, <1>4, <2>1, CommitRecord
  <2> QED
    BY <1>1, <1>2, <2>2 DEF OneRecord, RecordStep, RecordMoved
<1> QED
  BY <1>5, <1>6, <1>7

LEMMA ServiceRecord ==
  ASSUME TypeOK, Consistent, Service
  PROVE  OneRecord
<1>1. CASE Crash \/ Start \/ RecoverDone \/ \E r \in Runs : RecoverRefused(r)
  BY <1>1, UntouchedRecords DEF Crash, Start, RecoverDone, RecoverRefused, disk, os
<1>2. ASSUME NEW r \in Runs, NEW o \in Outcomes, RecoverTerminal(r, o) PROVE OneRecord
  <2>1. Repaired(journal[r]).last = journal[r].last /\ Repaired(journal[r]).len = journal[r].len
    BY ReloadFacts
  <2>2. starts' = starts /\ journal' = [journal EXCEPT ![r] = Repaired(journal[r])]
    BY <1>2 DEF RecoverTerminal, os
  <2>3. \A p \in Runs : RecordKept(p)
    BY <2>1, <2>2 DEF RecordKept, Last, Admitted, TypeOK
  <2> QED
    BY <2>3 DEF OneRecord
<1>3. ASSUME NEW r \in Runs, NEW o \in Outcomes, RecoverActive(r, o) PROVE OneRecord
  <2> DEFINE s == [Quarantined(Reloaded(r)) EXCEPT !.st = "interrupted"]
             s1 == [s EXCEPT !.seq = @ + 1]
             j == Repaired(journal[r])
  <2>1. s1 \in RunStates /\ s1.st = "interrupted" /\ s1.q
    <3>1. s \in RunStates /\ s.st = "interrupted" /\ s.q
      BY ReloadFacts, StateFacts DEF TERMINAL
    <3> HIDE DEF s
    <3> QED
      BY <3>1 DEF RunStates
  <2>2. j \in Journals /\ j.last = journal[r].last /\ j.len = journal[r].len
    BY ReloadFacts
  <2>3. /\ journal' = [journal EXCEPT ![r] = Appended(j, s1, TRUE, o)]
        /\ starts' = starts /\ Last(r).st \in ACTIVE /\ Admitted(r)
    BY <1>3 DEF RecoverActive, Write, Pending, Last, Admitted, os
  <2> HIDE DEF s1, s, j
  <2> DEFINE a == Appended(j, s1, TRUE, o)
  <2>4. \/ a.len = j.len /\ a.last = j.last
        \/ a.len = j.len + 1 /\ a.last = s1
    BY <2>1, <2>2, AppendedFacts
  <2>5. journal'[r] = a /\ \A p \in Runs \ {r} : journal'[p] = journal[p]
    BY <2>3 DEF TypeOK
  <2> HIDE DEF a
  <2>6. \A p \in Runs \ {r} : RecordKept(p)
    BY <2>3, <2>5 DEF RecordKept, Last, Admitted
  <2>7. RecordKept(r) \/ (Admitted(r)' /\ Last(r)' = s1)
    <3>1. journal[r].len \in Nat
      BY DEF TypeOK, Journals
    <3>2. CASE a.len = j.len /\ a.last = j.last
      BY <2>2, <2>3, <2>5, <3>2 DEF RecordKept, Last, Admitted
    <3>3. CASE a.len = j.len + 1 /\ a.last = s1
      <4>1. journal'[r].len = journal[r].len + 1 /\ journal'[r].last = s1
        BY <2>2, <2>5, <3>3
      <4> QED
        BY <3>1, <4>1 DEF Last, Admitted
    <3> QED
      BY <2>4, <3>2, <3>3
  <2> QED
    BY <2>1, <2>3, <2>6, <2>7 DEF OneRecord, RecordStep, RecordMoved
<1> QED
  BY <1>1, <1>2, <1>3 DEF Service, Recover

LEMMA RecordProtocol ==
  ASSUME TypeOK, Consistent, [Next]_vars
  PROVE  OneRecord
<1>1. CASE Client
  <2>1. ASSUME NEW r \in Runs, ReadEvents(r) PROVE OneRecord
    BY <2>1, UntouchedRecords DEF ReadEvents, disk, os
  <2> QED
    BY <1>1, <2>1, SubmitRecord, CancelRecord DEF Client
<1>2. CASE Stop \/ MonitorExit
  BY <1>2, UntouchedRecords DEF Stop, MonitorExit, disk, os
<1>3. CASE Monitor
  <2>1. ASSUME NEW r \in Runs, LaunchRaises(r) \/ ForceStop(r) PROVE OneRecord
    BY <2>1, UntouchedRecords DEF LaunchRaises, ForceStop, disk, os
  <2> QED
    BY <1>2, <1>3, <2>1, AcceptRecord, EndRecord, LaunchRecord, CancelRecord
       DEF Monitor, Reap, LaunchQueued, Fail
<1>4. CASE Service
  BY <1>4, ServiceRecord
<1>5. ASSUME NEW r \in Runs, Worker(r) PROVE OneRecord
  BY <1>5, UntouchedRecords
     DEF Worker, WorkerEvent, WorkerState, Send, WorkerFork, WorkerResult, WorkerExit,
         WorkerDies, KidsExit, disk
<1>6. CASE UNCHANGED vars
  BY <1>6, UntouchedRecords DEF vars
<1> QED
  BY <1>1, <1>2, <1>3, <1>4, <1>5, <1>6 DEF Next

\* A durable quarantine is never lifted: every later record of the run keeps the
\* flag, across commits, failures and restarts (_quarantine, _recover).
THEOREM QuarantineStays == Spec => QuarantineIsSticky
<1>1. TypeOK /\ Consistent /\ [Next]_vars
        => [\A r \in Runs : Last(r).q => Last(r)'.q]_journal
  <2> SUFFICES ASSUME TypeOK, Consistent, [Next]_vars, NEW r \in Runs, Last(r).q
               PROVE  Last(r)'.q
    OBVIOUS
  <2>1. ASSUME RecordKept(r) PROVE Last(r)'.q
    BY <2>1 DEF RecordKept
  <2>2. ASSUME RecordStep(r) PROVE Last(r)'.q
    BY <2>1, <2>2 DEF RecordStep, RecordAdmitted, Consistent, ExecutionInv, NoState
  <2> QED
    BY RecordProtocol, <2>1, <2>2 DEF OneRecord
<1> QED
  BY <1>1, Invariance, PTL DEF QuarantineIsSticky, Spec

\* What the record of a run may turn into, whatever fails.
Turns(s, t) ==
  \/ t.st = s.st
  \/ s.st = "queued" /\ t.st \in {"running", "stopped", "failed"}
  \/ s.st = "running" /\ t.st \in {"cancelling", "completed", "stopped", "failed"}
  \/ s.st = "cancelling" /\ t.st \in {"stopped", "failed"}
  \/ t.st = "interrupted" /\ t.q

LEMMA RecordTurns ==
  ASSUME TypeOK, Consistent, [Next]_vars, NEW r \in Runs, Admitted(r)
  PROVE  Admitted(r)' /\ Turns(Last(r), Last(r)')
<1>1. ASSUME RecordKept(r) PROVE Admitted(r)' /\ Turns(Last(r), Last(r)')
  BY <1>1 DEF RecordKept, Turns
<1>2. ASSUME RecordStep(r) PROVE Admitted(r)' /\ Turns(Last(r), Last(r)')
  BY <1>1, <1>2 DEF RecordStep, RecordAdmitted, RecordStarted, RecordMoved, Turns
<1> QED
  BY RecordProtocol, <1>1, <1>2 DEF OneRecord

\* Whatever fails, an admission is never lost, a cancelled run never completes, no
\* run goes back to an earlier status, and the only other record that may follow an
\* end is that the run was interrupted, its session kept (_commit by all its
\* callers, the handler of _monitor, _recover).
RecordsTurn ==
  [][\A r \in Runs : Admitted(r) => Admitted(r)' /\ Turns(Last(r), Last(r)')]_journal

\* The records of every run keep this order under every fault.
THEOREM RecordsProgress == Spec => RecordsTurn
<1>1. TypeOK /\ Consistent /\ [Next]_vars
        => [\A r \in Runs : Admitted(r) => Admitted(r)' /\ Turns(Last(r), Last(r)')]_journal
  BY RecordTurns
<1> QED
  BY <1>1, Invariance, PTL DEF RecordsTurn, Spec

-----------------------------------------------------------------------------
(* When writing run_state.json does not fail *)

\* A record that a worker entry may still rewrite is not final.
Unfinished == \A r \in Runs : workers[r].on => Last(r).st \in ACTIVE

LEMMA SilentUnfinished ==
  ASSUME Unfinished, journal' = journal,
         \A p \in Runs : workers'[p].on => workers[p].on
  PROVE  Unfinished'
BY DEF Unfinished, Last

\* A failed commit wrote nothing, so a worker entry that outlives one still
\* belongs to an unfinished record.
LEMMA CommitUnfinished ==
  ASSUME "snapshot_error" \notin Faults,
         TypeOK, Consistent, Unfinished, phase = "up",
         NEW r \in Runs, NEW s \in RunStates, NEW tr \in BOOLEAN,
         NEW o \in Outcomes, NEW w \in [Runs -> WorkerRecords],
         Commit(r, s, tr, o, w),
         \A p \in Runs \ {r} : w[p] = workers[p],
         w[r].on => Last(r).st \in ACTIVE,
         ~tr \/ s.st \in ACTIVE \/ (w[r].on => Failed(o))
  PROVE  Unfinished'
<1> SUFFICES ASSUME NEW p \in Runs, workers'[p].on PROVE Last(p)'.st \in ACTIVE
  BY DEF Unfinished
<1>1. workers' = w
  BY ConstantFacts DEF Commit, Unsupervised
<1>2. CASE p # r
  <2>1. journal'[p] = journal[p] /\ workers[p].on
    BY <1>1, <1>2, OtherRun
  <2> QED
    BY <2>1 DEF Unfinished, Last
<1>3. CASE p = r
  <2>1. \/ Last(r)' = Last(r)
        \/ tr /\ Last(r)'.st = s.st
    <3>1. \/ Last(r)' = Last(r)
          \/ /\ tr => Last(r)'.st = s.st
             /\ ~tr => Last(r)' = Last(r)
      BY CommittedRun
    <3> QED
      BY <3>1
  <2>2. Failed(o) => Last(r)' = Last(r)
    <3> DEFINE s1 == [s EXCEPT !.seq = @ + 1]
    <3>1. journal'[r] = Appended(journal[r], s1, tr, o) /\ journal[r] \in Journals
      BY DEF Commit, Write, TypeOK
    <3> HIDE DEF s1
    <3>2. o # "snapshot_error"
      BY DEF Outcomes
    <3>3. CASE o = "append_error"
      BY <3>1, <3>3 DEF Appended, Last
    <3>4. CASE o = "torn_error"
      BY <3>1, <3>4 DEF Appended, Last, Journals
    <3> QED
      BY <3>2, <3>3, <3>4 DEF Failed
  <2> QED
    BY <1>1, <1>3, <2>1, <2>2
<1> QED
  BY <1>2, <1>3

LEMMA MonitorUnfinished ==
  ASSUME "snapshot_error" \notin Faults,
         TypeOK, Consistent, Unfinished, NEW r \in Runs,
         Accept(r) \/ Reap(r) \/ LaunchQueued(r) \/ Fail(r) \/ ForceStop(r)
  PROVE  Unfinished'
<1>1. states[r] \in RunStates /\ workers \in [Runs -> WorkerRecords]
  BY DEF TypeOK
<1>2. \A st \in ACTIVE \cup TERMINAL :
        [states[r] EXCEPT !.st = st] \in RunStates /\ [states[r] EXCEPT !.st = st].st = st
  BY <1>1, StateFacts
<1>3. ASSUME NEW o \in Outcomes, AcceptEvent(r, o) \/ AcceptState(r, o) PROVE Unfinished'
  <2>1. phase = "up" /\ Last(r).st \in ACTIVE /\ states[r].st \in ACTIVE
    BY <1>3 DEF AcceptEvent, AcceptState, Received, Ticking, Healthy, Unfinished,
                Consistent, ServiceInv
  <2>2. PICK s \in RunStates :
          /\ s.st = states[r].st
          /\ Commit(r, s, FALSE, o, workers) \/ Commit(r, s, TRUE, o, workers)
    BY <1>1, <1>3, StateReport DEF AcceptEvent
  <2>3. CASE Commit(r, s, FALSE, o, workers)
    BY <1>1, <2>1, <2>2, <2>3, CommitUnfinished
  <2>4. CASE Commit(r, s, TRUE, o, workers)
    BY <1>1, <2>1, <2>2, <2>4, CommitUnfinished
  <2> QED
    BY <2>2, <2>3, <2>4
<1>4. CASE AcceptResult(r) \/ AcceptTorn(r) \/ ForceStop(r) \/ LaunchRaises(r)
  <2>1. journal' = journal
    BY <1>4 DEF AcceptResult, AcceptTorn, ForceStop, LaunchRaises, disk
  <2>2. \A p \in Runs : workers'[p].on => workers[p].on
    BY <1>1, <1>4 DEF AcceptResult, AcceptTorn, ForceStop, LaunchRaises, WorkerRecords
  <2> QED
    BY <2>1, <2>2, SilentUnfinished
<1>5. ASSUME NEW o \in Outcomes, Launch(r, o) PROVE Unfinished'
  <2> DEFINE s == [states[r] EXCEPT !.st = "running"]
             w == [workers EXCEPT ![r] = NewWorker]
  <2>1. phase = "up" /\ Last(r).st = "queued" /\ Commit(r, s, TRUE, o, w)
    BY <1>5 DEF Launch, Launchable, Ready, Consistent, ServiceInv, Healthy
  <2>2. s \in RunStates /\ s.st \in ACTIVE /\ "queued" \in ACTIVE
    BY <1>2 DEF ACTIVE
  <2>3. w \in [Runs -> WorkerRecords] /\ \A p \in Runs \ {r} : w[p] = workers[p]
    BY <1>1, ConstantFacts
  <2> HIDE DEF s, w
  <2> QED
    BY <2>1, <2>2, <2>3, CommitUnfinished
<1>6. ASSUME NEW o \in Outcomes, LaunchFails(r, o) PROVE Unfinished'
  <2> DEFINE s == [states[r] EXCEPT !.st = "failed"]
  <2>1. phase = "up" /\ ~workers[r].on /\ Commit(r, s, TRUE, o, workers)
    BY <1>6 DEF LaunchFails, Launchable, Ready, Consistent, ServiceInv, Healthy
  <2>2. s \in RunStates
    BY <1>2 DEF TERMINAL
  <2> HIDE DEF s
  <2> QED
    BY <1>1, <2>1, <2>2, CommitUnfinished
<1>7. ASSUME NEW o \in Outcomes,
             ReapNormal(r, o) \/ ReapAbnormal(r, o) \/ HandleFatal(r, o)
      PROVE  Unfinished'
  <2> DEFINE n == [workers EXCEPT ![r] = NoWorker]
  <2>1. phase = "up" /\ Last(r).st \in ACTIVE
    BY <1>7 DEF ReapNormal, ReapAbnormal, HandleFatal, Reapable, Ticking, Unfinished
  <2>2. n \in [Runs -> WorkerRecords] /\ ~n[r].on /\ \A p \in Runs \ {r} : n[p] = workers[p]
    BY <1>1, ConstantFacts
  <2>3. PICK s \in RunStates, w \in {Released(r, o), n} : Commit(r, s, TRUE, o, w)
    <3> DEFINE f == [states[r] EXCEPT !.st = FinalStatus(workers[r])]
               q == [Quarantined(states[r]) EXCEPT !.st = "interrupted"]
    <3>1. f \in RunStates
      <4>1. FinalStatus(workers[r]) \in TERMINAL
        BY DEF FinalStatus, TERMINAL
      <4> QED
        BY <1>2, <4>1
    <3>2. q \in RunStates
      BY <1>1, StateFacts DEF TERMINAL
    <3>3. \/ Commit(r, f, TRUE, o, Released(r, o))
          \/ Commit(r, q, TRUE, o, Released(r, o))
          \/ Commit(r, q, TRUE, o, n)
      BY <1>7 DEF ReapNormal, ReapAbnormal, HandleFatal
    <3> HIDE DEF f, q, n
    <3> QED
      BY <3>1, <3>2, <3>3
  <2>4. Released(r, o) = IF Failed(o) THEN workers ELSE n
    BY DEF Released
  <2> HIDE DEF n
  <2>5. /\ w \in [Runs -> WorkerRecords] /\ (w[r].on => Failed(o))
        /\ \A p \in Runs \ {r} : w[p] = workers[p]
    BY <1>1, <2>2, <2>4
  <2> QED
    BY <2>1, <2>3, <2>5, CommitUnfinished
<1> QED
  BY <1>3, <1>4, <1>5, <1>6, <1>7 DEF Accept, Reap, LaunchQueued, Fail

LEMMA StepUnfinished ==
  ASSUME "snapshot_error" \notin Faults, TypeOK, Consistent, Unfinished, [Next]_vars
  PROVE  Unfinished'
<1>1. workers \in [Runs -> WorkerRecords]
  BY DEF TypeOK
<1>2. ASSUME NEW r \in Runs, NEW i \in Inputs, NEW o \in Outcomes, Submit(r, i, o)
      PROVE  Unfinished'
  <2> DEFINE s == [NoState EXCEPT !.st = "queued"]
  <2>1. phase = "up" /\ Commit(r, s, TRUE, o, workers)
    BY <1>2 DEF Submit, Ready
  <2>2. s \in RunStates /\ s.st \in ACTIVE
    <3>1. NoState \in RunStates /\ "queued" \in ACTIVE
      BY ConstantFacts DEF ACTIVE
    <3> QED
      BY <3>1, StateFacts
  <2>3. workers[r].on => Last(r).st \in ACTIVE
    BY DEF Unfinished
  <2> HIDE DEF s
  <2> QED
    BY <1>1, <2>1, <2>2, <2>3, CommitUnfinished
<1>3. ASSUME NEW r \in Runs, NEW o \in Outcomes, CancelQueued(r, o) \/ CancelRunning(r, o)
      PROVE  Unfinished'
  <2> DEFINE stop == [states[r] EXCEPT !.st = "stopped"]
             s == [states[r] EXCEPT !.st = "cancelling"]
             w == [workers EXCEPT ![r].cancel = workers[r].on]
  <2>1. phase = "up" /\ Healthy
    BY <1>3 DEF CancelQueued, CancelRunning, Ready, Healthy
  <2>2. stop \in RunStates /\ s \in RunStates /\ s.st \in ACTIVE
    <3>1. states[r] \in RunStates /\ "stopped" \in TERMINAL /\ "cancelling" \in ACTIVE
      BY DEF TypeOK, ACTIVE, TERMINAL
    <3> QED
      BY <3>1, StateFacts
  <2>3. /\ w \in [Runs -> WorkerRecords] /\ w[r].on = workers[r].on
        /\ \A p \in Runs \ {r} : w[p] = workers[p]
    BY <1>1 DEF WorkerRecords
  <2>4. \/ ~workers[r].on /\ Commit(r, stop, TRUE, o, workers)
        \/ Commit(r, s, TRUE, o, w)
    BY <1>3, <2>1 DEF CancelQueued, CancelRunning, Consistent, ServiceInv
  <2>5. workers[r].on => Last(r).st \in ACTIVE
    BY DEF Unfinished
  <2> HIDE DEF stop, s, w
  <2>6. CASE ~workers[r].on /\ Commit(r, stop, TRUE, o, workers)
    BY <1>1, <2>1, <2>2, <2>6, CommitUnfinished
  <2>7. CASE Commit(r, s, TRUE, o, w)
    BY <2>1, <2>2, <2>3, <2>5, <2>7, CommitUnfinished
  <2> QED
    BY <2>4, <2>6, <2>7
<1>4. CASE Service
  <2>1. \A p \in Runs : ~workers'[p].on
    <3>1. workers' = Unsupervised \/ (workers' = workers /\ phase # "up")
      BY <1>4 DEF Service, Crash, Start, RecoverDone, Recover, RecoverActive,
                  RecoverTerminal, RecoverRefused
    <3> QED
      BY <3>1, ConstantFacts DEF Unsupervised, Consistent, ServiceInv
  <2> QED
    BY <2>1 DEF Unfinished
<1>5. ASSUME UNCHANGED <<journal, workers>> PROVE Unfinished'
  BY <1>5, SilentUnfinished
<1>6. CASE Client
  <2>1. ASSUME NEW r \in Runs, ReadEvents(r) PROVE Unfinished'
    BY <1>5, <2>1 DEF ReadEvents, disk, memory
  <2> QED
    BY <1>2, <1>3, <1>6, <2>1 DEF Client
<1>7. CASE Stop \/ MonitorExit
  BY <1>5, <1>7 DEF Stop, MonitorExit, disk
<1>8. CASE Monitor
  BY <1>7, <1>8, MonitorUnfinished DEF Monitor
<1>9. ASSUME NEW r \in Runs, Worker(r) PROVE Unfinished'
  BY <1>5, <1>9
     DEF Worker, WorkerEvent, WorkerState, Send, WorkerFork, WorkerResult, WorkerExit,
         WorkerDies, KidsExit, disk, memory
<1>10. CASE UNCHANGED vars
  BY <1>5, <1>10 DEF vars
<1> QED
  BY <1>4, <1>6, <1>7, <1>8, <1>9, <1>10 DEF Next

-----------------------------------------------------------------------------
(* Refinement *)

\* The status that RunLifecycle sees, and whether the run was executed.
Life(r) == IF Admitted(r) THEN Last(r).st ELSE "absent"
Executed(r) == starts[r] > 0

LEMMA LifeKept ==
  ASSUME NEW r \in Runs, RecordKept(r)
  PROVE  Life(r)' = Life(r) /\ Executed(r)' = Executed(r)
BY DEF RecordKept, Life, Executed

LEMMA StatusesNamed ==
  ASSUME Consistent, NEW r \in Runs, Admitted(r)
  PROVE  Life(r) = Last(r).st /\ Last(r).st # "none"
BY DEF Consistent, ExecutionInv, Life

\* Every record step is a step of the abstract life of that run.
LEMMA LifeStep ==
  ASSUME TypeOK, Consistent, Unfinished, NEW r \in Runs, RecordStep(r), ~RecordKept(r),
         \A p \in Runs \ {r} : Life(p)' = Life(p) /\ Executed(p)' = Executed(p)
  PROVE  [Lifecycle!Next]_(Lifecycle!vars)
<1> DEFINE life == [p \in Runs |-> IF Admitted(p) THEN Last(p).st ELSE "absent"]
           done == [p \in Runs |-> starts[p] > 0]
<1>1. /\ \A p \in Runs : life[p] = Life(p) /\ life'[p] = Life(p)'
      /\ \A p \in Runs : done[p] = Executed(p) /\ done'[p] = Executed(p)'
  BY DEF Life, Executed
<1>2. /\ life' = [life EXCEPT ![r] = Life(r)']
      /\ done' = [done EXCEPT ![r] = Executed(r)']
  <2>1. /\ life = [p \in Runs |-> Life(p)] /\ life' = [p \in Runs |-> Life(p)']
        /\ done = [p \in Runs |-> Executed(p)] /\ done' = [p \in Runs |-> Executed(p)']
    BY DEF Life, Executed
  <2> HIDE DEF life, done
  <2> QED
    BY <2>1
<1>3. Lifecycle!vars = <<life, done>>
  BY DEF Lifecycle!vars
<1>4. \A st : Lifecycle!Become(r, st) <=> life' = [life EXCEPT ![r] = st]
  BY DEF Lifecycle!Become
<1>5. starts[r] \in Nat /\ starts'[r] = starts[r] => done' = done
  BY <1>1, <1>2 DEF Executed
<1>6. CASE RecordAdmitted(r)
  <2>1. Life(r) = "absent" /\ Life(r)' = "queued" /\ done' = done
    BY <1>2, <1>6 DEF RecordAdmitted, Life, Executed
  <2>2. Lifecycle!Accept(r)
    BY <1>1, <1>2, <1>4, <2>1 DEF Lifecycle!Accept
  <2> QED
    BY <2>2 DEF Lifecycle!Next
<1>7. CASE Admitted(r) /\ Admitted(r)' /\ RecordStarted(r)
  <2>1. /\ Life(r) = "queued" /\ ~Executed(r) /\ Executed(r)'
        /\ Life(r)' = "running" \/ Life(r)' = Life(r)
    BY <1>7 DEF RecordStarted, Life, Executed
  <2>2. Lifecycle!Become(r, "running") \/ life' = life
    BY <1>1, <1>2, <1>4, <2>1
  <2>3. Lifecycle!Execute(r)
    BY <1>1, <1>2, <2>1, <2>2 DEF Lifecycle!Execute
  <2> QED
    BY <2>3 DEF Lifecycle!Next
<1>8. CASE Admitted(r) /\ Admitted(r)' /\ RecordMoved(r)
  <2>1. done' = done /\ Life(r) = Last(r).st /\ Life(r)' = Last(r)'.st
    BY <1>2, <1>8 DEF RecordMoved, Life, Executed
  <2>2. CASE Last(r)'.st = Last(r).st
    <3>1. life[r] = Life(r)' /\ life = [life EXCEPT ![r] = life[r]]
      BY <1>1, <2>1, <2>2
    <3>2. life' = life
      BY <1>2, <3>1
    <3> QED
      BY <2>1, <3>2 DEF Lifecycle!vars
  <2>3. CASE /\ Last(r).st = "queued" /\ starts[r] = 0
             /\ Last(r)'.st \in {"stopped", "failed"}
    <3>1. Lifecycle!End(r, Life(r)')
      <4>1. ~Executed(r)
        BY <2>3 DEF Executed
      <4> QED
        BY <1>1, <1>2, <1>4, <2>1, <2>3, <4>1 DEF Lifecycle!End
    <3> QED
      BY <2>1, <2>3, <3>1 DEF Lifecycle!Next
  <2>4. CASE Last(r).st = "running" /\ Last(r)'.st = "cancelling"
    <3>1. Lifecycle!Cancel(r)
      BY <1>1, <1>2, <1>4, <2>1, <2>4 DEF Lifecycle!Cancel
    <3> QED
      BY <3>1 DEF Lifecycle!Next
  <2>5. CASE Last(r).st = "running" /\ Last(r)'.st = "completed"
    <3>1. Lifecycle!Complete(r)
      BY <1>1, <1>2, <1>4, <2>1, <2>5 DEF Lifecycle!Complete
    <3> QED
      BY <3>1 DEF Lifecycle!Next
  <2>6. CASE /\ Last(r).st \in {"running", "cancelling"}
             /\ Last(r)'.st \in {"stopped", "failed"}
    <3>1. Lifecycle!End(r, Life(r)')
      BY <1>1, <1>2, <1>4, <2>1, <2>6 DEF Lifecycle!End
    <3> QED
      BY <2>1, <2>6, <3>1 DEF Lifecycle!Next
  <2>7. CASE Last(r)'.st = "interrupted" /\ (Last(r).st \in ACTIVE \/ workers[r].on)
    <3>1. Last(r).st \in Lifecycle!Unfinished
      BY <2>7 DEF Unfinished, ACTIVE, Lifecycle!Unfinished
    <3>2. Lifecycle!Interrupt(r)
      BY <1>1, <1>2, <1>4, <2>1, <2>7, <3>1 DEF Lifecycle!Interrupt
    <3> QED
      BY <3>2 DEF Lifecycle!Next
  <2> QED
    BY <1>8, <2>2, <2>3, <2>4, <2>5, <2>6, <2>7 DEF RecordMoved
<1> QED
  BY <1>6, <1>7, <1>8 DEF RecordStep

\* When no write of run_state.json fails, the durable records of a run tell the
\* life RunLifecycle allows (_commit by all its callers, and _recover).
THEOREM LifecycleImplemented ==
  ASSUME "snapshot_error" \notin Faults
  PROVE  Spec => ImplementsLifecycle
<1>1. Init => Lifecycle!Init /\ Unfinished
  <2> SUFFICES ASSUME Init PROVE Lifecycle!Init /\ Unfinished
    OBVIOUS
  <2>1. \A r \in Runs : ~Admitted(r) /\ starts[r] = 0 /\ ~workers[r].on
    BY ConstantFacts DEF Init, Admitted
  <2> QED
    <3>1. [r \in Runs |-> IF Admitted(r) THEN Last(r).st ELSE "absent"]
            = [r \in Runs |-> "absent"]
      BY <2>1
    <3>2. \A r \in Runs : (starts[r] > 0) = FALSE
      BY <2>1
    <3>3. [r \in Runs |-> starts[r] > 0] = [r \in Runs |-> FALSE]
      BY <3>2
    <3> QED
      BY <2>1, <3>1, <3>3 DEF Lifecycle!Init, Unfinished
<1>2. TypeOK /\ Consistent /\ Unfinished /\ [Next]_vars => Unfinished'
  BY StepUnfinished
<1>3. TypeOK /\ Consistent /\ Unfinished /\ [Next]_vars
        => [Lifecycle!Next]_(Lifecycle!vars)
  <2> SUFFICES ASSUME TypeOK, Consistent, Unfinished, [Next]_vars
               PROVE  [Lifecycle!Next]_(Lifecycle!vars)
    OBVIOUS
  <2>1. CASE \A p \in Runs : RecordKept(p)
    <3>1. \A p \in Runs : Life(p)' = Life(p) /\ Executed(p)' = Executed(p)
      BY <2>1, LifeKept
    <3> QED
      BY <3>1 DEF Lifecycle!vars, Life, Executed
  <2>2. ASSUME NEW r \in Runs, RecordStep(r), ~RecordKept(r),
               \A p \in Runs \ {r} : RecordKept(p)
        PROVE  [Lifecycle!Next]_(Lifecycle!vars)
    BY <2>2, LifeKept, LifeStep
  <2> QED
    BY <2>1, <2>2, RecordProtocol DEF OneRecord
<1> QED
  BY <1>1, <1>2, <1>3, Invariance, PTL DEF Spec, ImplementsLifecycle, Lifecycle!Spec

-----------------------------------------------------------------------------
(* What clients read *)

\* Nothing but reading the event stream tells a client anything.
LEMMA ToldByReaders ==
  ASSUME [Next]_vars
  PROVE  told' = told \/ \E r \in Runs : ReadEvents(r)
BY DEF Next, Client, Submit, CancelQueued, CancelRunning, Stop, Monitor, Accept,
       AcceptEvent, AcceptState, AcceptResult, AcceptTorn, ForceStop, Reap, ReapNormal,
       ReapAbnormal, LaunchQueued, Launch, LaunchFails, LaunchRaises, Fail, HandleFatal,
       MonitorExit, Service, Crash, Start, RecoverDone, Recover, RecoverActive,
       RecoverTerminal, RecoverRefused, Worker, WorkerEvent, WorkerState, Send,
       WorkerFork, WorkerResult, WorkerExit, WorkerDies, KidsExit, vars

ToldTruth == \A r \in Runs : told[r] \in TERMINAL => Admitted(r) /\ told[r] = Last(r).st

\* Under the same assumption a client that has read the end of a run never reads
\* another one, whatever crashes and fails in between (_finish, events_after).
THEOREM OneEnd ==
  ASSUME "snapshot_error" \notin Faults
  PROVE  Spec => TerminalIsFinal
<1>1. Init => ToldTruth /\ Unfinished
  BY ConstantFacts DEF Init, ToldTruth, TERMINAL, Unfinished
<1>2. TypeOK /\ Consistent /\ Unfinished /\ [Next]_vars => Unfinished'
  BY StepUnfinished
<1>3. ASSUME TypeOK, Consistent, Unfinished, [Next]_vars,
             NEW r \in Runs, Admitted(r), Last(r).st \in TERMINAL
      PROVE  Admitted(r)' /\ Last(r)'.st = Last(r).st
  <2>1. RecordKept(r) \/ RecordStep(r)
    BY <1>3, RecordProtocol DEF OneRecord
  <2>2. CASE RecordKept(r)
    BY <1>3, <2>2 DEF RecordKept
  <2>3. CASE RecordStep(r) /\ ~RecordKept(r)
    <3>1. Last(r).st \notin ACTIVE /\ ~workers[r].on
      BY <1>3 DEF Unfinished, ACTIVE, TERMINAL
    <3> QED
      BY <1>3, <2>3, <3>1
         DEF RecordStep, RecordAdmitted, RecordStarted, RecordMoved, ACTIVE
  <2> QED
    BY <2>1, <2>2, <2>3
<1>4. [Next]_vars => told' = told \/ \E r \in Runs : ReadEvents(r)
  BY ToldByReaders
<1>5. ASSUME TypeOK, Consistent, ToldTruth, NEW r \in Runs, ReadEvents(r)
      PROVE  ToldTruth' /\ \A p \in Runs : told[p] \in TERMINAL => told'[p] = told[p]
  <2>1. /\ told' = [told EXCEPT ![r] = Last(r).st] /\ journal' = journal
        /\ Last(r).st \in TERMINAL
    BY <1>5 DEF ReadEvents, Last, disk
  <2>2. Admitted(r)
    BY <1>5, <2>1, ConstantFacts DEF Consistent, ExecutionInv, TERMINAL
  <2> QED
    BY <1>5, <2>1, <2>2 DEF ToldTruth, Admitted, Last, TypeOK
<1>6. TypeOK /\ Consistent /\ Unfinished /\ ToldTruth /\ [Next]_vars => ToldTruth'
  <2> SUFFICES ASSUME TypeOK, Consistent, Unfinished, ToldTruth, [Next]_vars
               PROVE  ToldTruth'
    OBVIOUS
  <2>1. CASE told' = told
    BY <1>3, <2>1 DEF ToldTruth
  <2> QED
    BY <1>4, <1>5, <2>1
<1>7. TypeOK /\ Consistent /\ ToldTruth /\ [Next]_vars
        => [\A r \in Runs : told[r] \in TERMINAL => told'[r] = told[r]]_told
  BY <1>4, <1>5
<1> QED
  BY <1>1, <1>2, <1>6, <1>7, Invariance, PTL DEF Spec, TerminalIsFinal

-----------------------------------------------------------------------------
(* What clients read, whatever fails *)

\* A client knows how the run ended, or the run was interrupted since.
ToldBefore ==
  \A r \in Runs : told[r] \in TERMINAL =>
    Admitted(r) /\ Last(r).st \in {told[r], "interrupted"}

\* Even when run_state.json cannot be written, the one end that a client may read
\* after another is that the run was interrupted: a client told so is told nothing
\* else, and none is told that a run completed after having been told otherwise
\* (_finish, the handler of _monitor, _recover, events_after).
EndsOnlyInterrupted ==
  [][\A r \in Runs : told[r] \in TERMINAL => told'[r] \in {told[r], "interrupted"}]_told

\* What a client reads of the end of a run changes to interrupted only.
THEOREM LaterEnds == Spec => EndsOnlyInterrupted
<1>1. Init => ToldBefore
  BY DEF Init, ToldBefore, TERMINAL
<1>2. ASSUME TypeOK, Consistent, ToldBefore, [Next]_vars
      PROVE  /\ ToldBefore'
             /\ \A r \in Runs : told[r] \in TERMINAL => told'[r] \in {told[r], "interrupted"}
  <2>1. ASSUME NEW r \in Runs, told[r] \in TERMINAL
        PROVE  Admitted(r)' /\ Last(r)'.st \in {told[r], "interrupted"}
    <3>1. Admitted(r) /\ Last(r).st \in TERMINAL
      BY <1>2, <2>1 DEF ToldBefore, TERMINAL
    <3>2. Admitted(r)' /\ Turns(Last(r), Last(r)')
      BY <1>2, <3>1, RecordTurns
    <3> QED
      BY <1>2, <2>1, <3>1, <3>2 DEF ToldBefore, Turns, TERMINAL
  <2>2. CASE told' = told
    BY <2>1, <2>2 DEF ToldBefore
  <2>3. ASSUME NEW r \in Runs, ReadEvents(r)
        PROVE  /\ ToldBefore'
               /\ \A p \in Runs : told[p] \in TERMINAL => told'[p] \in {told[p], "interrupted"}
    <3>1. /\ told' = [told EXCEPT ![r] = Last(r).st] /\ journal' = journal
          /\ Last(r).st \in TERMINAL /\ told \in [Runs -> TERMINAL \cup {"none"}]
      BY <1>2, <2>3 DEF ReadEvents, Last, disk, TypeOK
    <3>2. Admitted(r)
      BY <1>2, <3>1, ConstantFacts DEF Consistent, ExecutionInv, TERMINAL
    <3>3. told'[r] = Last(r).st /\ \A p \in Runs \ {r} : told'[p] = told[p]
      BY <3>1
    <3>4. told[r] \in TERMINAL => Last(r).st \in {told[r], "interrupted"}
      BY <1>2 DEF ToldBefore
    <3>5. Admitted(r)' /\ Last(r)' = Last(r)
      BY <3>1, <3>2 DEF Admitted, Last
    <3>6. ToldBefore'
      BY <2>1, <3>3, <3>5 DEF ToldBefore
    <3> QED
      BY <3>3, <3>4, <3>6
  <2> QED
    BY <1>2, <2>2, <2>3, ToldByReaders
<1>3. TypeOK /\ Consistent /\ ToldBefore /\ [Next]_vars
        => [\A r \in Runs : told[r] \in TERMINAL => told'[r] \in {told[r], "interrupted"}]_told
  BY <1>2
<1>4. TypeOK /\ Consistent /\ ToldBefore /\ [Next]_vars => ToldBefore'
  BY <1>2
<1> QED
  BY <1>1, <1>3, <1>4, Invariance, PTL DEF Spec, EndsOnlyInterrupted

-----------------------------------------------------------------------------
(* Replaying the journal *)

\* No append to stream.jsonl fails while the service lives on.
AppendsHold == Faults \cap {"append_error", "torn_error"} = {}

\* last_seq in memory is the number of the last record, and _read_journal would
\* accept the file as it is.
Current(r) ==
  states[r].seq = journal[r].len /\ journal[r].good /\ ~journal[r].torn

\* Between a start and a failure memory is current; only a record written after
\* a failed append can break a journal; and a snapshot is ahead of a journal
\* only if that is broken.
JournalInv(r) ==
  /\ req[r] = NoReq => journal[r] = NoJournal
  /\ journal[r].good => snapshot[r].seq <= journal[r].len
  /\ AppendsHold => journal[r].good
  /\ workers[r].on => Registered(r)
  /\ /\ Registered(r)
     /\ phase \in {"recovering", "up"}
     /\ phase = "up" => AppendsHold \/ ~fatal
     => Current(r)

Replayable == \A r \in Runs : JournalInv(r)

LEMMA AppendedNumbers ==
  ASSUME NEW j \in Journals, NEW s \in RunStates, NEW tr \in BOOLEAN,
         NEW o \in Outcomes
  PROVE  /\ Appended(j, s, tr, o).good => j.good
         /\ o \in {"append_error", "torn_error", "torn_crash"} =>
              /\ Appended(j, s, tr, o).len = j.len
              /\ j.good => Appended(j, s, tr, o).good
         /\ o \in {"ok", "snapshot_error", "snapshot_crash"} =>
              /\ Appended(j, s, tr, o).len = j.len + 1
              /\ ~Appended(j, s, tr, o).torn
              /\ Appended(j, s, tr, o).good <=> j.good /\ ~j.torn /\ s.seq = j.len + 1
<1>1. o \in {"ok"} \cup CommitFaults
  BY OutcomeType
<1>2. CASE o = "append_error"
  BY <1>2 DEF Appended
<1>3. CASE o \in {"torn_error", "torn_crash"}
  <2>1. Appended(j, s, tr, o) = [j EXCEPT !.torn = TRUE]
    BY <1>3 DEF Appended
  <2> QED
    BY <1>3, <2>1 DEF Journals
<1>4. CASE o \in {"ok", "snapshot_error", "snapshot_crash"}
  <2> DEFINE good == j.good /\ ~j.torn /\ s.seq = j.len + 1
  <2>1. Appended(j, s, tr, o) =
          [len |-> j.len + 1, last |-> IF tr THEN s ELSE j.last,
           good |-> good, torn |-> FALSE]
    BY <1>4 DEF Appended
  <2>2. /\ Appended(j, s, tr, o).len = j.len + 1 /\ Appended(j, s, tr, o).torn = FALSE
        /\ Appended(j, s, tr, o).good = good
    BY <2>1
  <2>3. (Appended(j, s, tr, o).good <=> good) /\ (good => j.good)
    BY <2>2
  <2> QED
    BY <1>4, <2>2, <2>3
<1> QED
  BY <1>1, <1>2, <1>3, <1>4 DEF CommitFaults

\* What Write does to the numbers of the run it writes, j being its journal with
\* or without the torn line.
LEMMA WriteNumbers ==
  ASSUME TypeOK, NEW r \in Runs, NEW j \in Journals, NEW s \in RunStates,
         NEW tr \in BOOLEAN, NEW o \in Outcomes, Write(r, j, s, tr, o),
         j.len = journal[r].len, j.good = journal[r].good,
         journal[r].good => snapshot[r].seq <= journal[r].len
  PROVE  /\ journal'[r].good => snapshot'[r].seq <= journal'[r].len
         /\ journal[r].good /\ ~j.torn /\ s.seq = j.len =>
              /\ AppendsHold => journal'[r].good
              /\ o \in {"ok", "snapshot_error"} => Current(r)'
         /\ \A p \in Runs \ {r} :
              /\ journal'[p] = journal[p] /\ snapshot'[p] = snapshot[p]
              /\ ~Crashed(o) => states'[p] = states[p]
         /\ ~Crashed(o) => states'[r].st = s.st
         /\ Crashed(o) => states' = Unloaded
<1> DEFINE s1 == [s EXCEPT !.seq = @ + 1]
           a == Appended(j, s1, tr, o)
<1>1. s1 \in RunStates /\ s1.seq = s.seq + 1 /\ s1.st = s.st
  BY DEF RunStates
<1>2. /\ journal' = [journal EXCEPT ![r] = a]
      /\ states' = IF Crashed(o) THEN Unloaded ELSE [states EXCEPT ![r] = s1]
      /\ snapshot' = IF o = "ok" THEN [snapshot EXCEPT ![r] = s1] ELSE snapshot
  BY DEF Write
<1> HIDE DEF s1
<1>3. /\ a.good => j.good
      /\ o \in {"append_error", "torn_error", "torn_crash"} =>
           a.len = j.len /\ (j.good => a.good)
      /\ o \in {"ok", "snapshot_error", "snapshot_crash"} =>
           /\ a.len = j.len + 1 /\ ~a.torn
           /\ a.good <=> j.good /\ ~j.torn /\ s1.seq = j.len + 1
  BY <1>1, AppendedNumbers
<1>8. o \in {"ok"} \cup CommitFaults
  BY OutcomeType
<1> HIDE DEF a
<1>4. /\ journal'[r] = a /\ \A p \in Runs \ {r} : journal'[p] = journal[p]
      /\ snapshot'[r] = IF o = "ok" THEN s1 ELSE snapshot[r]
      /\ \A p \in Runs \ {r} : snapshot'[p] = snapshot[p]
      /\ ~Crashed(o) => states'[r] = s1 /\ \A p \in Runs \ {r} : states'[p] = states[p]
      /\ Crashed(o) => states' = Unloaded
  <2>1. /\ journal \in [Runs -> Journals] /\ snapshot \in [Runs -> RunStates]
        /\ states \in [Runs -> RunStates]
    BY DEF TypeOK
  <2>2. journal'[r] = a /\ \A p \in Runs \ {r} : journal'[p] = journal[p]
    BY <1>2, <2>1
  <2>3. /\ snapshot'[r] = IF o = "ok" THEN s1 ELSE snapshot[r]
        /\ \A p \in Runs \ {r} : snapshot'[p] = snapshot[p]
    BY <1>2, <2>1
  <2>4. /\ ~Crashed(o) => states'[r] = s1 /\ \A p \in Runs \ {r} : states'[p] = states[p]
        /\ Crashed(o) => states' = Unloaded
    BY <1>2, <2>1
  <2> QED
    BY <2>2, <2>3, <2>4
<1>5. j.len \in Nat /\ s.seq \in Nat /\ snapshot[r].seq \in Nat
  BY DEF TypeOK, Journals, RunStates
<1>6. a.good => snapshot'[r].seq <= a.len
  <2>1. CASE o = "ok"
    BY <1>1, <1>3, <1>4, <1>5, <2>1
  <2>2. CASE o # "ok"
    BY <1>3, <1>4, <1>5, <1>8, <2>2 DEF CommitFaults
  <2> QED
    BY <2>1, <2>2
<1>7. ASSUME journal[r].good, ~j.torn, s.seq = j.len
      PROVE  /\ AppendsHold => a.good
             /\ o \in {"ok", "snapshot_error"} => Current(r)'
  <2>1. AppendsHold => o \notin {"append_error", "torn_error"}
    BY DEF AppendsHold, Outcomes
  <2>2. AppendsHold => a.good
    BY <1>1, <1>3, <1>5, <1>7, <1>8, <2>1 DEF CommitFaults
  <2>3. o \in {"ok", "snapshot_error"} => Current(r)'
    BY <1>1, <1>3, <1>4, <1>5, <1>7 DEF Current, Crashed
  <2> QED
    BY <2>2, <2>3
<1> QED
  BY <1>1, <1>4, <1>6, <1>7

\* A commit of a live service keeps the invariant, if what it writes carries the
\* number memory has.
LEMMA CommitReplayable ==
  ASSUME TypeOK, Consistent, Replayable, phase = "up",
         NEW r \in Runs, NEW s \in RunStates, NEW tr \in BOOLEAN,
         NEW o \in Outcomes, NEW w \in [Runs -> WorkerRecords],
         Commit(r, s, tr, o, w), s.st # "none",
         AppendsHold \/ ~fatal =>
           s.seq = journal[r].len /\ journal[r].good /\ ~journal[r].torn,
         \A p \in Runs \ {r} : w[p] = workers[p],
         req'[r] # NoReq, \A p \in Runs \ {r} : req'[p] = req[p]
  PROVE  Replayable'
<1>1. /\ Write(r, journal[r], s, tr, o)
      /\ fatal' = (~Crashed(o) /\ (fatal \/ Failed(o)))
      /\ phase' = IF Crashed(o) THEN "down" ELSE phase
      /\ workers' = IF Crashed(o) THEN Unsupervised ELSE w
  BY DEF Commit
<1>2. /\ journal[r] \in Journals
      /\ journal[r].good => snapshot[r].seq <= journal[r].len
  BY DEF TypeOK, Replayable, JournalInv
<1>3. /\ journal'[r].good => snapshot'[r].seq <= journal'[r].len
      /\ journal[r].good /\ ~journal[r].torn /\ s.seq = journal[r].len =>
           /\ AppendsHold => journal'[r].good
           /\ o \in {"ok", "snapshot_error"} => Current(r)'
      /\ \A p \in Runs \ {r} :
           /\ journal'[p] = journal[p] /\ snapshot'[p] = snapshot[p]
           /\ ~Crashed(o) => states'[p] = states[p]
      /\ ~Crashed(o) => states'[r].st = s.st
      /\ Crashed(o) => states' = Unloaded
  BY <1>1, <1>2, WriteNumbers
<1>4. Crashed(o) => \A p \in Runs : ~workers'[p].on /\ ~Registered(p)' /\ phase' = "down"
  BY <1>1, <1>3, ConstantFacts DEF Unsupervised, Unloaded, Registered
<1>5. o \in {"append_error", "torn_error"} => fatal' /\ ~AppendsHold
  BY <1>1 DEF Failed, Crashed, AppendsHold, Outcomes
<1>6. o \in {"ok", "snapshot_error"} \/ o \in {"append_error", "torn_error"} \/ Crashed(o)
  BY OutcomeType DEF CommitFaults, Crashed
<1>7. JournalInv(r)'
  <2>1. ~Crashed(o) => Registered(r)' /\ phase' = "up" /\ (fatal => fatal')
    BY <1>1, <1>3 DEF Registered
  <2>2. Registered(r)' /\ phase' \in {"recovering", "up"} /\ (AppendsHold \/ ~fatal')
          => Current(r)'
    BY <1>3, <1>4, <1>5, <1>6, <2>1
  <2>3. AppendsHold' = AppendsHold
    BY DEF AppendsHold
  <2>4. CASE Crashed(o)
    BY <1>3, <1>4, <2>3, <2>4 DEF JournalInv
  <2>5. CASE ~Crashed(o)
    BY <1>3, <2>1, <2>2, <2>3, <2>5 DEF JournalInv
  <2> QED
    BY <2>4, <2>5
<1>8. ASSUME NEW p \in Runs \ {r} PROVE JournalInv(p)'
  <2>1. JournalInv(p) /\ req'[p] = req[p] /\ w[p] = workers[p]
    BY DEF Replayable
  <2>2. journal'[p] = journal[p] /\ snapshot'[p] = snapshot[p]
    BY <1>3
  <2>3. CASE Crashed(o)
    BY <1>4, <2>1, <2>2, <2>3 DEF JournalInv
  <2>4. CASE ~Crashed(o)
    <3>1. states'[p] = states[p] /\ workers'[p] = workers[p] /\ phase' = phase /\ (fatal => fatal')
      BY <1>1, <1>3, <2>1, <2>4
    <3> QED
      BY <2>1, <2>2, <3>1 DEF JournalInv, Registered, Current
  <2> QED
    BY <2>3, <2>4
<1> QED
  BY <1>7, <1>8 DEF Replayable

LEMMA SubmitReplayable ==
  ASSUME TypeOK, Consistent, Replayable, NEW r \in Runs, NEW i \in Inputs,
         NEW o \in Outcomes, Submit(r, i, o)
  PROVE  Replayable'
<1> DEFINE s == [NoState EXCEPT !.st = "queued"]
<1>1. /\ phase = "up" /\ Commit(r, s, TRUE, o, workers) /\ req[r] = NoReq
      /\ req' = [req EXCEPT ![r] = i] /\ i # NoReq
  BY RequestAssumption DEF Submit, Ready, Fresh
<1>2. s \in RunStates /\ s.st = "queued" /\ s.seq = 0
  BY DEF NoState, RunStates, ACTIVE
<1>3. journal[r].len = 0 /\ journal[r].good /\ ~journal[r].torn
  BY <1>1 DEF Replayable, JournalInv, NoJournal
<1>4. workers \in [Runs -> WorkerRecords] /\ req \in [Runs -> Inputs \cup {NoReq}]
  BY DEF TypeOK
<1>5. req'[r] # NoReq /\ \A p \in Runs \ {r} : req'[p] = req[p]
  BY <1>1, <1>4
<1> HIDE DEF s
<1> QED
  BY <1>1, <1>2, <1>3, <1>4, <1>5, CommitReplayable

\* The commits for a run memory knows.
LEMMA KnownReplayable ==
  ASSUME TypeOK, Consistent, Replayable, phase = "up", NEW r \in Runs,
         Registered(r), Admitted(r),
         NEW s \in RunStates, s.st # "none", s.seq = states[r].seq,
         NEW tr \in BOOLEAN, NEW o \in Outcomes, NEW w \in [Runs -> WorkerRecords],
         Commit(r, s, tr, o, w),
         \A p \in Runs \ {r} : w[p] = workers[p], req' = req
  PROVE  Replayable'
<1>1. AppendsHold \/ ~fatal =>
        s.seq = journal[r].len /\ journal[r].good /\ ~journal[r].torn
  BY DEF Replayable, JournalInv, Current
<1>2. req[r] # NoReq
  BY DEF Consistent, ExecutionInv
<1> QED
  BY <1>1, <1>2, CommitReplayable

LEMMA SameNumber ==
  ASSUME NEW s \in RunStates, NEW st \in ACTIVE \cup TERMINAL
  PROVE  /\ [s EXCEPT !.st = st].seq = s.seq
         /\ [Quarantined(s) EXCEPT !.st = st].seq = s.seq
         /\ Quarantined(s).seq = s.seq
BY DEF RunStates, Quarantined

\* Memory and workers of a run that the service has admitted.
LEMMA RegisteredAdmitted ==
  ASSUME TypeOK, Consistent, Replayable, phase = "up", NEW r \in Runs,
         workers[r].on \/ (~fatal /\ Registered(r))
  PROVE  Registered(r) /\ Admitted(r)
<1>1. workers[r].on => Registered(r) /\ Admitted(r)
  BY DEF Replayable, JournalInv, Consistent, ServiceInv
<1>2. ~fatal /\ Registered(r) => Admitted(r)
  BY ConstantFacts DEF Consistent, ServiceInv, ExecutionInv, Healthy, Registered
<1> QED
  BY <1>1, <1>2

LEMMA HealthyReplayable ==
  ASSUME TypeOK, Consistent, Replayable, NEW r \in Runs, NEW o \in Outcomes,
         \/ CancelQueued(r, o) \/ CancelRunning(r, o) \/ LaunchFails(r, o)
         \/ Launch(r, o)
  PROVE  Replayable'
<1>1. /\ phase = "up" /\ ~fatal /\ Registered(r) /\ req' = req
      /\ states[r] \in RunStates /\ workers \in [Runs -> WorkerRecords]
  BY DEF CancelQueued, CancelRunning, LaunchFails, Launch, Launchable, Ready, Registered,
         TypeOK
<1>2. Admitted(r)
  BY <1>1, RegisteredAdmitted
<1> DEFINE c == [workers EXCEPT ![r].cancel = workers[r].on]
           n == [workers EXCEPT ![r] = NewWorker]
<1>3. PICK st \in {"stopped", "cancelling", "failed", "running"}, w \in {workers, c, n} :
        Commit(r, [states[r] EXCEPT !.st = st], TRUE, o, w)
  BY DEF CancelQueued, CancelRunning, LaunchFails, Launch
<1>4. /\ w \in [Runs -> WorkerRecords] /\ \A p \in Runs \ {r} : w[p] = workers[p]
  BY <1>1, ConstantFacts DEF WorkerRecords
<1>5. st \in ACTIVE \cup TERMINAL /\ st # "none"
  BY DEF ACTIVE, TERMINAL
<1> DEFINE s == [states[r] EXCEPT !.st = st]
<1>6. s \in RunStates /\ s.st = st /\ s.seq = states[r].seq
  BY <1>1, <1>5, StateFacts, SameNumber
<1> HIDE DEF c, n
<1>7. Commit(r, s, TRUE, o, w)
  BY <1>3
<1> HIDE DEF s
<1> QED
  BY <1>1, <1>2, <1>4, <1>5, <1>6, <1>7, KnownReplayable

LEMMA EndReplayable ==
  ASSUME TypeOK, Consistent, Replayable, NEW r \in Runs, NEW o \in Outcomes,
         ReapNormal(r, o) \/ ReapAbnormal(r, o) \/ HandleFatal(r, o)
  PROVE  Replayable'
<1>1. /\ phase = "up" /\ workers[r].on /\ req' = req
      /\ states[r] \in RunStates /\ workers \in [Runs -> WorkerRecords]
  BY DEF ReapNormal, ReapAbnormal, HandleFatal, Reapable, Ticking, TypeOK
<1>2. Registered(r) /\ Admitted(r)
  BY <1>1, RegisteredAdmitted
<1> DEFINE n == [workers EXCEPT ![r] = NoWorker]
           st == FinalStatus(workers[r])
           f == [states[r] EXCEPT !.st = st]
           q == [Quarantined(states[r]) EXCEPT !.st = "interrupted"]
<1>3. f \in RunStates /\ f.st # "none" /\ f.seq = states[r].seq
  <2>1. st \in ACTIVE \cup TERMINAL /\ st # "none"
    BY DEF FinalStatus, TERMINAL
  <2> HIDE DEF st
  <2>2. f \in RunStates /\ f.st = st
    BY <1>1, <2>1, StateFacts
  <2>3. f.seq = states[r].seq
    BY <1>1, <2>1, SameNumber
  <2> HIDE DEF f
  <2> QED
    BY <2>1, <2>2, <2>3
<1>4. q \in RunStates /\ q.st # "none" /\ q.seq = states[r].seq
  <2>1. "interrupted" \in ACTIVE \cup TERMINAL /\ "interrupted" # "none"
    BY DEF TERMINAL
  <2>2. q \in RunStates /\ q.st = "interrupted"
    BY <1>1, <2>1, StateFacts
  <2>3. q.seq = states[r].seq
    BY <1>1, <2>1, SameNumber
  <2> QED
    BY <2>1, <2>2, <2>3
<1>5. Released(r, o) \in {workers, n}
  BY DEF Released
<1>6. /\ n \in [Runs -> WorkerRecords] /\ \A p \in Runs \ {r} : n[p] = workers[p]
  BY <1>1, ConstantFacts
<1>7. \/ Commit(r, f, TRUE, o, Released(r, o))
      \/ Commit(r, q, TRUE, o, Released(r, o))
      \/ Commit(r, q, TRUE, o, n)
  BY DEF ReapNormal, ReapAbnormal, HandleFatal
<1> HIDE DEF n, f, q
<1>8. PICK s \in {f, q}, w \in {workers, n} : Commit(r, s, TRUE, o, w)
  BY <1>5, <1>7
<1>9. w \in [Runs -> WorkerRecords] /\ \A p \in Runs \ {r} : w[p] = workers[p]
  BY <1>1, <1>6
<1> QED
  BY <1>1, <1>2, <1>3, <1>4, <1>8, <1>9, KnownReplayable

LEMMA AcceptReplayable ==
  ASSUME TypeOK, Consistent, Replayable, NEW r \in Runs, Accept(r)
  PROVE  Replayable'
<1>1. ASSUME NEW o \in Outcomes, AcceptEvent(r, o) \/ AcceptState(r, o)
      PROVE  Replayable'
  <2>1. /\ phase = "up" /\ ~fatal /\ workers[r].on /\ req' = req
        /\ states[r] \in RunStates /\ workers \in [Runs -> WorkerRecords]
    BY <1>1 DEF AcceptEvent, AcceptState, Received, Ticking, TypeOK
  <2>2. Registered(r) /\ Admitted(r)
    BY <2>1, RegisteredAdmitted
  <2>3. PICK s \in RunStates, tr \in BOOLEAN :
          /\ s.st = states[r].st /\ s.seq = states[r].seq
          /\ Commit(r, s, tr, o, workers)
    BY <1>1, <2>1, StateReport DEF AcceptEvent
  <2>4. s.st # "none"
    BY <2>2, <2>3 DEF Registered
  <2> QED
    BY <2>1, <2>2, <2>3, <2>4, KnownReplayable
<1>2. CASE AcceptResult(r)
  <2>1. \A p \in Runs : workers'[p].on = workers[p].on
    BY <1>2 DEF AcceptResult, TypeOK, WorkerRecords
  <2>2. UNCHANGED <<req, journal, snapshot, states, phase, fatal>>
    BY <1>2 DEF AcceptResult, disk
  <2> QED
    BY <2>1, <2>2 DEF Replayable, JournalInv, Current, Registered, AppendsHold
<1>3. CASE AcceptTorn(r)
  <2>1. UNCHANGED <<req, journal, snapshot, states, phase, workers>> /\ fatal'
    BY <1>3 DEF AcceptTorn, disk
  <2> QED
    BY <2>1 DEF Replayable, JournalInv, Current, Registered, AppendsHold
<1> QED
  BY <1>1, <1>2, <1>3 DEF Accept

LEMMA ForceStopReplayable ==
  ASSUME TypeOK, Replayable, NEW r \in Runs, ForceStop(r)
  PROVE  Replayable'
<1>1. \A p \in Runs : states'[p].st = states[p].st /\ states'[p].seq = states[p].seq
  <2>1. states' = [states EXCEPT ![r] = Quarantined(states[r])]
    BY DEF ForceStop
  <2>2. states[r] \in RunStates /\ states \in [Runs -> RunStates]
    BY DEF TypeOK
  <2>3. Quarantined(states[r]).st = states[r].st /\ Quarantined(states[r]).seq = states[r].seq
    BY <2>2, StateFacts, SameNumber DEF ACTIVE
  <2> QED
    BY <2>1, <2>2, <2>3
<1>2. \A p \in Runs : workers'[p].on = workers[p].on
  BY DEF ForceStop, TypeOK, WorkerRecords
<1>3. UNCHANGED <<req, journal, snapshot, phase, fatal>>
  BY DEF ForceStop
<1> QED
  BY <1>1, <1>2, <1>3 DEF Replayable, JournalInv, Current, Registered, AppendsHold

LEMMA RecoverReplayable ==
  ASSUME TypeOK, Consistent, Replayable, NEW r \in Runs, NEW o \in Outcomes,
         RecoverActive(r, o) \/ RecoverTerminal(r, o)
  PROVE  Replayable'
<1>1. /\ phase = "recovering" /\ journal[r].good /\ Admitted(r)
      /\ UNCHANGED <<req, fatal, workers>>
      /\ phase' = IF o = "ok" THEN phase ELSE "closed"
  BY DEF RecoverActive, RecoverTerminal, Pending, Admitted
<1>2. \A p \in Runs : ~workers[p].on
  BY <1>1 DEF Consistent, ServiceInv
<1>3. req[r] # NoReq
  BY <1>1 DEF Consistent, ExecutionInv
<1>4. /\ journal[r] \in Journals /\ Repaired(journal[r]) \in Journals
      /\ Repaired(journal[r]).len = journal[r].len
      /\ Repaired(journal[r]).good = journal[r].good /\ ~Repaired(journal[r]).torn
      /\ Reloaded(r) \in RunStates /\ Reloaded(r).seq = journal[r].len
  <2>1. journal[r] \in Journals
    BY DEF TypeOK
  <2>2. Reloaded(r) \in RunStates /\ Reloaded(r).seq = journal[r].len
    BY <2>1 DEF Reloaded, Journals, RunStates
  <2>3. /\ Repaired(journal[r]) \in Journals
        /\ Repaired(journal[r]).len = journal[r].len
        /\ Repaired(journal[r]).good = journal[r].good /\ ~Repaired(journal[r]).torn
    BY <2>1 DEF Repaired, Journals
  <2> QED
    BY <2>1, <2>2, <2>3
<1>5. /\ journal'[r].good => snapshot'[r].seq <= journal'[r].len
      /\ AppendsHold => journal'[r].good
      /\ o = "ok" => Current(r)'
      /\ \A p \in Runs \ {r} :
           /\ journal'[p] = journal[p] /\ snapshot'[p] = snapshot[p]
           /\ o = "ok" => states'[p] = states[p]
  <2>1. CASE RecoverActive(r, o)
    <3> DEFINE s == [Quarantined(Reloaded(r)) EXCEPT !.st = "interrupted"]
               j == Repaired(journal[r])
    <3>1. s \in RunStates /\ s.seq = journal[r].len
      <4>1. "interrupted" \in ACTIVE \cup TERMINAL
        BY DEF TERMINAL
      <4>2. s \in RunStates
        BY <1>4, <4>1, StateFacts
      <4>3. s.seq = Reloaded(r).seq
        BY <1>4, <4>1, SameNumber
      <4> QED
        BY <1>4, <4>2, <4>3
    <3>2. Write(r, j, s, TRUE, o)
      BY <2>1 DEF RecoverActive
    <3>3. /\ j \in Journals /\ j.len = journal[r].len /\ j.good = journal[r].good /\ ~j.torn
          /\ journal[r].good => snapshot[r].seq <= journal[r].len
      BY <1>4 DEF Replayable, JournalInv
    <3> HIDE DEF s, j
    <3>4. /\ journal'[r].good => snapshot'[r].seq <= journal'[r].len
          /\ journal[r].good /\ ~j.torn /\ s.seq = j.len =>
               /\ AppendsHold => journal'[r].good
               /\ o \in {"ok", "snapshot_error"} => Current(r)'
          /\ \A p \in Runs \ {r} :
               /\ journal'[p] = journal[p] /\ snapshot'[p] = snapshot[p]
               /\ ~Crashed(o) => states'[p] = states[p]
      BY <3>1, <3>2, <3>3, WriteNumbers, ZenonT(30)
    <3> QED
      BY <1>1, <3>1, <3>3, <3>4 DEF Crashed
  <2>2. CASE RecoverTerminal(r, o)
    <3>1. /\ journal' = [journal EXCEPT ![r] = Repaired(journal[r])]
          /\ states' = [states EXCEPT ![r] = Reloaded(r)]
          /\ snapshot' = IF o = "ok" THEN [snapshot EXCEPT ![r] = Reloaded(r)] ELSE snapshot
      BY <2>2 DEF RecoverTerminal
    <3>2. /\ journal'[r] = Repaired(journal[r]) /\ states'[r] = Reloaded(r)
          /\ snapshot'[r] = IF o = "ok" THEN Reloaded(r) ELSE snapshot[r]
          /\ \A p \in Runs \ {r} : /\ journal'[p] = journal[p] /\ snapshot'[p] = snapshot[p]
                                   /\ states'[p] = states[p]
      <4>1. /\ journal \in [Runs -> Journals] /\ snapshot \in [Runs -> RunStates]
            /\ states \in [Runs -> RunStates]
        BY DEF TypeOK
      <4>2. journal'[r] = Repaired(journal[r]) /\ \A p \in Runs \ {r} : journal'[p] = journal[p]
        BY <3>1, <4>1
      <4>3. states'[r] = Reloaded(r) /\ \A p \in Runs \ {r} : states'[p] = states[p]
        BY <3>1, <4>1
      <4>4. /\ snapshot'[r] = IF o = "ok" THEN Reloaded(r) ELSE snapshot[r]
            /\ \A p \in Runs \ {r} : snapshot'[p] = snapshot[p]
        BY <3>1, <4>1
      <4> QED
        BY <4>2, <4>3, <4>4
    <3>3. snapshot[r].seq <= journal[r].len /\ journal[r].len \in Nat
      BY <1>1, <1>4 DEF Replayable, JournalInv, Journals
    <3>4. /\ journal'[r].len = journal[r].len /\ journal'[r].good /\ ~journal'[r].torn
          /\ states'[r].seq = journal'[r].len
          /\ snapshot'[r].seq <= journal'[r].len
      <4>1. /\ journal'[r].len = journal[r].len /\ journal'[r].good /\ ~journal'[r].torn
            /\ states'[r].seq = journal[r].len
        BY <1>1, <1>4, <3>2
      <4>2. snapshot'[r].seq \in {journal[r].len, snapshot[r].seq}
        BY <1>4, <3>2
      <4> QED
        BY <3>3, <4>1, <4>2
    <3>5. Current(r)'
      BY <3>4 DEF Current
    <3> QED
      BY <3>2, <3>4, <3>5
  <2> QED
    BY <2>1, <2>2
<1>6. JournalInv(r)'
  BY <1>1, <1>2, <1>3, <1>5 DEF JournalInv, AppendsHold
<1>7. ASSUME NEW p \in Runs \ {r} PROVE JournalInv(p)'
  BY <1>1, <1>2, <1>5 DEF Replayable, JournalInv, AppendsHold, Current, Registered
<1> QED
  BY <1>6, <1>7 DEF Replayable

LEMMA ServiceReplayable ==
  ASSUME TypeOK, Consistent, Replayable, Service
  PROVE  Replayable'
<1>1. CASE Crash
  <2>1. \A p \in Runs : ~Registered(p)' /\ ~workers'[p].on
    BY <1>1, ConstantFacts DEF Crash, Unloaded, Unsupervised, Registered
  <2>2. UNCHANGED <<req, journal, snapshot>>
    BY <1>1 DEF Crash, disk
  <2> QED
    BY <2>1, <2>2 DEF Replayable, JournalInv, AppendsHold
<1>2. CASE Start
  <2>1. \A p \in Runs : ~Registered(p)' /\ ~workers'[p].on
    BY <1>2 DEF Start, Consistent, ServiceInv, Registered
  <2>2. UNCHANGED <<req, journal, snapshot>>
    BY <1>2 DEF Start, disk
  <2> QED
    BY <2>1, <2>2 DEF Replayable, JournalInv, AppendsHold
<1>3. CASE RecoverDone \/ \E r \in Runs : RecoverRefused(r)
  <2>1. /\ UNCHANGED <<req, journal, snapshot, states, workers, fatal>>
        /\ phase = "recovering" /\ phase' \in {"up", "closed"}
    BY <1>3 DEF RecoverDone, RecoverRefused, disk
  <2> QED
    BY <2>1 DEF Replayable, JournalInv, AppendsHold, Current, Registered
<1> QED
  BY <1>1, <1>2, <1>3, RecoverReplayable DEF Service, Recover

LEMMA StepReplayable ==
  ASSUME TypeOK, Consistent, Replayable, [Next]_vars
  PROVE  Replayable'
<1>1. ASSUME UNCHANGED <<req, journal, snapshot, states, workers>>,
             \/ phase' = phase /\ (fatal => fatal')
             \/ phase' = "closed"
      PROVE  Replayable'
  BY <1>1 DEF Replayable, JournalInv, AppendsHold, Current, Registered
<1>2. CASE Client
  <2>1. ASSUME NEW r \in Runs, ReadEvents(r) PROVE Replayable'
    BY <1>1, <2>1 DEF ReadEvents, disk, memory
  <2> QED
    BY <1>2, <2>1, SubmitReplayable, HealthyReplayable DEF Client
<1>3. CASE Stop \/ MonitorExit
  BY <1>1, <1>3 DEF Stop, MonitorExit, disk
<1>4. CASE Monitor
  <2>1. ASSUME NEW r \in Runs, LaunchRaises(r) PROVE Replayable'
    BY <1>1, <2>1 DEF LaunchRaises, disk
  <2> QED
    BY <1>3, <1>4, <2>1, AcceptReplayable, ForceStopReplayable, EndReplayable,
       HealthyReplayable
       DEF Monitor, Reap, LaunchQueued, Fail
<1>5. ASSUME NEW r \in Runs, Worker(r) PROVE Replayable'
  BY <1>1, <1>5
     DEF Worker, WorkerEvent, WorkerState, Send, WorkerFork, WorkerResult, WorkerExit,
         WorkerDies, KidsExit, disk, memory
<1>6. CASE UNCHANGED vars
  BY <1>1, <1>6 DEF vars
<1> QED
  BY <1>2, <1>3, <1>4, <1>5, <1>6, ServiceReplayable DEF Next

LEMMA ReplayInvariance == Spec => []Replayable
<1>1. Init => Replayable
  BY ConstantFacts
     DEF Init, Replayable, JournalInv, Registered, NoJournal, NoState, NoWorker
<1>2. TypeOK /\ Consistent /\ Replayable /\ [Next]_vars => Replayable'
  BY StepReplayable
<1> QED
  BY <1>1, <1>2, Invariance, PTL DEF Spec

\* As long as no append fails under a service that lives on, every journal can be
\* replayed and is never behind its snapshot, wherever a crash cuts a commit and
\* whichever snapshots, reads and worktree registrations fail (_commit,
\* _read_journal).  A failed append breaks it: the next record leaves a gap.
THEOREM JournalsReadable ==
  ASSUME Faults \cap {"append_error", "torn_error"} = {}
  PROVE  Spec => []JournalReadable
<1>1. Replayable => JournalReadable
  BY DEF Replayable, JournalInv, JournalReadable, AppendsHold
<1> QED
  BY <1>1, ReplayInvariance, PTL

\* Whatever fails, appends included, a service that has not failed itself numbers
\* its records as _read_journal wants them: there is no gap, no torn line and no
\* run it would refuse after a restart (_commit, _recover).
HealthyNumbers == Healthy => \A r \in Runs : Registered(r) => Current(r)

\* Until the service fails its journals can be replayed, whatever has failed.
THEOREM HealthyJournals == Spec => []HealthyNumbers
<1>1. Replayable => HealthyNumbers
  BY DEF Replayable, JournalInv, HealthyNumbers, Healthy
<1> QED
  BY <1>1, ReplayInvariance, PTL

=============================================================================
