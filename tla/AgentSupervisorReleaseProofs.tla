--------------------- MODULE AgentSupervisorReleaseProofs ---------------------
(***************************************************************************)
(* Proofs about what AgentSupervisor leaves behind: a run that lets go of   *)
(* its session left no process, the worktree of an interrupted run is       *)
(* quarantined in the registry, worker slots and queue are not overrun, and *)
(* no run is admitted beside what a record says was left in its workspace.  *)
(***************************************************************************)
EXTENDS AgentSupervisorProofs, FiniteSetTheorems

-----------------------------------------------------------------------------
(* Processes *)

\* What a step other than a launch may do to the processes of a run.
OsStep(p) ==
  /\ \/ proc'[p] = proc[p]
     \/ Alive(p) /\ proc'[p] \in {"done", "dying", "exited", "crashed"}
  /\ \/ kids'[p] => kids[p]
     \/ proc[p] = "alive" /\ proc'[p] = "alive"

\* No message in the pipe is new.
PipeKept(p) ==
  \A i \in DOMAIN pipe'[p] : \E k \in DOMAIN pipe[p] : pipe'[p][i].result = pipe[p][k].result

\* The step keeps the run clean if no clean result is invented and the record
\* stops blocking only when the processes are gone.
LEMMA CleanStep ==
  ASSUME TypeOK, NEW p \in Runs, CleanInv(p), OsStep(p),
         \/ PipeKept(p)
         \/ \A i \in DOMAIN pipe'[p] : pipe'[p][i].result.clean => Settled(p)',
         \/ workers'[p].result.clean => workers[p].result.clean
         \/ \E k \in DOMAIN pipe[p] : workers'[p].result = pipe[p][k].result,
         Admitted(p)' /\ ~Blocking(p)' =>
           \/ (Admitted(p) /\ ~Blocking(p))
           \/ proc'[p] \in {"none", "exited"} /\ ~kids'[p]
  PROVE  CleanInv(p)'
<1>1. Settled(p) => Settled(p)'
  BY DEF OsStep, Settled, Alive
<1>2. proc'[p] = "none" => ~kids'[p]
  BY DEF OsStep, CleanInv, Alive
<1>3. \A i \in DOMAIN pipe'[p] : pipe'[p][i].result.clean => Settled(p)'
  BY <1>1 DEF CleanInv, PipeKept
<1>4. workers'[p].result.clean => Settled(p)'
  BY <1>1 DEF CleanInv
<1>5. Admitted(p)' /\ ~Blocking(p)' => proc'[p] \in {"none", "exited"} /\ ~kids'[p]
  BY DEF CleanInv, OsStep, Alive
<1> QED
  BY <1>2, <1>3, <1>4, <1>5 DEF CleanInv

\* A step that writes no record and leaves the workers' results alone.
LEMMA SilentClean ==
  ASSUME TypeOK, NEW p \in Runs, CleanInv(p), OsStep(p),
         pipe'[p] = pipe[p] \/ pipe'[p] = <<>>,
         journal'[p] = journal[p],
         workers'[p].result.clean => workers[p].result.clean
  PROVE  CleanInv(p)'
BY CleanStep DEF Admitted, Blocking, Last, PipeKept

\* A commit that leaves the processes and the pipe of the run alone.
LEMMA CommitClean ==
  ASSUME TypeOK, Consistent, Clean, phase = "up",
         NEW r \in Runs, NEW s \in RunStates, NEW tr \in BOOLEAN,
         NEW o \in Outcomes, NEW w \in [Runs -> WorkerRecords],
         Commit(r, s, tr, o, w),
         \A p \in Runs : /\ w[p].result.clean => workers[p].result.clean
                         /\ OsStep(p)
                         /\ PipeKept(p),
         \/ ~tr /\ Admitted(r)
         \/ tr /\ (s.st \in ACTIVE \/ s.q)
         \/ tr /\ proc'[r] \in {"none", "exited"} /\ ~kids'[r]
  PROVE  Clean'
<1> SUFFICES ASSUME NEW p \in Runs PROVE CleanInv(p)'
  BY DEF Clean
<1>1. workers' = w \/ workers' = Unsupervised
  BY DEF Commit
<1>2. workers'[p].result.clean => workers[p].result.clean
  BY <1>1 DEF Unsupervised, NoWorker, NoResult
<1>3. Admitted(p)' /\ ~Blocking(p)' =>
        \/ Admitted(p) /\ ~Blocking(p)
        \/ proc'[p] \in {"none", "exited"} /\ ~kids'[p]
  <2>1. CASE p # r
    BY <2>1, OtherRun DEF Admitted, Blocking, Last
  <2>2. CASE p = r
    <3>1. \/ Last(r)' = Last(r) /\ (Admitted(r)' <=> Admitted(r))
          \/ /\ Admitted(r)'
             /\ tr => Last(r)'.st = s.st /\ Last(r)'.q = s.q
             /\ ~tr => Last(r)' = Last(r)
      BY CommittedRun
    <3>2. CASE tr
      BY <2>2, <3>1, <3>2 DEF Blocking
    <3>3. CASE ~tr
      BY <2>2, <3>1, <3>3 DEF Blocking
    <3> QED
      BY <3>2, <3>3
  <2> QED
    BY <2>1, <2>2
<1> QED
  BY <1>2, <1>3, CleanStep DEF Clean

-----------------------------------------------------------------------------
(* One lemma per kind of step *)

\* The processes and pipes are as before.
LEMMA OsKept ==
  ASSUME UNCHANGED <<proc, kids, pipe>>, NEW p \in Runs
  PROVE  /\ OsStep(p)
         /\ PipeKept(p)
BY Zenon DEF OsStep, PipeKept

\* One message has been taken from a pipe.
LEMMA ReceiveKept ==
  ASSUME TypeOK, NEW r \in Runs, NEW kind, Received(r, kind), UNCHANGED <<proc, kids>>,
         NEW p \in Runs
  PROVE  /\ OsStep(p)
         /\ PipeKept(p)
<1>1. OsStep(p)
  BY Zenon DEF OsStep
<1>2. CASE p # r
  BY <1>1, <1>2 DEF Received, TypeOK, PipeKept
<1>3. CASE p = r
  <2>1. pipe[r] \in Seq(Messages) /\ pipe[r] # <<>> /\ pipe'[r] = Tail(pipe[r])
    BY DEF Received, TypeOK
  <2>2. \A i \in DOMAIN Tail(pipe[r]) :
          i + 1 \in DOMAIN pipe[r] /\ Tail(pipe[r])[i] = pipe[r][i + 1]
    BY <2>1
  <2> QED
    BY <1>1, <1>3, <2>1, <2>2 DEF PipeKept
<1> QED
  BY <1>2, <1>3

LEMMA SubmitClean ==
  ASSUME TypeOK, Consistent, Clean, NEW r \in Runs, NEW i \in Inputs, NEW o \in Outcomes,
         Submit(r, i, o)
  PROVE  Clean'
<1> DEFINE s == [NoState EXCEPT !.st = "queued"]
<1>1. phase = "up" /\ UNCHANGED <<proc, kids, pipe>> /\ Commit(r, s, TRUE, o, workers)
  BY DEF Submit, Ready, os
<1>2. s \in RunStates /\ s.st \in ACTIVE
  <2>1. NoState \in RunStates /\ "queued" \in ACTIVE
    BY ConstantFacts DEF ACTIVE
  <2> QED
    BY <2>1, StateFacts
<1> HIDE DEF s
<1> QED
  BY <1>1, <1>2, OsKept, CommitClean DEF TypeOK

\* A run that was not launched has no process to leave.
LEMMA CancelClean ==
  ASSUME TypeOK, Consistent, Clean, NEW r \in Runs, NEW o \in Outcomes,
         CancelQueued(r, o) \/ CancelRunning(r, o) \/ LaunchFails(r, o)
  PROVE  Clean'
<1>1. Healthy /\ UNCHANGED <<proc, kids, pipe>>
  BY DEF CancelQueued, CancelRunning, LaunchFails, Launchable, Ready, Healthy, os
<1>2. /\ \A st \in {"stopped", "failed", "cancelling"} :
           [states[r] EXCEPT !.st = st] \in RunStates
      /\ [states[r] EXCEPT !.st = "cancelling"].st = "cancelling"
      /\ "cancelling" \in ACTIVE
  <2>1. /\ states[r] \in RunStates /\ "cancelling" \in ACTIVE
        /\ {"stopped", "failed", "cancelling"} \subseteq ACTIVE \cup TERMINAL
    BY DEF TypeOK, ACTIVE, TERMINAL
  <2> QED
    BY <2>1, StateFacts
<1>3. CASE CancelQueued(r, o) \/ LaunchFails(r, o)
  <2>1. states[r].st = "queued" /\ proc[r] = "none" /\ ~kids[r]
    <3>1. states[r].st = "queued"
      BY <1>3 DEF CancelQueued, LaunchFails, Launchable
    <3>2. proc[r] = "none"
      BY <1>1, <3>1 DEF Consistent, ServiceInv, ExecutionInv
    <3> QED
      BY <3>1, <3>2 DEF Clean, CleanInv
  <2>2. PICK st \in {"stopped", "failed"} :
          Commit(r, [states[r] EXCEPT !.st = st], TRUE, o, workers)
    BY <1>3 DEF CancelQueued, LaunchFails
  <2> DEFINE s == [states[r] EXCEPT !.st = st]
  <2>3. s \in RunStates /\ Commit(r, s, TRUE, o, workers)
    BY <1>2, <2>2
  <2> HIDE DEF s
  <2> QED
    BY <1>1, <2>1, <2>3, OsKept, CommitClean DEF Healthy, TypeOK
<1>4. CASE CancelRunning(r, o)
  <2> DEFINE s == [states[r] EXCEPT !.st = "cancelling"]
             w == [workers EXCEPT ![r].cancel = workers[r].on]
  <2>1. /\ w \in [Runs -> WorkerRecords]
        /\ \A p \in Runs : w[p].result = workers[p].result
    BY DEF TypeOK, WorkerRecords
  <2>2. s \in RunStates /\ s.st \in ACTIVE /\ Commit(r, s, TRUE, o, w)
    BY <1>2, <1>4 DEF CancelRunning
  <2> HIDE DEF s, w
  <2> QED
    BY <1>1, <2>1, <2>2, OsKept, CommitClean DEF Healthy
<1> QED
  BY <1>3, <1>4

\* A launch finds no process and no result.
LEMMA LaunchClean ==
  ASSUME TypeOK, Consistent, Clean, NEW r \in Runs, NEW o \in Outcomes, Launch(r, o)
  PROVE  Clean'
<1> DEFINE s == [states[r] EXCEPT !.st = "running"]
           w == [workers EXCEPT ![r] = NewWorker]
<1>1. /\ Healthy /\ states[r].st = "queued" /\ Commit(r, s, TRUE, o, w)
      /\ proc' = [proc EXCEPT ![r] = "alive"] /\ pipe' = [pipe EXCEPT ![r] = <<>>]
      /\ kids' = kids
  BY DEF Launch, Launchable, Ready, Healthy
<1>2. s \in RunStates /\ s.st = "running"
  <2>1. states[r] \in RunStates /\ "running" \in ACTIVE
    BY DEF TypeOK, ACTIVE
  <2> QED
    BY <2>1, StateFacts
<1>3. /\ w \in [Runs -> WorkerRecords] /\ ~w[r].result.clean
      /\ \A p \in Runs \ {r} : w[p] = workers[p]
  BY ConstantFacts DEF TypeOK, NewWorker, NoWorker, NoResult
<1> HIDE DEF s, w
<1>4. workers' = w \/ workers' = Unsupervised
  BY <1>1 DEF Commit
<1>5. ~Unsupervised[r].result.clean /\ \A p \in Runs : ~Unsupervised[p].result.clean
  BY DEF Unsupervised, NoWorker, NoResult
<1>6. ASSUME NEW p \in Runs \ {r} PROVE CleanInv(p)'
  <2>1. /\ journal'[p] = journal[p] /\ pipe'[p] = pipe[p]
        /\ proc'[p] = proc[p] /\ kids'[p] = kids[p]
    BY <1>1, <1>2, <1>3, OtherRun DEF Healthy, TypeOK
  <2>2. workers'[p].result.clean => workers[p].result.clean
    BY <1>3, <1>4, <1>5
  <2>3. OsStep(p)
    BY <2>1, Zenon DEF OsStep
  <2> QED
    BY <2>1, <2>2, <2>3, SilentClean DEF Clean
<1>7. CleanInv(r)'
  <2>1. proc'[r] = "alive" /\ pipe'[r] = <<>>
    BY <1>1 DEF TypeOK
  <2>2. Admitted(r)' => Blocking(r)'
    <3>1. \/ Last(r)' = Last(r) /\ (Admitted(r)' <=> Admitted(r))
          \/ Last(r)'.st = s.st
      BY <1>1, <1>2, <1>3, CommittedRun DEF Healthy
    <3>2. Last(r).st = "queued"
      BY <1>1 DEF Consistent, ServiceInv
    <3> QED
      BY <1>2, <3>1, <3>2 DEF Blocking, ACTIVE
  <2>3. ~workers'[r].result.clean
    BY <1>3, <1>4, <1>5
  <2> QED
    BY <2>1, <2>2, <2>3 DEF CleanInv
<1> QED
  BY <1>6, <1>7 DEF Clean

LEMMA AcceptClean ==
  ASSUME TypeOK, Consistent, Clean, NEW r \in Runs, Accept(r)
  PROVE  Clean'
<1>1. ASSUME NEW o \in Outcomes, AcceptEvent(r, o) \/ AcceptState(r, o) PROVE Clean'
  <2>1. /\ Healthy /\ workers[r].on /\ UNCHANGED <<proc, kids>>
        /\ \E kind : Received(r, kind)
    BY <1>1 DEF AcceptEvent, AcceptState, Received, Ticking, Healthy
  <2>2. /\ \A p \in Runs : /\ OsStep(p)
                           /\ PipeKept(p)
    BY <2>1, ReceiveKept
  <2>3. Admitted(r) /\ states[r] \in RunStates /\ states[r].st \in ACTIVE
    BY <2>1 DEF Consistent, ServiceInv, TypeOK, ACTIVE
  <2>4. CASE AcceptEvent(r, o)
    BY <2>1, <2>2, <2>3, <2>4, CommitClean DEF AcceptEvent, Healthy, TypeOK
  <2>5. CASE AcceptState(r, o)
    <3>1. PICK s \in RunStates : s.st \in ACTIVE /\ Commit(r, s, TRUE, o, workers)
      BY <2>3, <2>5, StateReport
    <3> QED
      BY <2>1, <2>2, <3>1, CommitClean DEF Healthy, TypeOK
  <2> QED
    BY <1>1, <2>4, <2>5
<1>2. CASE AcceptResult(r)
  <2> SUFFICES ASSUME NEW p \in Runs PROVE CleanInv(p)'
    BY DEF Clean
  <2>1. /\ UNCHANGED <<proc, kids, journal>> /\ Received(r, "result")
        /\ workers' = [workers EXCEPT ![r].result = Head(pipe[r]).result]
    BY <1>2 DEF AcceptResult, disk
  <2>2. /\ OsStep(p)
        /\ PipeKept(p)
    BY <2>1, ReceiveKept
  <2>3. \/ workers'[p].result = workers[p].result
        \/ \E k \in DOMAIN pipe[p] : workers'[p].result = pipe[p][k].result
    <3>1. CASE p # r
      BY <2>1, <3>1 DEF TypeOK
    <3>2. CASE p = r
      <4>1. pipe[r] \in Seq(Messages) /\ pipe[r] # <<>>
        BY <2>1 DEF Received, TypeOK
      <4>2. 1 \in DOMAIN pipe[r] /\ Head(pipe[r]) = pipe[r][1]
        BY <4>1
      <4>3. workers'[r].result = Head(pipe[r]).result
        BY <2>1 DEF TypeOK, WorkerRecords
      <4> QED
        BY <3>2, <4>2, <4>3
    <3> QED
      BY <3>1, <3>2
  <2> QED
    BY <2>1, <2>2, <2>3, CleanStep DEF Clean, Admitted, Blocking, Last
<1>3. CASE AcceptTorn(r)
  <2> SUFFICES ASSUME NEW p \in Runs PROVE CleanInv(p)'
    BY DEF Clean
  <2>1. /\ UNCHANGED <<proc, kids, journal, workers>> /\ Received(r, "torn")
    BY <1>3 DEF AcceptTorn, disk
  <2>2. /\ OsStep(p)
        /\ PipeKept(p)
    BY <2>1, ReceiveKept
  <2> QED
    BY <2>1, <2>2, CleanStep DEF Clean, Admitted, Blocking, Last
<1> QED
  BY <1>1, <1>2, <1>3 DEF Accept

\* Killing and reaping take processes away and start none.
LEMMA KilledOs ==
  ASSUME TypeOK, NEW r \in Runs, kids' \in {kids, [kids EXCEPT ![r] = FALSE]},
         pipe' = pipe,
         \/ proc' = proc
         \/ Alive(r) /\ \E s \in {"dying", "crashed"} : proc' = [proc EXCEPT ![r] = s],
         NEW p \in Runs
  PROVE  OsStep(p) /\ PipeKept(p)
<1>1. kids'[p] => kids[p]
  BY DEF TypeOK
<1>2. PipeKept(p)
  BY Zenon DEF PipeKept
<1>3. CASE proc' = proc
  BY <1>1, <1>2, <1>3 DEF OsStep
<1>4. CASE Alive(r) /\ \E s \in {"dying", "crashed"} : proc' = [proc EXCEPT ![r] = s]
  <2>1. PICK s \in {"dying", "crashed"} : proc' = [proc EXCEPT ![r] = s]
    BY <1>4
  <2> QED
    BY <1>1, <1>2, <1>4, <2>1 DEF OsStep, TypeOK
<1> QED
  BY <1>3, <1>4

LEMMA ForceStopClean ==
  ASSUME TypeOK, Consistent, Clean, NEW r \in Runs, ForceStop(r)
  PROVE  Clean'
<1> SUFFICES ASSUME NEW p \in Runs PROVE CleanInv(p)'
  BY DEF Clean
<1>1. OsStep(p)
  BY KilledOs DEF ForceStop, Alive
<1>2. workers'[p].result = workers[p].result
  BY DEF ForceStop, TypeOK, WorkerRecords
<1>3. journal'[p] = journal[p] /\ pipe'[p] = pipe[p]
  BY DEF ForceStop
<1> QED
  BY <1>1, <1>2, <1>3, SilentClean DEF Clean

\* A run is reaped as normal only on the word of a clean result; every other end
\* leaves it quarantined.
LEMMA EndClean ==
  ASSUME TypeOK, Consistent, Clean, NEW r \in Runs, NEW o \in Outcomes,
         ReapNormal(r, o) \/ ReapAbnormal(r, o) \/ HandleFatal(r, o)
  PROVE  Clean'
<1>1. /\ phase = "up" /\ pipe' = pipe /\ kids' \in {kids, [kids EXCEPT ![r] = FALSE]}
      /\ \/ proc' = proc
         \/ Alive(r) /\ \E s \in {"dying", "crashed"} : proc' = [proc EXCEPT ![r] = s]
  BY DEF ReapNormal, ReapAbnormal, HandleFatal, Reapable, Ticking
<1>2. \A p \in Runs : OsStep(p) /\ PipeKept(p)
  BY <1>1, KilledOs
<1>3. states[r] \in RunStates /\ "interrupted" \in TERMINAL
  BY DEF TypeOK, TERMINAL
<1>4. \A w \in {Released(r, o), [workers EXCEPT ![r] = NoWorker]} :
        /\ w \in [Runs -> WorkerRecords]
        /\ \A p \in Runs : w[p].result.clean => workers[p].result.clean
  <2> DEFINE w == [workers EXCEPT ![r] = NoWorker]
  <2>1. NoWorker \in WorkerRecords /\ ~NoWorker.result.clean
    BY ConstantFacts DEF NoWorker, NoResult
  <2>2. w \in [Runs -> WorkerRecords]
    BY <2>1 DEF TypeOK
  <2>3. \A p \in Runs : w[p].result.clean => workers[p].result.clean
    BY <2>1 DEF TypeOK
  <2>4. Released(r, o) \in {workers, w}
    BY DEF Released
  <2>5. workers \in [Runs -> WorkerRecords]
    BY DEF TypeOK
  <2> HIDE DEF w
  <2>6. \A x \in {workers, w} :
          /\ x \in [Runs -> WorkerRecords]
          /\ \A p \in Runs : x[p].result.clean => workers[p].result.clean
    BY <2>2, <2>3, <2>5
  <2>7. {Released(r, o), w} \subseteq {workers, w}
    BY <2>4
  <2> QED
    BY <2>6, <2>7 DEF w
<1>5. CASE ReapNormal(r, o)
  <2> DEFINE s == [states[r] EXCEPT !.st = FinalStatus(workers[r])]
  <2>1. s \in RunStates
    <3>1. FinalStatus(workers[r]) \in TERMINAL
      BY DEF FinalStatus, TERMINAL
    <3> QED
      BY <1>3, <3>1, StateFacts
  <2>2. Commit(r, s, TRUE, o, Released(r, o))
    BY <1>5 DEF ReapNormal
  <2>3. proc'[r] = "exited" /\ ~kids'[r]
    <3>1. proc' = proc /\ proc[r] = "exited" /\ workers[r].result.clean
      BY <1>5 DEF ReapNormal, NormalExit
    <3>2. ~kids[r]
      BY <3>1 DEF Clean, CleanInv, Settled
    <3> QED
      BY <1>1, <3>1, <3>2 DEF TypeOK
  <2> HIDE DEF s
  <2> QED
    BY <1>1, <1>2, <1>4, <2>1, <2>2, <2>3, CommitClean
<1>6. CASE ReapAbnormal(r, o) \/ HandleFatal(r, o)
  <2> DEFINE s == [Quarantined(states[r]) EXCEPT !.st = "interrupted"]
  <2>1. s \in RunStates /\ s.q
    BY <1>3, StateFacts
  <2>2. PICK w \in {Released(r, o), [workers EXCEPT ![r] = NoWorker]} :
          Commit(r, s, TRUE, o, w)
    BY <1>6 DEF ReapAbnormal, HandleFatal
  <2> HIDE DEF s
  <2> QED
    BY <1>1, <1>2, <1>4, <2>1, <2>2, CommitClean
<1> QED
  BY <1>5, <1>6

LEMMA WorkerClean ==
  ASSUME TypeOK, Consistent, Clean, NEW r \in Runs, Worker(r)
  PROVE  Clean'
<1> SUFFICES ASSUME NEW p \in Runs PROVE CleanInv(p)'
  BY DEF Clean
<1>1. journal' = journal /\ workers' = workers
  BY DEF Worker, WorkerEvent, WorkerState, Send, WorkerFork, WorkerResult, WorkerExit,
         WorkerDies, KidsExit, disk, memory
<1>2. ASSUME OsStep(p),
             \/ PipeKept(p)
             \/ \A i \in DOMAIN pipe'[p] : pipe'[p][i].result.clean => Settled(p)'
      PROVE  CleanInv(p)'
  BY <1>1, <1>2, CleanStep DEF Clean, Admitted, Blocking, Last
<1>3. ASSUME NEW m \in Messages, pipe' = [pipe EXCEPT ![r] = Append(@, m)],
             OsStep(p), p = r /\ m.result.clean => Settled(p)'
      PROVE  CleanInv(p)'
  <2>1. CASE p # r
    <3>1. PipeKept(p)
      BY <1>3, <2>1 DEF PipeKept, TypeOK
    <3> QED
      BY <1>2, <1>3, <3>1
  <2>2. CASE p = r
    <3>1. pipe[r] \in Seq(Messages) /\ pipe'[r] = Append(pipe[r], m)
      BY <1>3 DEF TypeOK
    <3>2. \A i \in DOMAIN pipe'[p] : (i \in DOMAIN pipe[p] /\ pipe'[p][i] = pipe[p][i])
                                     \/ pipe'[p][i] = m
      BY <2>2, <3>1
    <3>3. Settled(p) => Settled(p)'
      BY <1>3 DEF OsStep, Settled, Alive
    <3>4. \A i \in DOMAIN pipe'[p] : pipe'[p][i].result.clean => Settled(p)'
      BY <1>3, <2>2, <3>2, <3>3 DEF Clean, CleanInv
    <3> QED
      BY <1>2, <1>3, <3>4
  <2> QED
    BY <2>1, <2>2
<1>4. \A kind \in {"event", "state", "torn"} :
        Message(kind, NoResult) \in Messages /\ ~Message(kind, NoResult).result.clean
  BY ConstantFacts DEF Message, Messages, NoResult
<1>5. ASSUME NEW kind \in {"event", "state"}, Send(r, kind) PROVE CleanInv(p)'
  <2>1. UNCHANGED <<proc, kids>>
    BY <1>5 DEF Send
  <2>2. OsStep(p)
    BY <2>1, Zenon DEF OsStep
  <2> QED
    BY <1>3, <1>4, <1>5, <2>2 DEF Send
<1>6. ASSUME NEW st \in ResultStatuses, WorkerResult(r, st) PROVE CleanInv(p)'
  <2>1. PICK clean \in BOOLEAN :
          /\ kids' = [kids EXCEPT ![r] = @ /\ ~clean]
          /\ pipe' = [pipe EXCEPT ![r] =
                        Append(@, Message("result", [st |-> st, clean |-> clean]))]
    BY <1>6 DEF WorkerResult
  <2>2. proc[r] = "alive" /\ proc' = [proc EXCEPT ![r] = "done"]
    BY <1>6 DEF WorkerResult
  <2> DEFINE m == Message("result", [st |-> st, clean |-> clean])
  <2>3. m \in Messages /\ m.result.clean = clean
    BY DEF Message, Messages, Results
  <2>4. OsStep(p)
    BY <2>1, <2>2 DEF OsStep, Alive, TypeOK
  <2>5. p = r /\ clean => Settled(p)'
    BY <2>1, <2>2 DEF Settled, TypeOK
  <2>6. pipe' = [pipe EXCEPT ![r] = Append(@, m)]
    BY <2>1
  <2> HIDE DEF m
  <2> QED
    BY <1>3, <2>3, <2>4, <2>5, <2>6
<1>7. CASE WorkerDies(r)
  <2>1. OsStep(p)
    BY <1>7 DEF WorkerDies, OsStep, TypeOK
  <2>2. CASE UNCHANGED pipe
    BY <1>2, <2>1, <2>2, Zenon DEF PipeKept
  <2>3. CASE pipe' = [pipe EXCEPT ![r] = Append(@, Message("torn", NoResult))]
    BY <1>3, <1>4, <2>1, <2>3
  <2> QED
    BY <1>7, <2>2, <2>3 DEF WorkerDies
<1>8. CASE WorkerFork(r) \/ WorkerExit(r) \/ KidsExit(r)
  <2>1. OsStep(p)
    BY <1>8 DEF WorkerFork, Works, WorkerExit, KidsExit, OsStep, TypeOK, Alive
  <2>2. UNCHANGED pipe
    BY <1>8 DEF WorkerFork, WorkerExit, KidsExit
  <2> QED
    BY <1>2, <2>1, <2>2, Zenon DEF PipeKept
<1> QED
  BY <1>5, <1>6, <1>7, <1>8 DEF Worker, WorkerEvent, WorkerState

\* Crashes and recovery touch no process, and recovery releases no record.
LEMMA ServiceClean ==
  ASSUME TypeOK, Consistent, Clean, Service
  PROVE  Clean'
<1> SUFFICES ASSUME NEW p \in Runs PROVE CleanInv(p)'
  BY DEF Clean
<1>1. /\ UNCHANGED <<proc, kids>> /\ pipe'[p] \in {pipe[p], <<>>}
      /\ workers' \in {workers, Unsupervised}
  BY DEF Service, Crash, Start, RecoverDone, Recover, RecoverActive, RecoverTerminal,
         RecoverRefused, disk, os
<1>2. OsStep(p)
  BY <1>1, Zenon DEF OsStep
<1>3. workers'[p].result.clean => workers[p].result.clean
  BY <1>1 DEF Unsupervised, NoWorker, NoResult
<1>4. CASE journal'[p] = journal[p]
  BY <1>1, <1>2, <1>3, <1>4, SilentClean DEF Clean
<1>5. CASE journal'[p] # journal[p]
  <2>1. PICK o \in Outcomes : RecoverActive(p, o) \/ RecoverTerminal(p, o)
    <3>1. PICK r \in Runs : Recover(r) /\ ~RecoverRefused(r)
      BY <1>5 DEF Service, Crash, Start, RecoverDone, Recover, RecoverRefused, disk
    <3>2. PICK o \in Outcomes : RecoverActive(r, o) \/ RecoverTerminal(r, o)
      BY <3>1 DEF Recover
    <3>3. r # p => journal'[p] = journal[p]
      BY <3>2 DEF RecoverActive, RecoverTerminal, Write, TypeOK
    <3> QED
      BY <1>5, <3>2, <3>3
  <2>2. /\ Repaired(journal[p]) \in Journals /\ Repaired(journal[p]).last = journal[p].last
        /\ Reloaded(p) \in RunStates
    BY ReloadFacts
  <2>3. Last(p)' = Last(p) \/ Last(p)'.q
    <3>1. CASE RecoverTerminal(p, o)
      BY <2>2, <3>1 DEF RecoverTerminal, Last, TypeOK
    <3>2. CASE RecoverActive(p, o)
      <4> DEFINE s == [Quarantined(Reloaded(p)) EXCEPT !.st = "interrupted"]
                 s1 == [s EXCEPT !.seq = @ + 1]
      <4>1. s1 \in RunStates /\ s1.q
        <5>1. s \in RunStates /\ s.q
          BY <2>2, StateFacts DEF TERMINAL
        <5> HIDE DEF s
        <5> QED
          BY <5>1 DEF RunStates
      <4>2. journal'[p] = Appended(Repaired(journal[p]), s1, TRUE, o)
        BY <3>2 DEF RecoverActive, Write, TypeOK
      <4> HIDE DEF s1
      <4>3. \/ Appended(Repaired(journal[p]), s1, TRUE, o).last = journal[p].last
            \/ Appended(Repaired(journal[p]), s1, TRUE, o).last = s1
        BY <2>2, <4>1, AppendedFacts
      <4> QED
        BY <4>1, <4>2, <4>3 DEF Last
    <3> QED
      BY <2>1, <3>1, <3>2
  <2>4. Admitted(p)
    BY <2>1 DEF RecoverActive, RecoverTerminal, Pending, Admitted
  <2>5. PipeKept(p)
    BY <1>1 DEF PipeKept
  <2> QED
    BY <1>2, <1>3, <2>3, <2>4, <2>5, CleanStep DEF Clean, Blocking
<1> QED
  BY <1>4, <1>5

\* Clean results tell the truth, and a run lets go of its session only when
\* nothing of it is left (run_agent's cleanup, _drain, the exit test of _tick).
THEOREM CleanInvariance == Spec => [](TypeOK /\ Consistent /\ Clean)
<1>1. Init => Clean
  BY DEF Init, Clean, CleanInv, Admitted, NoWorker, NoResult, NoJournal
<1>2. TypeOK /\ Consistent /\ Clean /\ [Next]_vars => Clean'
  <2> SUFFICES ASSUME TypeOK, Consistent, Clean, [Next]_vars PROVE Clean'
    OBVIOUS
  <2>1. ASSUME UNCHANGED <<proc, kids, pipe, journal, workers>> PROVE Clean'
    BY <2>1 DEF Clean, CleanInv, Settled, Admitted, Blocking, Last
  <2>2. CASE Client
    <3>1. ASSUME NEW r \in Runs, ReadEvents(r) PROVE Clean'
      BY <2>1, <3>1 DEF ReadEvents, disk, memory, os
    <3> QED
      BY <2>2, <3>1, SubmitClean, CancelClean DEF Client
  <2>3. CASE Stop \/ MonitorExit
    BY <2>1, <2>3 DEF Stop, MonitorExit, disk, os
  <2>4. CASE Monitor
    <3>1. ASSUME NEW r \in Runs, LaunchRaises(r) PROVE Clean'
      BY <2>1, <3>1 DEF LaunchRaises, disk, os
    <3> QED
      BY <2>3, <2>4, <3>1, AcceptClean, ForceStopClean, EndClean, LaunchClean, CancelClean
         DEF Monitor, Reap, LaunchQueued, Fail
  <2>5. CASE Service
    BY <2>5, ServiceClean
  <2>6. CASE \E r \in Runs : Worker(r)
    BY <2>6, WorkerClean
  <2>7. CASE UNCHANGED vars
    BY <2>1, <2>7 DEF vars
  <2> QED
    BY <2>2, <2>3, <2>4, <2>5, <2>6, <2>7 DEF Next
<1> QED
  BY <1>1, <1>2, Invariance, PTL DEF Spec

\* A run whose record lets the next run of its session in has left no process
\* behind: it exited normally, and everything it started is gone.
THEOREM ReleasedIsClean == Spec => []ReleaseIsClean
<1>1. Clean => ReleaseIsClean
  BY DEF Clean, CleanInv, ReleaseIsClean
<1> QED
  BY <1>1, CleanInvariance, PTL

-----------------------------------------------------------------------------
(* Worktrees *)

\* No mark in the worktree registry is taken back.
MarksKept ==
  \A p \in Runs : registry[p] = "quarantined" => registry'[p] = "quarantined"

\* What _quarantine does to the registry when that does not refuse.
LEMMA RegistryMarks ==
  ASSUME TypeOK, "registry_error" \notin Faults, NEW r \in Runs, NEW s \in RunStates,
         registry' \in RegistryAfter(r, s)
  PROVE  MarksKept /\ (s.bound => registry'[r] = "quarantined")
<1>1. registry \in [Runs -> {"open", "quarantined"}]
  BY DEF TypeOK
<1>2. registry' = IF s.bound THEN [registry EXCEPT ![r] = "quarantined"] ELSE registry
  BY DEF RegistryAfter
<1> QED
  BY <1>1, <1>2 DEF MarksKept

\* A record that was not written, or is written as it was, needs no new mark.
LEMMA SilentMarks ==
  ASSUME WorktreeFollowsRun, MarksKept, \A p \in Runs : Last(p)' = Last(p)
  PROVE  WorktreeFollowsRun'
BY DEF WorktreeFollowsRun, MarksKept

\* A commit keeps the registry in step if the record it writes has its mark.
LEMMA CommitMarks ==
  ASSUME TypeOK, WorktreeFollowsRun, phase = "up",
         NEW r \in Runs, NEW s \in RunStates, NEW tr \in BOOLEAN,
         NEW o \in Outcomes, NEW w \in [Runs -> WorkerRecords],
         Commit(r, s, tr, o, w), MarksKept,
         tr /\ s.st = "interrupted" /\ s.bound => registry'[r] = "quarantined"
  PROVE  WorktreeFollowsRun'
<1> DEFINE s1 == [s EXCEPT !.seq = @ + 1]
<1>1. /\ s1.st = s.st /\ s1.bound = s.bound
      /\ \A p \in Runs \ {r} : journal'[p] = journal[p]
      /\ \/ journal'[r].last = journal[r].last
         \/ journal'[r].last = IF tr THEN s1 ELSE journal[r].last
  BY CommitFacts
<1> HIDE DEF s1
<1>2. \A p \in Runs \ {r} : Last(p)' = Last(p)
  BY <1>1 DEF Last
<1>3. Last(r)' = Last(r) \/ (tr /\ Last(r)' = s1)
  BY <1>1 DEF Last
<1> QED
  BY <1>1, <1>2, <1>3 DEF WorktreeFollowsRun, MarksKept

\* The binding of a state outlives what is done to its status and its claim.
LEMMA BindingKept ==
  ASSUME NEW s \in RunStates, NEW st \in ACTIVE \cup TERMINAL
  PROVE  /\ [s EXCEPT !.st = st].bound = s.bound
         /\ [Quarantined(s) EXCEPT !.st = st].bound = s.bound
BY DEF RunStates, Quarantined

\* The commits that end nothing, or end it otherwise than interrupted.
LEMMA OrderlyMarks ==
  ASSUME TypeOK, Consistent, WorktreeFollowsRun, NEW r \in Runs, NEW o \in Outcomes,
         \/ \E i \in Inputs : Submit(r, i, o)
         \/ CancelQueued(r, o) \/ CancelRunning(r, o)
         \/ Launch(r, o) \/ LaunchFails(r, o)
         \/ AcceptEvent(r, o) \/ AcceptState(r, o) \/ ReapNormal(r, o)
  PROVE  WorktreeFollowsRun'
<1>1. phase = "up" /\ registry' = registry
  BY DEF Submit, CancelQueued, CancelRunning, Launch, LaunchFails, Launchable, Ready,
         AcceptEvent, AcceptState, Received, ReapNormal, Reapable, Ticking
<1>2. MarksKept
  BY <1>1 DEF MarksKept
<1>3. states[r] \in RunStates /\ workers \in [Runs -> WorkerRecords]
  BY DEF TypeOK
<1>4. /\ NewWorker \in WorkerRecords /\ NoWorker \in WorkerRecords /\ NoState \in RunStates
  BY ConstantFacts
<1> DEFINE c == [workers EXCEPT ![r].cancel = workers[r].on]
           n == [workers EXCEPT ![r] = NewWorker]
<1>5. c \in [Runs -> WorkerRecords] /\ n \in [Runs -> WorkerRecords]
  BY <1>3, <1>4 DEF WorkerRecords
<1>6. Released(r, o) \in [Runs -> WorkerRecords]
  BY <1>3, <1>4 DEF Released
<1> HIDE DEF c, n
<1>7. ASSUME NEW s \in {NoState, states[r]}, NEW st \in (ACTIVE \cup TERMINAL) \ {"interrupted"}
      PROVE  [s EXCEPT !.st = st] \in RunStates /\ [s EXCEPT !.st = st].st # "interrupted"
  <2>1. s \in RunStates /\ st \in ACTIVE \cup TERMINAL
    BY <1>3, <1>4
  <2> QED
    BY <2>1, <1>7, StateFacts
<1>8. ASSUME NEW s \in {NoState, states[r]},
             NEW st \in (ACTIVE \cup TERMINAL) \ {"interrupted"},
             NEW w \in [Runs -> WorkerRecords],
             Commit(r, [s EXCEPT !.st = st], TRUE, o, w)
      PROVE  WorktreeFollowsRun'
  <2> DEFINE t == [s EXCEPT !.st = st]
  <2>1. t \in RunStates /\ t.st # "interrupted" /\ Commit(r, t, TRUE, o, w)
    BY <1>7, <1>8
  <2> HIDE DEF t
  <2> QED
    BY <1>1, <1>2, <2>1, CommitMarks
<1>9. /\ \A st \in {"queued", "stopped", "cancelling", "running", "failed", "completed"} :
           st \in (ACTIVE \cup TERMINAL) \ {"interrupted"}
      /\ FinalStatus(workers[r]) \in {"stopped", "failed", "completed"}
  BY DEF ACTIVE, TERMINAL, FinalStatus
<1>10. CASE \E i \in Inputs : Submit(r, i, o)
  <2>1. Commit(r, [NoState EXCEPT !.st = "queued"], TRUE, o, workers)
    BY <1>10 DEF Submit
  <2> QED
    BY <1>3, <1>8, <1>9, <2>1
<1>11. CASE \/ CancelQueued(r, o) \/ CancelRunning(r, o) \/ Launch(r, o) \/ LaunchFails(r, o)
            \/ ReapNormal(r, o)
  <2>1. \E st \in {"stopped", "cancelling", "running", "failed", "completed"},
           w \in {workers, c, n, Released(r, o)} :
          Commit(r, [states[r] EXCEPT !.st = st], TRUE, o, w)
    BY <1>9, <1>11 DEF CancelQueued, CancelRunning, Launch, LaunchFails, ReapNormal, c, n
  <2> QED
    BY <1>3, <1>5, <1>6, <1>8, <1>9, <2>1
<1>12. CASE AcceptEvent(r, o)
  <2>1. Commit(r, states[r], FALSE, o, workers)
    BY <1>12 DEF AcceptEvent
  <2> QED
    BY <1>1, <1>2, <1>3, <2>1, CommitMarks
<1>13. CASE AcceptState(r, o)
  <2>1. PICK s \in RunStates : s.st = states[r].st /\ Commit(r, s, TRUE, o, workers)
    BY <1>3, <1>13, StateReport
  <2>2. states[r].st # "interrupted"
    BY <1>13 DEF AcceptState, Received, Ticking, Consistent, ServiceInv, Healthy
  <2> QED
    BY <1>1, <1>2, <1>3, <2>1, <2>2, CommitMarks
<1> QED
  BY <1>10, <1>11, <1>12, <1>13

\* The steps that give a run up: the mark is made before the record is written.
LEMMA AbandonMarks ==
  ASSUME TypeOK, Consistent, WorktreeFollowsRun, "registry_error" \notin Faults,
         NEW r \in Runs, NEW o \in Outcomes,
         ReapAbnormal(r, o) \/ HandleFatal(r, o)
  PROVE  WorktreeFollowsRun'
<1> DEFINE q == [Quarantined(states[r]) EXCEPT !.st = "interrupted"]
           n == [workers EXCEPT ![r] = NoWorker]
<1>1. /\ phase = "up" /\ registry' \in RegistryAfter(r, states[r])
      /\ Commit(r, q, TRUE, o, Released(r, o)) \/ Commit(r, q, TRUE, o, n)
  BY DEF ReapAbnormal, HandleFatal, Reapable, Ticking
<1>2. states[r] \in RunStates /\ workers \in [Runs -> WorkerRecords]
  BY DEF TypeOK
<1>3. MarksKept /\ (states[r].bound => registry'[r] = "quarantined")
  BY <1>1, <1>2, RegistryMarks
<1>4. q \in RunStates /\ q.bound = states[r].bound
  <2>1. "interrupted" \in ACTIVE \cup TERMINAL
    BY DEF TERMINAL
  <2>2. q \in RunStates
    BY <1>2, <2>1, StateFacts
  <2>3. q.bound = states[r].bound
    BY <1>2, <2>1, BindingKept
  <2> QED
    BY <2>2, <2>3
<1>5. n \in [Runs -> WorkerRecords] /\ Released(r, o) \in [Runs -> WorkerRecords]
  BY <1>2, ConstantFacts DEF Released
<1> HIDE DEF q, n
<1> QED
  BY <1>1, <1>3, <1>4, <1>5, CommitMarks

LEMMA RecoverMarks ==
  ASSUME TypeOK, WorktreeFollowsRun, "registry_error" \notin Faults,
         NEW r \in Runs, NEW o \in Outcomes,
         RecoverActive(r, o) \/ RecoverTerminal(r, o)
  PROVE  WorktreeFollowsRun'
<1>1. /\ journal[r] \in Journals /\ journal[r].last \in RunStates
      /\ journal \in [Runs -> Journals]
  BY DEF TypeOK, Journals
<1>2. /\ Repaired(journal[r]) \in Journals /\ Repaired(journal[r]).last = journal[r].last
  BY ReloadFacts
<1>3. CASE RecoverTerminal(r, o)
  <2>1. /\ journal' = [journal EXCEPT ![r] = Repaired(journal[r])]
        /\ registry' = registry
    BY <1>3 DEF RecoverTerminal
  <2>2. \A p \in Runs : Last(p)' = Last(p)
    BY <1>1, <1>2, <2>1 DEF Last
  <2> QED
    BY <2>1, <2>2, SilentMarks DEF MarksKept
<1>4. CASE RecoverActive(r, o)
  <2> DEFINE s == [Quarantined(Reloaded(r)) EXCEPT !.st = "interrupted"]
             s1 == [s EXCEPT !.seq = @ + 1]
             a == Appended(Repaired(journal[r]), s1, TRUE, o)
  <2>1. /\ registry' \in RegistryAfter(r, journal[r].last)
        /\ journal' = [journal EXCEPT ![r] = a]
    BY <1>4 DEF RecoverActive, Write
  <2>2. MarksKept /\ (journal[r].last.bound => registry'[r] = "quarantined")
    BY <1>1, <2>1, RegistryMarks
  <2>3. s1 \in RunStates /\ s1.bound = journal[r].last.bound
    <3>1. Reloaded(r) \in RunStates /\ Reloaded(r).bound = journal[r].last.bound
      BY <1>1 DEF Reloaded, Journals, RunStates
    <3>2. "interrupted" \in ACTIVE \cup TERMINAL
      BY DEF TERMINAL
    <3>3. s \in RunStates
      BY <3>1, <3>2, StateFacts
    <3>4. s.bound = Reloaded(r).bound
      BY <3>1, <3>2, BindingKept
    <3> HIDE DEF s
    <3> QED
      BY <3>1, <3>3, <3>4 DEF RunStates
  <2> HIDE DEF s, s1
  <2>4. a.last = journal[r].last \/ a.last = s1
    BY <1>2, <2>3, AppendedFacts
  <2> HIDE DEF a
  <2>5. journal'[r] = a /\ \A p \in Runs \ {r} : journal'[p] = journal[p]
    BY <1>1, <2>1
  <2> QED
    BY <2>2, <2>3, <2>4, <2>5 DEF WorktreeFollowsRun, MarksKept, Last
<1> QED
  BY <1>3, <1>4

LEMMA StepMarks ==
  ASSUME TypeOK, Consistent, WorktreeFollowsRun, "registry_error" \notin Faults,
         [Next]_vars
  PROVE  WorktreeFollowsRun'
<1>1. ASSUME UNCHANGED <<journal, registry>> PROVE WorktreeFollowsRun'
  BY <1>1 DEF WorktreeFollowsRun, Last
<1>2. CASE Client
  <2>1. ASSUME NEW r \in Runs, ReadEvents(r) PROVE WorktreeFollowsRun'
    BY <1>1, <2>1 DEF ReadEvents, disk
  <2> QED
    BY <1>2, <2>1, OrderlyMarks DEF Client
<1>3. CASE Stop \/ MonitorExit
  BY <1>1, <1>3 DEF Stop, MonitorExit, disk
<1>4. CASE Monitor
  <2>1. ASSUME NEW r \in Runs, LaunchRaises(r) \/ AcceptResult(r) \/ AcceptTorn(r)
        PROVE  WorktreeFollowsRun'
    BY <1>1, <2>1 DEF LaunchRaises, AcceptResult, AcceptTorn, disk
  <2>2. ASSUME NEW r \in Runs, ForceStop(r) PROVE WorktreeFollowsRun'
    <3>1. /\ registry' \in RegistryAfter(r, states[r]) /\ journal' = journal
          /\ states[r] \in RunStates
      BY <2>2 DEF ForceStop, TypeOK
    <3>2. MarksKept
      BY <3>1, RegistryMarks
    <3> QED
      BY <3>1, <3>2, SilentMarks DEF Last
  <2> QED
    BY <1>3, <1>4, <2>1, <2>2, OrderlyMarks, AbandonMarks
       DEF Monitor, Accept, Reap, LaunchQueued, Fail
<1>5. CASE Service
  <2>1. ASSUME Crash \/ Start \/ RecoverDone \/ \E r \in Runs : RecoverRefused(r)
        PROVE  WorktreeFollowsRun'
    BY <1>1, <2>1 DEF Crash, Start, RecoverDone, RecoverRefused, disk
  <2> QED
    BY <1>5, <2>1, RecoverMarks DEF Service, Recover
<1>6. ASSUME NEW r \in Runs, Worker(r) PROVE WorktreeFollowsRun'
  BY <1>1, <1>6
     DEF Worker, WorkerEvent, WorkerState, Send, WorkerFork, WorkerResult, WorkerExit,
         WorkerDies, KidsExit, disk
<1>7. CASE UNCHANGED vars
  BY <1>1, <1>7 DEF vars
<1> QED
  BY <1>2, <1>3, <1>4, <1>5, <1>6, <1>7 DEF Next

\* As long as the worktree registry refuses no quarantine, a run whose record says
\* it was interrupted has its known worktree quarantined there, through every
\* crash and every failed or torn commit (_quarantine in _tick, _monitor and
\* _recover).  The registry is told first: a crash in between leaves a mark too many.
THEOREM WorktreesFollow ==
  ASSUME "registry_error" \notin Faults
  PROVE  Spec => []WorktreeFollowsRun
<1>1. Init => WorktreeFollowsRun
  BY DEF Init, WorktreeFollowsRun, Last, NoJournal, NoState
<1>2. TypeOK /\ Consistent /\ WorktreeFollowsRun /\ [Next]_vars => WorktreeFollowsRun'
  BY StepMarks
<1> QED
  BY <1>1, <1>2, Invariance, PTL DEF Spec

-----------------------------------------------------------------------------
(* Limits *)

\* The runs that count against the queue.
ActiveRuns == {r \in Runs : Active(r)}

\* Neither the workers nor the runs admitted exceed what the service was given.
WithinLimits ==
  /\ Cardinality(Busy) <= MaxWorkers
  /\ Cardinality(ActiveRuns) <= MaxWorkers + MaxPending

\* A set of runs that gains one member at most, below the limit, stays within it.
LEMMA GainsOne ==
  ASSUME NEW S \in SUBSET Runs, NEW T \in SUBSET Runs, NEW n \in Nat, NEW r \in Runs,
         Cardinality(S) <= n,
         T \subseteq S \/ (Cardinality(S) < n /\ T \subseteq S \cup {r})
  PROVE  Cardinality(T) <= n
<1>1. IsFiniteSet(Runs)
  BY BoundsAssumption, FS_Interval DEF Runs
<1>2. IsFiniteSet(S) /\ IsFiniteSet(T)
  BY <1>1, FS_Subset
<1>3. Cardinality(S) \in Nat /\ Cardinality(T) \in Nat
  BY <1>2, FS_CardinalityType
<1>4. CASE T \subseteq S
  <2>1. Cardinality(T) <= Cardinality(S)
    BY <1>2, <1>4, FS_Subset
  <2> QED
    BY <1>3, <2>1
<1>5. CASE Cardinality(S) < n /\ T \subseteq S \cup {r}
  <2>1. /\ IsFiniteSet(S \cup {r}) /\ Cardinality(S \cup {r}) \in Nat
        /\ Cardinality(S \cup {r}) <= Cardinality(S) + 1
    BY <1>2, <1>3, FS_AddElement, FS_CardinalityType
  <2>2. Cardinality(T) <= Cardinality(S \cup {r})
    BY <1>5, <2>1, FS_Subset
  <2> QED
    BY <1>3, <1>5, <2>1, <2>2
<1> QED
  BY <1>4, <1>5

\* No worker slot is taken by the step; no run becomes active in it.
SlotsKept == \A p \in Runs : workers'[p].on => workers[p].on
ActiveKept == \A p \in Runs : Active(p)' => Active(p)

\* A commit takes no slot its caller does not take, and makes no run active that
\* was not and that it does not write so.
LEMMA CommitLimits ==
  ASSUME TypeOK, NEW r \in Runs, NEW s \in RunStates, NEW tr \in BOOLEAN,
         NEW o \in Outcomes, NEW w \in [Runs -> WorkerRecords],
         Commit(r, s, tr, o, w)
  PROVE  /\ \A p \in Runs : workers'[p].on => w[p].on
         /\ \A p \in Runs \ {r} : Active(p)' => Active(p)
         /\ (s.st \in ACTIVE => Active(r)) => ActiveKept
<1> DEFINE s1 == [s EXCEPT !.seq = @ + 1]
<1>1. s1.st = s.st
  BY DEF RunStates
<1>2. /\ workers' = Unsupervised \/ workers' = w
      /\ states' = Unloaded \/ states' = [states EXCEPT ![r] = s1]
  BY DEF Commit, Write
<1> HIDE DEF s1
<1>3. \A p \in Runs : workers'[p].on => w[p].on
  BY <1>2, ConstantFacts DEF Unsupervised
<1>4. /\ \A p \in Runs \ {r} : Active(p)' => Active(p)
      /\ Active(r)' => s.st \in ACTIVE
  <2>1. CASE states' = Unloaded
    BY <2>1, ConstantFacts DEF Unloaded, Active, ACTIVE
  <2>2. CASE states' = [states EXCEPT ![r] = s1]
    BY <1>1, <2>2 DEF Active, TypeOK
  <2> QED
    BY <1>2, <2>1, <2>2
<1> QED
  BY <1>3, <1>4 DEF ActiveKept

LEMMA SubmitLimits ==
  ASSUME TypeOK, WithinLimits, NEW r \in Runs, NEW i \in Inputs, NEW o \in Outcomes,
         Submit(r, i, o)
  PROVE  WithinLimits'
<1> DEFINE s == [NoState EXCEPT !.st = "queued"]
<1>1. /\ Commit(r, s, TRUE, o, workers)
      /\ Cardinality(ActiveRuns) < MaxWorkers + MaxPending
  BY DEF Submit, Admissible, ActiveRuns
<1>2. s \in RunStates /\ workers \in [Runs -> WorkerRecords]
  BY ConstantFacts, StateFacts DEF ACTIVE, TypeOK
<1> HIDE DEF s
<1>3. SlotsKept /\ \A p \in Runs \ {r} : Active(p)' => Active(p)
  BY <1>1, <1>2, CommitLimits DEF SlotsKept
<1>4. Busy' \subseteq Busy /\ ActiveRuns' \subseteq ActiveRuns \cup {r}
  BY <1>3 DEF SlotsKept, Busy, ActiveRuns
<1>5. /\ Busy \in SUBSET Runs /\ Busy' \in SUBSET Runs
      /\ ActiveRuns \in SUBSET Runs /\ ActiveRuns' \in SUBSET Runs
      /\ MaxWorkers \in Nat /\ MaxWorkers + MaxPending \in Nat
  BY CapacityAssumption DEF Busy, ActiveRuns
<1>6. Cardinality(Busy') <= MaxWorkers
  BY <1>4, <1>5, GainsOne DEF WithinLimits
<1>7. Cardinality(ActiveRuns') <= MaxWorkers + MaxPending
  BY <1>1, <1>4, <1>5, GainsOne DEF WithinLimits
<1> QED
  BY <1>6, <1>7 DEF WithinLimits

\* Every other step takes one free slot at most and makes no run active.
LEMMA StepLimits ==
  ASSUME TypeOK, WithinLimits, ActiveKept, NEW r \in Runs,
         SlotsKept \/ (Cardinality(Busy) < MaxWorkers
                       /\ \A p \in Runs \ {r} : workers'[p].on => workers[p].on)
  PROVE  WithinLimits'
<1>1. /\ Busy' \subseteq Busy \/ (Cardinality(Busy) < MaxWorkers /\ Busy' \subseteq Busy \cup {r})
      /\ ActiveRuns' \subseteq ActiveRuns
  BY DEF SlotsKept, ActiveKept, Busy, ActiveRuns
<1>2. /\ Busy \in SUBSET Runs /\ Busy' \in SUBSET Runs
      /\ ActiveRuns \in SUBSET Runs /\ ActiveRuns' \in SUBSET Runs
      /\ MaxWorkers \in Nat /\ MaxWorkers + MaxPending \in Nat
  BY CapacityAssumption DEF Busy, ActiveRuns
<1>3. Cardinality(Busy') <= MaxWorkers
  BY <1>1, <1>2, GainsOne DEF WithinLimits
<1>4. Cardinality(ActiveRuns') <= MaxWorkers + MaxPending
  BY <1>1, <1>2, GainsOne DEF WithinLimits
<1> QED
  BY <1>3, <1>4 DEF WithinLimits

LEMMA RunLimits ==
  ASSUME TypeOK, Consistent, WithinLimits, NEW r \in Runs, NEW o \in Outcomes,
         \/ CancelQueued(r, o) \/ CancelRunning(r, o)
         \/ Launch(r, o) \/ LaunchFails(r, o)
         \/ AcceptEvent(r, o) \/ AcceptState(r, o)
         \/ ReapNormal(r, o) \/ ReapAbnormal(r, o) \/ HandleFatal(r, o)
  PROVE  WithinLimits'
<1> DEFINE c == [workers EXCEPT ![r].cancel = workers[r].on]
           n == [workers EXCEPT ![r] = NoWorker]
           l == [workers EXCEPT ![r] = NewWorker]
           q == [Quarantined(states[r]) EXCEPT !.st = "interrupted"]
<1>1. states[r] \in RunStates /\ workers \in [Runs -> WorkerRecords]
  BY DEF TypeOK
<1>2. /\ NoWorker \in WorkerRecords /\ NewWorker \in WorkerRecords /\ ~NoWorker.on
  BY ConstantFacts
<1>3. /\ c \in [Runs -> WorkerRecords] /\ \A p \in Runs : c[p].on => workers[p].on
      /\ n \in [Runs -> WorkerRecords] /\ \A p \in Runs : n[p].on => workers[p].on
      /\ l \in [Runs -> WorkerRecords] /\ \A p \in Runs \ {r} : l[p] = workers[p]
  BY <1>1, <1>2 DEF WorkerRecords
<1>4. Released(r, o) \in {workers, n}
  BY DEF Released
<1>5. q \in RunStates /\ q.st \notin ACTIVE
  <2>1. "interrupted" \in ACTIVE \cup TERMINAL /\ "interrupted" \notin ACTIVE
    BY DEF ACTIVE, TERMINAL
  <2>2. q \in RunStates /\ q.st = "interrupted"
    BY <1>1, <2>1, StateFacts
  <2> QED
    BY <2>1, <2>2
<1> HIDE DEF c, n, l, q
<1>6. ASSUME NEW st \in ACTIVE \cup TERMINAL
      PROVE  [states[r] EXCEPT !.st = st] \in RunStates /\ [states[r] EXCEPT !.st = st].st = st
  BY <1>1, StateFacts
\* The three kinds of step: one that takes no slot, one that frees one, a launch.
<1>7. ASSUME NEW s \in RunStates, s.st \in ACTIVE => Active(r),
             NEW tr \in BOOLEAN, NEW w \in {workers, c, n}, Commit(r, s, tr, o, w)
      PROVE  WithinLimits'
  <2>1. w \in [Runs -> WorkerRecords] /\ \A p \in Runs : w[p].on => workers[p].on
    BY <1>1, <1>3
  <2>2. SlotsKept /\ ActiveKept
    BY <1>7, <2>1, CommitLimits DEF SlotsKept
  <2> QED
    BY <2>2, StepLimits
<1>8. CASE CancelQueued(r, o) \/ LaunchFails(r, o) \/ ReapNormal(r, o)
  <2>1. FinalStatus(workers[r]) \in {"stopped", "failed", "completed"}
    BY DEF FinalStatus
  <2>2. PICK st \in {"stopped", "failed", "completed"}, w \in {workers, n} :
          Commit(r, [states[r] EXCEPT !.st = st], TRUE, o, w)
    BY <1>4, <1>8, <2>1 DEF CancelQueued, LaunchFails, ReapNormal
  <2>3. st \in TERMINAL /\ st \notin ACTIVE
    BY DEF TERMINAL, ACTIVE
  <2> DEFINE s == [states[r] EXCEPT !.st = st]
  <2>4. s \in RunStates /\ s.st = st /\ Commit(r, s, TRUE, o, w)
    BY <1>6, <2>2, <2>3
  <2> HIDE DEF s
  <2> QED
    BY <1>7, <2>3, <2>4
<1>9. CASE CancelRunning(r, o)
  <2> DEFINE s == [states[r] EXCEPT !.st = "cancelling"]
  <2>1. Commit(r, s, TRUE, o, c) /\ Active(r)
    BY <1>9 DEF CancelRunning, c, Active, ACTIVE
  <2>2. s \in RunStates
    BY <1>6 DEF ACTIVE
  <2> HIDE DEF s
  <2> QED
    BY <1>7, <2>1, <2>2
<1>10. CASE AcceptEvent(r, o) \/ AcceptState(r, o)
  <2>1. PICK s \in RunStates, tr \in BOOLEAN :
          s.st = states[r].st /\ Commit(r, s, tr, o, workers)
    BY <1>1, <1>10, StateReport DEF AcceptEvent
  <2> QED
    BY <1>7, <2>1 DEF Active
<1>11. CASE ReapAbnormal(r, o) \/ HandleFatal(r, o)
  <2>1. Commit(r, q, TRUE, o, workers) \/ Commit(r, q, TRUE, o, n)
    BY <1>4, <1>11 DEF ReapAbnormal, HandleFatal, q, n
  <2> QED
    BY <1>5, <1>7, <2>1
<1>12. CASE Launch(r, o)
  <2> DEFINE s == [states[r] EXCEPT !.st = "running"]
  <2>1. /\ Commit(r, s, TRUE, o, l) /\ Cardinality(Busy) < MaxWorkers /\ Active(r)
    BY <1>12 DEF Launch, Launchable, l, Active, ACTIVE
  <2>2. s \in RunStates
    BY <1>6 DEF ACTIVE
  <2> HIDE DEF s
  <2>3. ActiveKept /\ \A p \in Runs : workers'[p].on => l[p].on
    BY <1>3, <2>1, <2>2, CommitLimits
  <2> QED
    BY <1>3, <2>1, <2>3, StepLimits
<1> QED
  BY <1>8, <1>9, <1>10, <1>11, <1>12

LEMMA ServiceLimits ==
  ASSUME TypeOK, Consistent, WithinLimits, Service
  PROVE  SlotsKept /\ ActiveKept
<1>1. CASE Crash
  BY <1>1, ConstantFacts
     DEF Crash, Unloaded, Unsupervised, SlotsKept, ActiveKept, Active, ACTIVE
<1>2. CASE Start \/ RecoverDone \/ \E r \in Runs : RecoverRefused(r)
  BY <1>2 DEF Start, RecoverDone, RecoverRefused, SlotsKept, ActiveKept, Active
<1>3. ASSUME NEW r \in Runs, NEW o \in Outcomes, RecoverActive(r, o) \/ RecoverTerminal(r, o)
      PROVE  SlotsKept /\ ActiveKept
  <2> DEFINE s == [Quarantined(Reloaded(r)) EXCEPT !.st = "interrupted"]
             s1 == [s EXCEPT !.seq = @ + 1]
  <2>1. /\ Reloaded(r) \in RunStates /\ Reloaded(r).st = journal[r].last.st
        /\ states \in [Runs -> RunStates]
    BY ReloadFacts DEF TypeOK
  <2>2. s1.st \notin ACTIVE
    <3>1. s \in RunStates /\ s.st = "interrupted"
      BY <2>1, StateFacts DEF TERMINAL
    <3> HIDE DEF s
    <3>2. s1.st = "interrupted"
      BY <3>1 DEF RunStates
    <3> QED
      BY <3>2 DEF ACTIVE
  <2>3. RecoverActive(r, o) => states' \in {Unloaded, [states EXCEPT ![r] = s1]}
    BY DEF RecoverActive, Write
  <2>4. RecoverTerminal(r, o) =>
          /\ states' = [states EXCEPT ![r] = Reloaded(r)]
          /\ Reloaded(r).st \notin ACTIVE
    BY <2>1 DEF RecoverTerminal, TERMINAL, ACTIVE
  <2> HIDE DEF s, s1
  <2>5. PICK t : states' \in {Unloaded, [states EXCEPT ![r] = t]} /\ t.st \notin ACTIVE
    BY <1>3, <2>2, <2>3, <2>4
  <2>6. ActiveKept
    <3>1. CASE states' = Unloaded
      BY <3>1, ConstantFacts DEF Unloaded, ActiveKept, Active, ACTIVE
    <3>2. CASE states' = [states EXCEPT ![r] = t]
      BY <2>1, <2>5, <3>2 DEF ActiveKept, Active
    <3> QED
      BY <2>5, <3>1, <3>2
  <2>7. SlotsKept
    BY <1>3 DEF RecoverActive, RecoverTerminal, SlotsKept
  <2> QED
    BY <2>6, <2>7
<1> QED
  BY <1>1, <1>2, <1>3 DEF Service, Recover

LEMMA LimitsStep ==
  ASSUME TypeOK, Consistent, WithinLimits, [Next]_vars
  PROVE  WithinLimits'
<1>1. ASSUME UNCHANGED <<states, workers>> PROVE WithinLimits'
  BY <1>1 DEF WithinLimits, Busy, ActiveRuns, Active
<1>2. ASSUME SlotsKept, ActiveKept PROVE WithinLimits'
  <2>1. Runs = {} => Busy' = {} /\ ActiveRuns' = {} /\ Busy = {} /\ ActiveRuns = {}
    BY DEF Busy, ActiveRuns
  <2> QED
    BY <1>2, <2>1, StepLimits DEF WithinLimits
<1>3. CASE Client
  <2>1. ASSUME NEW r \in Runs, ReadEvents(r) PROVE WithinLimits'
    BY <1>1, <2>1 DEF ReadEvents, memory
  <2> QED
    BY <1>3, <2>1, SubmitLimits, RunLimits DEF Client
<1>4. CASE Stop \/ MonitorExit
  BY <1>1, <1>4 DEF Stop, MonitorExit
<1>5. CASE Monitor
  <2>1. ASSUME NEW r \in Runs, LaunchRaises(r) \/ AcceptTorn(r) PROVE WithinLimits'
    BY <1>1, <2>1 DEF LaunchRaises, AcceptTorn
  <2>2. ASSUME NEW r \in Runs, AcceptResult(r) \/ ForceStop(r) PROVE WithinLimits'
    <3>1. SlotsKept
      <4>1. /\ workers \in [Runs -> WorkerRecords]
            /\ \/ workers' = [workers EXCEPT ![r].result = Head(pipe[r]).result]
               \/ workers' = [workers EXCEPT ![r].forced = TRUE]
        BY <2>2 DEF AcceptResult, ForceStop, TypeOK
      <4> QED
        BY <4>1 DEF SlotsKept, WorkerRecords
    <3>2. ActiveKept
      <4>1. /\ states[r] \in RunStates /\ states \in [Runs -> RunStates]
            /\ states' = states \/ states' = [states EXCEPT ![r] = Quarantined(states[r])]
        BY <2>2 DEF AcceptResult, ForceStop, TypeOK
      <4>2. Quarantined(states[r]).st = states[r].st
        BY <4>1, StateFacts DEF ACTIVE
      <4> QED
        BY <4>1, <4>2 DEF ActiveKept, Active
    <3> QED
      BY <1>2, <3>1, <3>2
  <2> QED
    BY <1>4, <1>5, <2>1, <2>2, RunLimits DEF Monitor, Accept, Reap, LaunchQueued, Fail
<1>6. CASE Service
  BY <1>2, <1>6, ServiceLimits
<1>7. ASSUME NEW r \in Runs, Worker(r) PROVE WithinLimits'
  BY <1>1, <1>7
     DEF Worker, WorkerEvent, WorkerState, Send, WorkerFork, WorkerResult, WorkerExit,
         WorkerDies, KidsExit, memory
<1>8. CASE UNCHANGED vars
  BY <1>1, <1>8 DEF vars
<1> QED
  BY <1>3, <1>4, <1>5, <1>6, <1>7, <1>8 DEF Next

\* Whatever fails and however often the service is restarted, it never has more
\* than max_workers workers, and never more than max_workers + max_pending runs
\* that have not ended (submit, _launch, _recover).
THEOREM LimitsHold == Spec => []WithinLimits
<1>1. Init => WithinLimits
  <2> SUFFICES ASSUME Init PROVE WithinLimits
    OBVIOUS
  <2>1. Busy = {} /\ ActiveRuns = {}
    BY ConstantFacts DEF Init, Busy, ActiveRuns, Active, ACTIVE
  <2> QED
    BY <2>1, FS_EmptySet, CapacityAssumption DEF WithinLimits
<1>2. TypeOK /\ Consistent /\ WithinLimits /\ [Next]_vars => WithinLimits'
  BY LimitsStep
<1> QED
  BY <1>1, <1>2, Invariance, PTL DEF Spec

-----------------------------------------------------------------------------
(* Workspaces *)

\* A binding is known to the service as the record has it, and of a run that the
\* service does not know it knows none.
BindingInv(r) ==
  /\ ~Registered(r) => ~states[r].bound
  /\ Healthy \/ (phase = "recovering" /\ Registered(r)) =>
       (states[r].bound <=> Last(r).bound)

Bindings == \A r \in Runs : BindingInv(r)

\* The step leaves every record alone, or extends that of an admitted run.
Extends ==
  \/ UNCHANGED journal
  \/ \E r \in Runs : Admitted(r) /\ \A p \in Runs \ {r} : journal'[p] = journal[p]

LEMMA SilentBindings ==
  ASSUME Bindings, UNCHANGED <<phase, journal, states>>, fatal => fatal'
  PROVE  Bindings'
BY DEF Bindings, BindingInv, Registered, Healthy, Last

\* A commit keeps memory and record together, or fails the service.
LEMMA CommitBindings ==
  ASSUME TypeOK, Bindings, phase = "up",
         NEW r \in Runs, NEW s \in RunStates, NEW tr \in BOOLEAN,
         NEW o \in Outcomes, NEW w \in [Runs -> WorkerRecords],
         Commit(r, s, tr, o, w),
         s.st # "none", ~tr => s = states[r]
  PROVE  Bindings'
<1> DEFINE s1 == [s EXCEPT !.seq = @ + 1]
<1>1. /\ s1.st = s.st /\ s1.bound = s.bound
      /\ phase' \in {"up", "down"}
      /\ \A p \in Runs \ {r} : journal'[p] = journal[p]
      /\ \/ journal'[r].last = journal[r].last /\ (fatal' \/ phase' = "down")
         \/ journal'[r].last = IF tr THEN s1 ELSE journal[r].last
      /\ phase' = "down" => states' = Unloaded
      /\ phase' # "down" => states' = [states EXCEPT ![r] = s1] /\ (fatal => fatal')
  BY CommitFacts
<1> HIDE DEF s1
<1>2. CASE phase' = "down"
  BY <1>1, <1>2 DEF Bindings, BindingInv, Healthy, Registered, Unloaded, NoState
<1>3. CASE phase' = "up"
  <2>1. states'[r] = s1 /\ \A p \in Runs \ {r} : states'[p] = states[p]
    BY <1>1, <1>3 DEF TypeOK
  <2>2. ASSUME NEW p \in Runs \ {r} PROVE BindingInv(p)'
    BY <1>1, <1>3, <2>1 DEF Bindings, BindingInv, Healthy, Registered, Last
  <2>3. BindingInv(r)'
    <3>1. states'[r].st # "none" /\ states'[r].bound = s.bound
      BY <1>1, <2>1
    <3>2. ASSUME Healthy' PROVE s.bound <=> Last(r)'.bound
      <4>1. journal'[r].last = (IF tr THEN s1 ELSE journal[r].last) /\ Healthy
        BY <1>1, <1>3, <3>2 DEF Healthy
      <4>2. states[r].bound <=> Last(r).bound
        BY <4>1 DEF Bindings, BindingInv
      <4> QED
        BY <1>1, <4>1, <4>2 DEF Last
    <3> QED
      BY <1>3, <3>1, <3>2 DEF BindingInv, Registered
  <2> QED
    BY <2>2, <2>3 DEF Bindings
<1> QED
  BY <1>1, <1>2, <1>3

\* A commit writes the record of one run.
LEMMA CommitExtends ==
  ASSUME TypeOK, NEW r \in Runs, Admitted(r), NEW s, NEW tr, NEW o, NEW w,
         Commit(r, s, tr, o, w)
  PROVE  Extends
BY DEF Extends, Commit, Write, TypeOK

\* Submit begins a record and binds nothing.
LEMMA SubmitBindings ==
  ASSUME TypeOK, Bindings, NEW r \in Runs, NEW i \in Inputs, NEW o \in Outcomes,
         Submit(r, i, o)
  PROVE  Bindings'
<1> DEFINE s == [NoState EXCEPT !.st = "queued"]
<1>1. phase = "up" /\ Commit(r, s, TRUE, o, workers)
  BY DEF Submit, Ready
<1>2. s \in RunStates /\ s.st = "queued"
  <2>1. NoState \in RunStates /\ "queued" \in ACTIVE \cup TERMINAL
    BY ConstantFacts DEF ACTIVE
  <2> QED
    BY <2>1, StateFacts
<1> HIDE DEF s
<1> QED
  BY <1>1, <1>2, CommitBindings DEF TypeOK

\* What a healthy service writes of a run that it knows.
LEMMA HealthyBindings ==
  ASSUME TypeOK, Consistent, Bindings, NEW r \in Runs, NEW o \in Outcomes,
         \/ CancelQueued(r, o) \/ CancelRunning(r, o)
         \/ Launch(r, o) \/ LaunchFails(r, o)
         \/ AcceptEvent(r, o) \/ AcceptState(r, o) \/ ReapNormal(r, o)
  PROVE  Bindings' /\ Extends
<1>1. Healthy /\ states[r].st # "none"
  BY DEF CancelQueued, CancelRunning, Launch, LaunchFails, Launchable, Ready, AcceptEvent,
         AcceptState, Received, ReapNormal, Reapable, Ticking, Consistent, ServiceInv, Healthy
<1>2. Admitted(r)
  <2>1. Last(r).st # "none"
    BY <1>1 DEF Consistent, ServiceInv
  <2> QED
    BY <2>1, ConstantFacts DEF Consistent, ExecutionInv
<1>3. states[r] \in RunStates /\ workers \in [Runs -> WorkerRecords]
  BY DEF TypeOK
<1> DEFINE c == [workers EXCEPT ![r].cancel = workers[r].on]
           n == [workers EXCEPT ![r] = NewWorker]
<1>4. /\ c \in [Runs -> WorkerRecords] /\ n \in [Runs -> WorkerRecords]
      /\ Released(r, o) \in [Runs -> WorkerRecords]
  BY <1>3, ConstantFacts DEF WorkerRecords, Released
<1> HIDE DEF c, n
<1>5. /\ \A st \in {"stopped", "cancelling", "running", "failed", "completed"} :
           st \in ACTIVE \cup TERMINAL /\ st # "none"
      /\ FinalStatus(workers[r]) \in {"stopped", "failed", "completed"}
  BY DEF ACTIVE, TERMINAL, FinalStatus
<1>6. ASSUME NEW s \in RunStates, NEW tr \in BOOLEAN, NEW w \in [Runs -> WorkerRecords],
             Commit(r, s, tr, o, w), s.st # "none", ~tr => s = states[r]
      PROVE  Bindings' /\ Extends
  BY <1>1, <1>2, <1>6, CommitBindings, CommitExtends DEF Healthy
<1>7. CASE \/ CancelQueued(r, o) \/ CancelRunning(r, o) \/ Launch(r, o) \/ LaunchFails(r, o)
           \/ ReapNormal(r, o)
  <2>1. PICK st \in {"stopped", "cancelling", "running", "failed", "completed"},
             w \in {workers, c, n, Released(r, o)} :
          Commit(r, [states[r] EXCEPT !.st = st], TRUE, o, w)
    BY <1>5, <1>7 DEF CancelQueued, CancelRunning, Launch, LaunchFails, ReapNormal, c, n
  <2> DEFINE s == [states[r] EXCEPT !.st = st]
  <2>2. s \in RunStates /\ s.st = st
    BY <1>3, <1>5, StateFacts
  <2>3. Commit(r, s, TRUE, o, w) /\ s.st # "none" /\ w \in [Runs -> WorkerRecords]
    BY <1>3, <1>4, <1>5, <2>1, <2>2
  <2> HIDE DEF s
  <2> QED
    BY <1>6, <2>2, <2>3
<1>8. CASE AcceptEvent(r, o)
  <2>1. Commit(r, states[r], FALSE, o, workers)
    BY <1>8 DEF AcceptEvent
  <2> QED
    BY <1>1, <1>3, <1>6, <2>1
<1>9. CASE AcceptState(r, o)
  <2>1. PICK s \in RunStates : s.st = states[r].st /\ Commit(r, s, TRUE, o, workers)
    BY <1>3, <1>9, StateReport
  <2> QED
    BY <1>1, <1>3, <1>6, <2>1
<1> QED
  BY <1>7, <1>8, <1>9

\* What is written of a run that is given up.
LEMMA AbandonBindings ==
  ASSUME TypeOK, Consistent, Bindings, NEW r \in Runs, NEW o \in Outcomes,
         ReapAbnormal(r, o) \/ HandleFatal(r, o)
  PROVE  Bindings' /\ Extends
<1> DEFINE q == [Quarantined(states[r]) EXCEPT !.st = "interrupted"]
           n == [workers EXCEPT ![r] = NoWorker]
<1>1. /\ phase = "up" /\ workers[r].on
      /\ Commit(r, q, TRUE, o, Released(r, o)) \/ Commit(r, q, TRUE, o, n)
  BY DEF ReapAbnormal, HandleFatal, Reapable, Ticking
<1>2. Admitted(r)
  BY <1>1 DEF Consistent, ServiceInv
<1>3. states[r] \in RunStates /\ workers \in [Runs -> WorkerRecords]
  BY DEF TypeOK
<1>4. q \in RunStates /\ q.st = "interrupted"
  BY <1>3, StateFacts DEF TERMINAL
<1>5. n \in [Runs -> WorkerRecords] /\ Released(r, o) \in [Runs -> WorkerRecords]
  BY <1>3, ConstantFacts DEF Released
<1> HIDE DEF q, n
<1> QED
  BY <1>1, <1>2, <1>4, <1>5, CommitBindings, CommitExtends

\* A restart reads the binding from the record.
LEMMA ServiceBindings ==
  ASSUME TypeOK, Consistent, Bindings, Service
  PROVE  Bindings' /\ Extends
<1>1. CASE Crash
  BY <1>1 DEF Crash, Bindings, BindingInv, Extends, Healthy, Registered, Unloaded, NoState, disk
<1>2. CASE Start
  BY <1>2 DEF Start, Bindings, BindingInv, Extends, Consistent, ServiceInv, Healthy, Registered,
              disk
<1>3. CASE RecoverDone
  <2>1. /\ phase = "recovering" /\ \A r \in Runs : ~Pending(r)
        /\ UNCHANGED <<journal, states, fatal>>
    BY <1>3 DEF RecoverDone, disk
  <2>2. ASSUME NEW r \in Runs PROVE BindingInv(r)'
    <3>1. CASE Registered(r)
      BY <2>1, <3>1 DEF Bindings, BindingInv, Registered, Last
    <3>2. CASE ~Registered(r)
      <4>1. Last(r) = NoState
        BY <2>1, <3>2 DEF Pending, Consistent, ExecutionInv, Admitted
      <4>2. ~states[r].bound /\ ~Last(r).bound
        BY <3>2, <4>1 DEF Bindings, BindingInv, NoState
      <4>3. ~states'[r].bound /\ ~Last(r)'.bound
        BY ONLY <2>1, <4>2 DEF Last
      <4> QED
        BY <4>3, Zenon DEF BindingInv
    <3> QED
      BY <3>1, <3>2
  <2> QED
    BY <2>1, <2>2 DEF Bindings, Extends
<1>4. ASSUME NEW r \in Runs, RecoverRefused(r) PROVE Bindings' /\ Extends
  BY <1>4 DEF RecoverRefused, Bindings, BindingInv, Extends, Healthy, Registered, disk
<1>5. ASSUME NEW r \in Runs, NEW o \in Outcomes, NEW s \in RunStates,
             phase = "recovering", Admitted(r), s.st # "none",
             \A p \in Runs \ {r} : journal'[p] = journal[p],
             states' \in {[states EXCEPT ![r] = s], Unloaded},
             phase' = "closed" \/ (phase' = phase /\ s.bound = Last(r)'.bound
                                     /\ states' = [states EXCEPT ![r] = s])
      PROVE  Bindings' /\ Extends
  <2>1. ASSUME NEW p \in Runs, states' = [states EXCEPT ![r] = s] PROVE BindingInv(p)'
    <3>1. states'[r] = s /\ (p # r => states'[p] = states[p])
      BY <2>1 DEF TypeOK
    <3> QED
      BY <1>5, <3>1 DEF Bindings, BindingInv, Healthy, Registered, Last
  <2>2. ASSUME NEW p \in Runs, states' = Unloaded PROVE BindingInv(p)'
    <3>1. states'[p] = NoState
      BY <2>2 DEF Unloaded
    <3>2. phase' = "closed" \/ states' = [states EXCEPT ![r] = s]
      BY <1>5
    <3>3. CASE phase' = "closed"
      BY <3>1, <3>3 DEF BindingInv, Healthy, Registered, NoState
    <3> QED
      BY <2>1, <3>2, <3>3
  <2> QED
    BY <1>5, <2>1, <2>2 DEF Bindings, Extends
<1>6. ASSUME NEW r \in Runs, NEW o \in Outcomes, RecoverTerminal(r, o)
      PROVE  Bindings' /\ Extends
  <2>1. Reloaded(r) \in RunStates /\ Repaired(journal[r]).last = journal[r].last
    BY ReloadFacts
  <2>2. journal[r] \in Journals /\ journal[r].last \in RunStates
    BY DEF TypeOK, Journals
  <2>3. /\ phase = "recovering" /\ Admitted(r) /\ journal[r].last.st \in TERMINAL
        /\ states' = [states EXCEPT ![r] = Reloaded(r)]
        /\ journal' = [journal EXCEPT ![r] = Repaired(journal[r])]
        /\ phase' = phase \/ phase' = "closed"
    BY <1>6 DEF RecoverTerminal, Pending, Admitted
  <2>4. Reloaded(r).st = journal[r].last.st /\ Reloaded(r).bound = journal[r].last.bound
    BY <2>2 DEF Reloaded, RunStates
  <2>5. /\ journal'[r].last = journal[r].last
        /\ \A p \in Runs \ {r} : journal'[p] = journal[p]
    BY <2>1, <2>3 DEF TypeOK
  <2>6. Reloaded(r).st # "none"
    BY <2>3, <2>4 DEF TERMINAL
  <2> QED
    BY <1>5, <2>1, <2>3, <2>4, <2>5, <2>6 DEF Last
<1>7. ASSUME NEW r \in Runs, NEW o \in Outcomes, RecoverActive(r, o)
      PROVE  Bindings' /\ Extends
  <2> DEFINE s == [Quarantined(Reloaded(r)) EXCEPT !.st = "interrupted"]
             s1 == [s EXCEPT !.seq = @ + 1]
             a == Appended(Repaired(journal[r]), s1, TRUE, o)
  <2>1. Reloaded(r) \in RunStates /\ Repaired(journal[r]) \in Journals
    BY ReloadFacts
  <2>2. s \in RunStates /\ s.st = "interrupted"
    BY <2>1, StateFacts DEF TERMINAL
  <2>3. s1 \in RunStates /\ s1.st = "interrupted"
    <3> HIDE DEF s
    <3> QED
      BY <2>2 DEF RunStates
  <2>4. /\ phase = "recovering" /\ Admitted(r)
        /\ states' = IF Crashed(o) THEN Unloaded ELSE [states EXCEPT ![r] = s1]
        /\ journal' = [journal EXCEPT ![r] = a]
        /\ phase' = IF o = "ok" THEN phase ELSE "closed"
    BY <1>7 DEF RecoverActive, Write, Pending, Admitted
  <2> HIDE DEF s, s1
  <2>5. o = "ok" => a.last = s1 /\ ~Crashed(o)
    BY <2>1, <2>3, AppendedFacts DEF Failed, Crashed
  <2> HIDE DEF a
  <2>6. journal'[r] = a /\ \A p \in Runs \ {r} : journal'[p] = journal[p]
    BY <2>4 DEF TypeOK
  <2> QED
    BY <1>5, <2>3, <2>4, <2>5, <2>6 DEF Last
<1> QED
  BY <1>1, <1>2, <1>3, <1>4, <1>6, <1>7 DEF Service, Recover

LEMMA StepBindings ==
  ASSUME TypeOK, Consistent, Bindings, [Next]_vars
  PROVE  /\ Bindings'
         /\ Extends \/ \E r \in Runs, i \in Inputs, o \in Outcomes : Submit(r, i, o)
<1>1. ASSUME UNCHANGED <<phase, journal, states>>, fatal => fatal'
      PROVE  Bindings' /\ Extends
  BY <1>1, SilentBindings DEF Extends
<1>2. CASE Client
  <2>1. ASSUME NEW r \in Runs, ReadEvents(r) PROVE Bindings' /\ Extends
    BY <1>1, <2>1 DEF ReadEvents, disk, memory
  <2> QED
    BY <1>2, <2>1, SubmitBindings, HealthyBindings DEF Client
<1>3. CASE Stop
  BY <1>1, <1>3 DEF Stop, disk
<1>4. CASE Monitor
  <2>1. CASE MonitorExit
    BY <2>1 DEF MonitorExit, Bindings, BindingInv, Extends, Healthy, Registered, disk
  <2>2. ASSUME NEW r \in Runs, LaunchRaises(r) \/ AcceptResult(r) \/ AcceptTorn(r)
        PROVE  Bindings' /\ Extends
    BY <1>1, <2>2 DEF LaunchRaises, AcceptResult, AcceptTorn, disk
  <2>3. ASSUME NEW r \in Runs, ForceStop(r) PROVE Bindings' /\ Extends
    <3>1. /\ states' = [states EXCEPT ![r] = Quarantined(states[r])]
          /\ UNCHANGED <<phase, journal, fatal>> /\ states[r] \in RunStates
      BY <2>3 DEF ForceStop, TypeOK
    <3>2. Quarantined(states[r]).st = states[r].st /\ Quarantined(states[r]).bound = states[r].bound
      BY <3>1 DEF Quarantined, RunStates
    <3>3. \A p \in Runs : states'[p].st = states[p].st /\ states'[p].bound = states[p].bound
      BY <3>1, <3>2 DEF TypeOK
    <3> QED
      BY <3>1, <3>3 DEF Bindings, BindingInv, Extends, Healthy, Registered, Last
  <2> QED
    BY <1>4, <2>1, <2>2, <2>3, HealthyBindings, AbandonBindings
       DEF Monitor, Accept, Reap, LaunchQueued, Fail
<1>5. CASE Service
  BY <1>5, ServiceBindings
<1>6. ASSUME NEW r \in Runs, Worker(r) PROVE Bindings' /\ Extends
  BY <1>1, <1>6
     DEF Worker, WorkerEvent, WorkerState, Send, WorkerFork, WorkerResult, WorkerExit,
         WorkerDies, KidsExit, disk, memory
<1>7. CASE UNCHANGED vars
  BY <1>1, <1>7 DEF vars
<1> QED
  BY <1>2, <1>3, <1>4, <1>5, <1>6, <1>7 DEF Next

\* By its record the run has left something in a directory that a request for
\* this workspace may share.
LeftIn(p, root) ==
  /\ Last(p).q
  /\ LET workspace == IF Last(p).bound THEN p ELSE req[p].root IN
     IF root = NoRoot THEN ~Last(p).bound ELSE <<workspace, root>> \in Overlap

\* No admission becomes durable beside a record that holds its session or has left
\* something in its workspace, whatever failed or was restarted since that record
\* was written (submit, _recover).  A workspace can therefore be shared with a
\* quarantined execution only by a run that was queued before the quarantine.
AdmissionsIsolated ==
  [][\A r, p \in Runs : ~Admitted(r) /\ Admitted(r)' =>
       /\ Blocking(p) => req[p].session # req'[r].session
       /\ ~LeftIn(p, req'[r].root)]_journal

\* The records on disk, and not only the memory of the service, guard admission.
THEOREM AdmissionSeesRecords == Spec => AdmissionsIsolated
<1>1. Init => Bindings
  BY DEF Init, Bindings, BindingInv, Registered, Healthy, NoState
<1>2. TypeOK /\ Consistent /\ Bindings /\ [Next]_vars => Bindings'
  BY StepBindings
<1>3. TypeOK /\ Consistent /\ Bindings /\ [Next]_vars =>
        [\A r, p \in Runs : ~Admitted(r) /\ Admitted(r)' =>
           /\ Blocking(p) => req[p].session # req'[r].session
           /\ ~LeftIn(p, req'[r].root)]_journal
  <2> SUFFICES ASSUME TypeOK, Consistent, Bindings, [Next]_vars,
                      NEW r \in Runs, NEW p \in Runs, ~Admitted(r), Admitted(r)'
               PROVE  /\ Blocking(p) => req[p].session # req'[r].session
                      /\ ~LeftIn(p, req'[r].root)
    OBVIOUS
  <2>1. ~Extends
    BY DEF Extends, Admitted
  <2>2. PICK r1 \in Runs, i \in Inputs, o \in Outcomes : Submit(r1, i, o)
    BY <2>1, StepBindings
  <2>3. r1 = r
    BY <2>2 DEF Submit, Commit, Write, Admitted, TypeOK
  <2>4. Healthy /\ req'[r] = i /\ Admissible(i)
    BY <2>2, <2>3 DEF Submit, Ready, Healthy, TypeOK
  <2>5. /\ states[p].st = Last(p).st /\ (Last(p).q => states[p].q)
        /\ states[p].bound <=> Last(p).bound
    BY <2>4 DEF Consistent, ServiceInv, Bindings, BindingInv
  <2>6. Blocking(p) \/ Last(p).q => Registered(p)
    BY <2>5, ConstantFacts
       DEF Blocking, Registered, ACTIVE, Consistent, ExecutionInv
  <2>7. Registered(p) => /\ ~(req[p].session = i.session /\ (Active(p) \/ states[p].q))
                         /\ ~WorkspaceConflict(p, i.root)
    BY <2>4, Zenon DEF Admissible
  <2>8. Blocking(p) => req[p].session # req'[r].session
    BY <2>4, <2>5, <2>6, <2>7 DEF Blocking, Active
  <2>9. ~LeftIn(p, req'[r].root)
    BY <2>4, <2>5, <2>6, <2>7 DEF LeftIn, WorkspaceConflict, Workspace
  <2> QED
    BY <2>8, <2>9
<1> QED
  BY <1>1, <1>2, <1>3, Invariance, PTL DEF Spec, AdmissionsIsolated

=============================================================================
