------------------------ MODULE AgentSupervisorProofs ------------------------
(***************************************************************************)
(* Proofs about AgentSupervisor, for every number of runs, sessions,        *)
(* requests and workers and every set of faults.                            *)
(***************************************************************************)
EXTENDS AgentSupervisor, TLAPS

-----------------------------------------------------------------------------
(* Typing of the persistence operators *)

LEMMA OutcomeType == Outcomes \subseteq {"ok"} \cup CommitFaults
BY DEF Outcomes

\* One record is appended whole or not at all; whatever else the outcome is, a
\* failed append leaves the durable state of the run alone.
LEMMA AppendedFacts ==
  ASSUME NEW j \in Journals, NEW s \in RunStates, NEW tr \in BOOLEAN,
         NEW o \in Outcomes
  PROVE  /\ Appended(j, s, tr, o) \in Journals
         /\ \/ /\ Appended(j, s, tr, o).len = j.len
               /\ Appended(j, s, tr, o).last = j.last
               /\ Failed(o) \/ Crashed(o)
            \/ /\ Appended(j, s, tr, o).len = j.len + 1
               /\ Appended(j, s, tr, o).last = IF tr THEN s ELSE j.last
<1>1. CASE o = "append_error"
  BY <1>1 DEF Appended, Failed
<1>2. CASE o \in {"torn_error", "torn_crash"}
  <2>1. Appended(j, s, tr, o) = [j EXCEPT !.torn = TRUE]
    BY <1>2 DEF Appended
  <2> QED
    BY <1>2, <2>1 DEF Failed, Crashed, Journals
<1>3. CASE o \notin {"append_error", "torn_error", "torn_crash"}
  <2>1. Appended(j, s, tr, o) =
          [len |-> j.len + 1, last |-> IF tr THEN s ELSE j.last,
           good |-> j.good /\ ~j.torn /\ s.seq = j.len + 1, torn |-> FALSE]
    BY <1>3 DEF Appended
  <2> QED
    BY <2>1 DEF Journals
<1> QED
  BY <1>1, <1>2, <1>3

\* What _commit does to the service and to the record of the run.
LEMMA CommitFacts ==
  ASSUME TypeOK, phase # "down",
         NEW r \in Runs, NEW s \in RunStates, NEW tr \in BOOLEAN,
         NEW o \in Outcomes, NEW w \in [Runs -> WorkerRecords],
         Commit(r, s, tr, o, w)
  PROVE  LET s1 == [s EXCEPT !.seq = @ + 1] IN
         /\ s1 \in RunStates /\ s1.st = s.st /\ s1.q = s.q /\ s1.bound = s.bound
         /\ journal' \in [Runs -> Journals] /\ snapshot' \in [Runs -> RunStates]
         /\ states' \in [Runs -> RunStates] /\ workers' \in [Runs -> WorkerRecords]
         /\ fatal' \in BOOLEAN /\ phase' \in {phase, "down"}
         /\ \A p \in Runs \ {r} : journal'[p] = journal[p]
         /\ \/ /\ journal'[r].len = journal[r].len
               /\ journal'[r].last = journal[r].last
               /\ fatal' \/ phase' = "down"
            \/ /\ journal'[r].len = journal[r].len + 1
               /\ journal'[r].last = IF tr THEN s1 ELSE journal[r].last
         /\ phase' = "down" => states' = Unloaded /\ workers' = Unsupervised /\ ~fatal'
         /\ phase' # "down" => /\ states' = [states EXCEPT ![r] = s1]
                               /\ workers' = w
                               /\ fatal => fatal'
                               /\ Failed(o) => fatal'
<1> DEFINE s1 == [s EXCEPT !.seq = @ + 1]
<1>1. s1 \in RunStates /\ s1.st = s.st /\ s1.q = s.q /\ s1.bound = s.bound
  BY DEF RunStates
<1>2. Appended(journal[r], s1, tr, o) \in Journals
  BY <1>1, AppendedFacts DEF TypeOK
<1>3. /\ journal' = [journal EXCEPT ![r] = Appended(journal[r], s1, tr, o)]
      /\ states' = IF Crashed(o) THEN Unloaded ELSE [states EXCEPT ![r] = s1]
      /\ snapshot' = IF o = "ok" THEN [snapshot EXCEPT ![r] = s1] ELSE snapshot
      /\ fatal' = (~Crashed(o) /\ (fatal \/ Failed(o)))
      /\ phase' = IF Crashed(o) THEN "down" ELSE phase
      /\ workers' = IF Crashed(o) THEN Unsupervised ELSE w
  BY DEF Commit, Write
<1>4. Unloaded \in [Runs -> RunStates] /\ Unsupervised \in [Runs -> WorkerRecords]
  BY DEF Unloaded, Unsupervised, NoState, RunStates, ACTIVE, TERMINAL, NoWorker,
         WorkerRecords, NoResult, Results
<1>5. journal' \in [Runs -> Journals] /\ \A p \in Runs \ {r} : journal'[p] = journal[p]
  BY <1>2, <1>3 DEF TypeOK
<1>6. snapshot' \in [Runs -> RunStates] /\ states' \in [Runs -> RunStates]
  BY <1>1, <1>3, <1>4 DEF TypeOK
<1>7. workers' \in [Runs -> WorkerRecords] /\ fatal' \in BOOLEAN
  BY <1>3, <1>4
<1>8. journal'[r] = Appended(journal[r], s1, tr, o) /\ journal[r] \in Journals
  BY <1>3 DEF TypeOK
<1>9. \/ /\ journal'[r].len = journal[r].len
         /\ journal'[r].last = journal[r].last
         /\ fatal' \/ phase' = "down"
      \/ /\ journal'[r].len = journal[r].len + 1
         /\ journal'[r].last = IF tr THEN s1 ELSE journal[r].last
  <2> DEFINE j == Appended(journal[r], s1, tr, o)
  <2>1. \/ j.len = journal[r].len /\ j.last = journal[r].last /\ (Failed(o) \/ Crashed(o))
        \/ j.len = journal[r].len + 1 /\ j.last = IF tr THEN s1 ELSE journal[r].last
    <3> HIDE DEF s1
    <3> QED BY <1>1, <1>8, AppendedFacts
  <2>2. journal'[r] = j
    BY <1>8
  <2>3. Failed(o) \/ Crashed(o) => fatal' \/ phase' = "down"
    BY <1>3
  <2> HIDE DEF j, s1
  <2> QED
    BY <2>1, <2>2, <2>3
<1>10. /\ phase' \in {phase, "down"}
       /\ phase' = "down" => states' = Unloaded /\ workers' = Unsupervised /\ ~fatal'
       /\ phase' # "down" => /\ states' = [states EXCEPT ![r] = s1]
                             /\ workers' = w
                             /\ fatal => fatal'
                             /\ Failed(o) => fatal'
  BY <1>3
<1> QED
  BY <1>1, <1>5, <1>6, <1>7, <1>9, <1>10

-----------------------------------------------------------------------------
(* Type correctness *)

LEMMA StateFacts ==
  ASSUME NEW s \in RunStates, NEW st \in ACTIVE \cup TERMINAL
  PROVE  /\ [s EXCEPT !.st = st] \in RunStates
         /\ [s EXCEPT !.st = st].st = st /\ [s EXCEPT !.st = st].q = s.q
         /\ Quarantined(s) \in RunStates /\ Quarantined(s).st = s.st /\ Quarantined(s).q
         /\ [Quarantined(s) EXCEPT !.st = st] \in RunStates
         /\ [Quarantined(s) EXCEPT !.st = st].st = st
         /\ [Quarantined(s) EXCEPT !.st = st].q
BY DEF RunStates, Quarantined

\* A projection of the worker changes nothing but the binding.
LEMMA StateReport ==
  ASSUME NEW r \in Runs, states[r] \in RunStates, NEW o \in Outcomes, AcceptState(r, o)
  PROVE  \E s \in RunStates :
           /\ s.st = states[r].st /\ s.q = states[r].q /\ s.seq = states[r].seq
           /\ Commit(r, s, TRUE, o, workers)
<1>1. PICK binding \in BOOLEAN :
        Commit(r, [states[r] EXCEPT !.bound = @ \/ binding], TRUE, o, workers)
  BY DEF AcceptState
<1> DEFINE s == [states[r] EXCEPT !.bound = @ \/ binding]
<1>2. /\ s \in RunStates
      /\ s.st = states[r].st /\ s.q = states[r].q /\ s.seq = states[r].seq
  BY DEF RunStates
<1> HIDE DEF s
<1>3. Commit(r, s, TRUE, o, workers)
  BY <1>1 DEF s
<1> QED
  BY <1>2, <1>3

LEMMA ConstantFacts ==
  /\ NoState \in RunStates /\ NoJournal \in Journals
  /\ NoResult \in Results /\ NoWorker \in WorkerRecords /\ NewWorker \in WorkerRecords
  /\ NewWorker.on /\ ~NoWorker.on /\ NoState.st = "none" /\ ~NoState.q
  /\ NoJournal.len = 0 /\ NoJournal.last = NoState
  /\ Unloaded \in [Runs -> RunStates] /\ Unsupervised \in [Runs -> WorkerRecords]
BY DEF Unloaded, Unsupervised, NoState, RunStates, ACTIVE, TERMINAL, NoWorker, NewWorker,
       WorkerRecords, NoResult, Results, NoJournal, Journals

LEMMA EmptyPipe == [r \in Runs |-> <<>>] \in [Runs -> Seq(Messages)]
OBVIOUS

LEMMA RegistryType ==
  ASSUME TypeOK, NEW r \in Runs, NEW s, registry' \in RegistryAfter(r, s)
  PROVE  registry' \in [Runs -> {"open", "quarantined"}]
BY DEF TypeOK, RegistryAfter

\* What Commit does not write is all that is left to type.
LEMMA CommitType ==
  ASSUME TypeOK, phase # "down",
         NEW r \in Runs, NEW s \in RunStates, NEW tr \in BOOLEAN,
         NEW o \in Outcomes, NEW w \in [Runs -> WorkerRecords],
         Commit(r, s, tr, o, w),
         req' \in [Runs -> Inputs \cup {NoReq}],
         registry' \in [Runs -> {"open", "quarantined"}],
         UNCHANGED <<stopping, sent, boots, told>>,
         proc' \in [Runs -> ProcStates], kids' \in [Runs -> BOOLEAN],
         pipe' \in [Runs -> Seq(Messages)], starts' \in [Runs -> Nat]
  PROVE  TypeOK'
<1>1. /\ journal' \in [Runs -> Journals] /\ snapshot' \in [Runs -> RunStates]
      /\ states' \in [Runs -> RunStates] /\ workers' \in [Runs -> WorkerRecords]
      /\ fatal' \in BOOLEAN /\ phase' \in {phase, "down"}
  BY CommitFacts
<1> QED
  BY <1>1 DEF TypeOK

LEMMA SubmitType ==
  ASSUME TypeOK, NEW r \in Runs, NEW i \in Inputs, NEW o \in Outcomes, Submit(r, i, o)
  PROVE  TypeOK'
<1>1. [NoState EXCEPT !.st = "queued"] \in RunStates
  BY ConstantFacts, StateFacts DEF ACTIVE
<1> QED
  BY <1>1, CommitType DEF Submit, Ready, TypeOK, os

LEMMA CancelType ==
  ASSUME TypeOK, NEW r \in Runs, NEW o \in Outcomes,
         CancelQueued(r, o) \/ CancelRunning(r, o) \/ LaunchFails(r, o)
  PROVE  TypeOK'
<1>1. /\ [states[r] EXCEPT !.st = "stopped"] \in RunStates
      /\ [states[r] EXCEPT !.st = "cancelling"] \in RunStates
      /\ [states[r] EXCEPT !.st = "failed"] \in RunStates
  BY StateFacts DEF TypeOK, ACTIVE, TERMINAL
<1>2. [workers EXCEPT ![r].cancel = workers[r].on] \in [Runs -> WorkerRecords]
  BY DEF TypeOK, WorkerRecords
<1>3. CASE CancelQueued(r, o)
  BY <1>1, <1>3, CommitType DEF CancelQueued, Ready, TypeOK, os
<1>4. CASE CancelRunning(r, o)
  BY <1>1, <1>2, <1>4, CommitType DEF CancelRunning, Ready, TypeOK, os
<1>5. CASE LaunchFails(r, o)
  BY <1>1, <1>5, CommitType DEF LaunchFails, Launchable, Ready, TypeOK, os
<1> QED
  BY <1>3, <1>4, <1>5

LEMMA LaunchType ==
  ASSUME TypeOK, NEW r \in Runs, NEW o \in Outcomes, Launch(r, o)
  PROVE  TypeOK'
<1>1. [states[r] EXCEPT !.st = "running"] \in RunStates
  BY StateFacts DEF TypeOK, ACTIVE, TERMINAL
<1>2. [workers EXCEPT ![r] = NewWorker] \in [Runs -> WorkerRecords]
  BY ConstantFacts DEF TypeOK
<1>3. /\ proc' \in [Runs -> ProcStates] /\ pipe' \in [Runs -> Seq(Messages)]
      /\ starts' \in [Runs -> Nat]
  BY DEF Launch, TypeOK, ProcStates
<1> QED
  BY <1>1, <1>2, <1>3, CommitType DEF Launch, Launchable, Ready, TypeOK

LEMMA AcceptType ==
  ASSUME TypeOK, NEW r \in Runs,
         Accept(r)
  PROVE  TypeOK'
<1>1. ASSUME NEW kind, Received(r, kind)
      PROVE  /\ phase # "down" /\ pipe' \in [Runs -> Seq(Messages)]
             /\ Head(pipe[r]) \in Messages
  BY <1>1 DEF Received, Ticking, TypeOK
<1>2. states[r] \in RunStates
  BY DEF TypeOK
<1>3. ASSUME NEW o \in Outcomes, AcceptEvent(r, o) PROVE TypeOK'
  BY <1>1, <1>2, <1>3, CommitType DEF AcceptEvent, TypeOK
<1>4. ASSUME NEW o \in Outcomes, AcceptState(r, o) PROVE TypeOK'
  <2>1. PICK s \in RunStates : Commit(r, s, TRUE, o, workers)
    BY <1>2, <1>4, StateReport
  <2> QED
    BY <1>1, <1>4, <2>1, CommitType DEF AcceptState, TypeOK
<1>5. CASE AcceptResult(r)
  <2>1. Head(pipe[r]).result \in Results
    BY <1>1, <1>5 DEF AcceptResult, Messages
  <2>2. workers' \in [Runs -> WorkerRecords]
    BY <1>5, <2>1 DEF AcceptResult, TypeOK, WorkerRecords
  <2> QED
    BY <1>1, <1>5, <2>2 DEF AcceptResult, TypeOK, disk
<1>6. CASE AcceptTorn(r)
  BY <1>1, <1>6 DEF AcceptTorn, TypeOK, disk
<1> QED
  BY <1>3, <1>4, <1>5, <1>6 DEF Accept

LEMMA ForceStopType ==
  ASSUME TypeOK, NEW r \in Runs, ForceStop(r)
  PROVE  TypeOK'
<1>1. /\ states' \in [Runs -> RunStates] /\ workers' \in [Runs -> WorkerRecords]
      /\ proc' \in [Runs -> ProcStates] /\ kids' \in [Runs -> BOOLEAN]
  <2>1. Quarantined(states[r]) \in RunStates
    BY StateFacts DEF TypeOK, ACTIVE
  <2> QED
    BY <2>1 DEF ForceStop, TypeOK, WorkerRecords, ProcStates
<1>2. registry' \in [Runs -> {"open", "quarantined"}]
  BY RegistryType DEF ForceStop
<1> QED
  BY <1>1, <1>2 DEF ForceStop, TypeOK

LEMMA ReapType ==
  ASSUME TypeOK, NEW r \in Runs, NEW o \in Outcomes,
         ReapNormal(r, o) \/ ReapAbnormal(r, o) \/ HandleFatal(r, o)
  PROVE  TypeOK'
<1>1. /\ [states[r] EXCEPT !.st = FinalStatus(workers[r])] \in RunStates
      /\ [Quarantined(states[r]) EXCEPT !.st = "interrupted"] \in RunStates
  <2>1. FinalStatus(workers[r]) \in TERMINAL
    BY DEF FinalStatus, TERMINAL
  <2> QED
    BY <2>1, StateFacts DEF TypeOK, TERMINAL
<1>2. /\ Released(r, o) \in [Runs -> WorkerRecords]
      /\ [workers EXCEPT ![r] = NoWorker] \in [Runs -> WorkerRecords]
  BY ConstantFacts DEF Released, TypeOK
<1>3. CASE ReapNormal(r, o)
  <2>1. kids' \in [Runs -> BOOLEAN]
    BY <1>3 DEF ReapNormal, TypeOK
  <2> QED
    BY <1>1, <1>2, <1>3, <2>1, CommitType DEF ReapNormal, Reapable, Ticking, TypeOK
<1>4. CASE ReapAbnormal(r, o)
  <2>1. kids' \in [Runs -> BOOLEAN] /\ registry' \in [Runs -> {"open", "quarantined"}]
    BY <1>4, RegistryType DEF ReapAbnormal, TypeOK
  <2> QED
    BY <1>1, <1>2, <1>4, <2>1, CommitType DEF ReapAbnormal, Reapable, Ticking, TypeOK
<1>5. CASE HandleFatal(r, o)
  <2>1. kids' \in [Runs -> BOOLEAN] /\ registry' \in [Runs -> {"open", "quarantined"}]
    BY <1>5, RegistryType DEF HandleFatal, TypeOK
  <2>2. proc' \in [Runs -> ProcStates]
    <3>1. CASE Alive(r)
      <4>1. PICK s \in {"dying", "crashed"} : proc' = [proc EXCEPT ![r] = s]
        BY <1>5, <3>1 DEF HandleFatal
      <4> QED
        BY <4>1 DEF TypeOK, ProcStates
    <3>2. CASE ~Alive(r)
      BY <1>5, <3>2 DEF HandleFatal, TypeOK
    <3> QED
      BY <3>1, <3>2
  <2> QED
    BY <1>1, <1>2, <1>5, <2>1, <2>2, CommitType DEF HandleFatal, TypeOK
<1> QED
  BY <1>3, <1>4, <1>5

LEMMA WorkerType ==
  ASSUME TypeOK, NEW r \in Runs, Worker(r)
  PROVE  TypeOK'
<1>1. \A kind \in {"event", "state", "torn"} : Message(kind, NoResult) \in Messages
  BY ConstantFacts DEF Message, Messages
<1>2. ASSUME NEW kind \in {"event", "state"}, Send(r, kind) PROVE TypeOK'
  <2>1. pipe' \in [Runs -> Seq(Messages)] /\ sent' \in [Runs -> Nat]
    BY <1>1, <1>2 DEF Send, Works, TypeOK
  <2> QED
    BY <1>2, <2>1 DEF Send, TypeOK, disk, memory
<1>3. CASE WorkerFork(r)
  BY <1>3 DEF WorkerFork, Works, TypeOK, disk, memory
<1>4. ASSUME NEW st \in ResultStatuses, WorkerResult(r, st) PROVE TypeOK'
  <2>1. PICK clean \in BOOLEAN :
          /\ kids' = [kids EXCEPT ![r] = @ /\ ~clean]
          /\ pipe' = [pipe EXCEPT ![r] =
                        Append(@, Message("result", [st |-> st, clean |-> clean]))]
    BY <1>4 DEF WorkerResult
  <2>2. Message("result", [st |-> st, clean |-> clean]) \in Messages
    BY DEF Message, Messages, Results
  <2>3. pipe' \in [Runs -> Seq(Messages)] /\ kids' \in [Runs -> BOOLEAN]
    BY <2>1, <2>2 DEF TypeOK
  <2>4. proc' \in [Runs -> ProcStates]
    BY <1>4 DEF WorkerResult, TypeOK, ProcStates
  <2> QED
    BY <1>4, <2>3, <2>4 DEF WorkerResult, TypeOK, disk, memory
<1>5. CASE WorkerExit(r)
  BY <1>5 DEF WorkerExit, TypeOK, ProcStates, disk, memory
<1>6. CASE WorkerDies(r)
  <2>1. Message("torn", NoResult) \in Messages
    BY <1>1
  <2>2. CASE UNCHANGED pipe
    BY <1>6, <2>2 DEF WorkerDies, TypeOK, ProcStates, disk, memory
  <2>3. CASE pipe' = [pipe EXCEPT ![r] = Append(@, Message("torn", NoResult))]
    <3>1. pipe' \in [Runs -> Seq(Messages)]
      BY <2>1, <2>3 DEF TypeOK
    <3> QED
      BY <1>6, <3>1 DEF WorkerDies, TypeOK, ProcStates, disk, memory
  <2> QED
    BY <1>6, <2>2, <2>3 DEF WorkerDies
<1>7. CASE KidsExit(r)
  BY <1>7 DEF KidsExit, TypeOK, disk, memory
<1> QED
  BY <1>2, <1>3, <1>4, <1>5, <1>6, <1>7 DEF Worker, WorkerEvent, WorkerState

LEMMA ReloadFacts ==
  ASSUME TypeOK, NEW r \in Runs
  PROVE  /\ Reloaded(r) \in RunStates /\ Repaired(journal[r]) \in Journals
         /\ Reloaded(r).st = journal[r].last.st /\ Reloaded(r).q = journal[r].last.q
         /\ Repaired(journal[r]).len = journal[r].len
         /\ Repaired(journal[r]).last = journal[r].last
<1>1. journal[r] \in Journals
  BY DEF TypeOK
<1>2. journal[r].last \in RunStates /\ journal[r].len \in Nat
  BY <1>1 DEF Journals
<1>3. \A s \in RunStates, n \in Nat : /\ [s EXCEPT !.seq = n] \in RunStates
                                    /\ [s EXCEPT !.seq = n].st = s.st
                                    /\ [s EXCEPT !.seq = n].q = s.q
  BY DEF RunStates
<1>4. /\ [journal[r] EXCEPT !.torn = FALSE] \in Journals
      /\ [journal[r] EXCEPT !.torn = FALSE].len = journal[r].len
      /\ [journal[r] EXCEPT !.torn = FALSE].last = journal[r].last
  BY <1>1 DEF Journals
<1> QED
  BY <1>2, <1>3, <1>4 DEF Reloaded, Repaired

LEMMA ServiceType ==
  ASSUME TypeOK, Service
  PROVE  TypeOK'
<1>1. CASE Crash
  BY <1>1, ConstantFacts DEF Crash, TypeOK, disk, os
<1>2. CASE Start
  <2>1. pipe' \in [Runs -> Seq(Messages)]
    BY <1>2, EmptyPipe DEF Start
  <2>2. /\ phase' = "recovering" /\ boots' = boots + 1 /\ stopping' = FALSE
        /\ UNCHANGED <<fatal, states, workers, proc, kids, sent, starts, told>>
        /\ UNCHANGED <<req, journal, snapshot, registry>>
    BY <1>2 DEF Start, disk
  <2>3. boots' \in Nat
    <3>1. boots \in Nat
      BY DEF TypeOK
    <3> QED
      BY <2>2, <3>1
  <2>5. stopping' \in BOOLEAN
    BY <2>2
  <2>4. phase' \in {"down", "recovering", "up", "closed"}
    BY <2>2
  <2> QED
    BY <2>1, <2>2, <2>3, <2>4, <2>5 DEF TypeOK
<1>3. CASE RecoverDone
  BY <1>3 DEF RecoverDone, TypeOK, disk, os
<1>4. ASSUME NEW r \in Runs, NEW o \in Outcomes, RecoverActive(r, o) PROVE TypeOK'
  <2> DEFINE s == [Quarantined(Reloaded(r)) EXCEPT !.st = "interrupted"]
             s1 == [s EXCEPT !.seq = @ + 1]
  <2>1. Reloaded(r) \in RunStates /\ Repaired(journal[r]) \in Journals
    BY ReloadFacts
  <2>2. s \in RunStates
    BY <2>1, StateFacts DEF TERMINAL
  <2>3. s1 \in RunStates
    <3> HIDE DEF s
    <3> QED BY <2>2 DEF RunStates
  <2>4. Appended(Repaired(journal[r]), s1, TRUE, o) \in Journals
    <3> HIDE DEF s1
    <3> QED BY <2>1, <2>3, AppendedFacts
  <2>5. /\ journal' = [journal EXCEPT ![r] = Appended(Repaired(journal[r]), s1, TRUE, o)]
        /\ states' = IF Crashed(o) THEN Unloaded ELSE [states EXCEPT ![r] = s1]
        /\ snapshot' = IF o = "ok" THEN [snapshot EXCEPT ![r] = s1] ELSE snapshot
    BY <1>4 DEF RecoverActive, Write
  <2> HIDE DEF s1
  <2>6. /\ journal' \in [Runs -> Journals] /\ states' \in [Runs -> RunStates]
        /\ snapshot' \in [Runs -> RunStates]
    BY <2>3, <2>4, <2>5, ConstantFacts DEF TypeOK
  <2>7. registry' \in [Runs -> {"open", "quarantined"}]
    BY <1>4, RegistryType DEF RecoverActive
  <2>8. /\ phase' \in {"down", "recovering", "up", "closed"}
        /\ UNCHANGED <<req, fatal, stopping, workers, boots, told, proc, kids, pipe, sent, starts>>
    BY <1>4 DEF RecoverActive, TypeOK, os
  <2> QED
    BY <2>6, <2>7, <2>8 DEF TypeOK
<1>5. ASSUME NEW r \in Runs, NEW o \in Outcomes, RecoverTerminal(r, o) PROVE TypeOK'
  <2>1. Reloaded(r) \in RunStates /\ Repaired(journal[r]) \in Journals
    BY ReloadFacts
  <2> QED
    BY <1>5, <2>1 DEF RecoverTerminal, TypeOK, os
<1>6. ASSUME NEW r \in Runs, RecoverRefused(r) PROVE TypeOK'
  BY <1>6 DEF RecoverRefused, TypeOK, disk, os
<1> QED
  BY <1>1, <1>2, <1>3, <1>4, <1>5, <1>6 DEF Service, Recover

\* Every variable keeps its type: the records of the supervisor, its disk files,
\* the worker processes and their pipes stay well formed.
THEOREM TypeCorrect == Spec => []TypeOK
<1>1. Init => TypeOK
  <2> SUFFICES ASSUME Init PROVE TypeOK
    OBVIOUS
  <2>1. pipe \in [Runs -> Seq(Messages)]
    BY EmptyPipe DEF Init
  <2>2. journal \in [Runs -> Journals] /\ snapshot \in [Runs -> RunStates]
    BY ConstantFacts DEF Init
  <2>3. states \in [Runs -> RunStates] /\ workers \in [Runs -> WorkerRecords]
    BY ConstantFacts DEF Init
  <2> QED
    BY <2>1, <2>2, <2>3 DEF Init, TypeOK, ProcStates
<1>2. TypeOK /\ [Next]_vars => TypeOK'
  <2> SUFFICES ASSUME TypeOK, [Next]_vars PROVE TypeOK'
    OBVIOUS
  <2>1. CASE Client
    <3>1. ASSUME NEW r \in Runs, ReadEvents(r) PROVE TypeOK'
      BY <3>1 DEF ReadEvents, TypeOK, disk, memory, os
    <3> QED
      BY <2>1, <3>1, SubmitType, CancelType DEF Client
  <2>2. CASE Stop
    BY <2>2 DEF Stop, TypeOK, disk, os
  <2>3. CASE Monitor
    <3>1. CASE MonitorExit
      BY <3>1 DEF MonitorExit, TypeOK, disk, os
    <3>2. ASSUME NEW r \in Runs, LaunchRaises(r) PROVE TypeOK'
      BY <3>2 DEF LaunchRaises, TypeOK, disk, os
    <3> QED
      BY <2>3, <3>1, <3>2, AcceptType, ForceStopType, ReapType, LaunchType, CancelType
         DEF Monitor, Reap, LaunchQueued, Fail
  <2>4. CASE Service
    BY <2>4, ServiceType
  <2>5. CASE \E r \in Runs : Worker(r)
    BY <2>5, WorkerType
  <2>6. CASE UNCHANGED vars
    BY <2>6 DEF vars, TypeOK
  <2> QED
    BY <2>1, <2>2, <2>3, <2>4, <2>5, <2>6 DEF Next
<1> QED
  BY <1>1, <1>2, PTL DEF Spec

-----------------------------------------------------------------------------
(* The inductive invariant *)

LEMMA OtherRun ==
  ASSUME TypeOK, phase = "up",
         NEW r \in Runs, NEW s \in RunStates, NEW tr \in BOOLEAN,
         NEW o \in Outcomes, NEW w \in [Runs -> WorkerRecords],
         Commit(r, s, tr, o, w)
  PROVE  \A p \in Runs \ {r} :
           /\ phase' \in {phase, "down"} /\ journal'[p] = journal[p]
           /\ phase' = "down" => states' = Unloaded /\ workers' = Unsupervised /\ ~fatal'
           /\ phase' # "down" => /\ states'[p] = states[p] /\ workers'[p] = w[p]
                                 /\ fatal => fatal'
<1> DEFINE s1 == [s EXCEPT !.seq = @ + 1]
<1>1. /\ journal' = [journal EXCEPT ![r] = Appended(journal[r], s1, tr, o)]
      /\ states' = IF Crashed(o) THEN Unloaded ELSE [states EXCEPT ![r] = s1]
      /\ fatal' = (~Crashed(o) /\ (fatal \/ Failed(o)))
      /\ phase' = IF Crashed(o) THEN "down" ELSE phase
      /\ workers' = IF Crashed(o) THEN Unsupervised ELSE w
  BY DEF Commit, Write
<1> HIDE DEF s1
<1> QED
  BY <1>1 DEF TypeOK

\* Runs other than the committed one: their records are untouched, and the
\* service either keeps them as they were or is gone.
LEMMA OthersKept ==
  ASSUME TypeOK, Consistent, phase = "up",
         NEW r \in Runs, NEW s \in RunStates, NEW tr \in BOOLEAN,
         NEW o \in Outcomes, NEW w \in [Runs -> WorkerRecords],
         Commit(r, s, tr, o, w),
         \A p \in Runs \ {r} : w[p] = workers[p],
         \A p \in Runs \ {r} : /\ req'[p] = req[p] /\ proc'[p] = proc[p]
                               /\ starts'[p] = starts[p],
         NEW p \in Runs \ {r}
  PROVE  ExecutionInv(p)' /\ ServiceInv(p)' /\ (Claim(p)' => Claim(p))
<1>1. /\ phase' \in {phase, "down"} /\ journal'[p] = journal[p]
      /\ phase' = "down" => states' = Unloaded /\ workers' = Unsupervised /\ ~fatal'
      /\ phase' # "down" => states'[p] = states[p] /\ workers'[p] = w[p] /\ (fatal => fatal')
  BY OtherRun
<1>2. ExecutionInv(p)'
  BY <1>1 DEF Consistent, ExecutionInv, Admitted, Last, Blocking, Alive
<1>3. phase' = "down" => ~workers'[p].on /\ states'[p].st = "none"
  BY <1>1, ConstantFacts DEF Unloaded, Unsupervised
<1>4. ServiceInv(p)'
  BY <1>1, <1>3 DEF Consistent, ServiceInv, Registered, Healthy, Last, Admitted
<1>5. Claim(p)' => Claim(p)
  BY <1>1, <1>3 DEF Claim, Blocking, Last
<1> QED
  BY <1>2, <1>4, <1>5

\* The committed run: if the record was written it says s, and otherwise it is
\* as before and the service is fatal or gone.
LEMMA CommittedRun ==
  ASSUME TypeOK, phase = "up",
         NEW r \in Runs, NEW s \in RunStates, NEW tr \in BOOLEAN,
         NEW o \in Outcomes, NEW w \in [Runs -> WorkerRecords],
         Commit(r, s, tr, o, w)
  PROVE  /\ phase' \in {"up", "down"}
         /\ \/ Last(r)' = Last(r) /\ (Admitted(r)' <=> Admitted(r)) /\ ~Healthy'
            \/ /\ Admitted(r)'
               /\ tr => Last(r)'.st = s.st /\ Last(r)'.q = s.q
               /\ ~tr => Last(r)' = Last(r)
         /\ phase' = "down" => ~workers'[r].on /\ states'[r].st = "none" /\ ~fatal'
         /\ phase' = "up" => /\ states'[r].st = s.st /\ states'[r].q = s.q
                             /\ workers'[r] = w[r]
         /\ Healthy' => Healthy
         /\ Failed(o) => ~Healthy'
<1> DEFINE s1 == [s EXCEPT !.seq = @ + 1]
<1>1. /\ s1.st = s.st /\ s1.q = s.q
      /\ phase' \in {"up", "down"}
      /\ \/ /\ journal'[r].len = journal[r].len
            /\ journal'[r].last = journal[r].last
            /\ fatal' \/ phase' = "down"
         \/ /\ journal'[r].len = journal[r].len + 1
            /\ journal'[r].last = IF tr THEN s1 ELSE journal[r].last
      /\ phase' = "down" => states' = Unloaded /\ workers' = Unsupervised /\ ~fatal'
      /\ phase' # "down" => /\ states' = [states EXCEPT ![r] = s1]
                            /\ workers' = w
                            /\ fatal => fatal'
                            /\ Failed(o) => fatal'
  BY CommitFacts
<1> HIDE DEF s1
<1>2. journal[r].len \in Nat
  BY DEF TypeOK, Journals
<1>3. \/ Last(r)' = Last(r) /\ (Admitted(r)' <=> Admitted(r)) /\ ~Healthy'
      \/ /\ Admitted(r)'
         /\ tr => Last(r)'.st = s.st /\ Last(r)'.q = s.q
         /\ ~tr => Last(r)' = Last(r)
  BY <1>1, <1>2 DEF Last, Admitted, Healthy
<1>4. phase' = "down" => ~workers'[r].on /\ states'[r].st = "none" /\ ~fatal'
  BY <1>1, ConstantFacts DEF Unloaded, Unsupervised
<1>5. phase' = "up" => states'[r].st = s.st /\ states'[r].q = s.q /\ workers'[r] = w[r]
  BY <1>1 DEF TypeOK
<1> QED
  BY <1>1, <1>3, <1>4, <1>5 DEF Healthy

\* A commit for an admitted run that takes no new claim keeps the invariant as
\* soon as the run itself is in order.
LEMMA CommitKeeps ==
  ASSUME TypeOK, Consistent, phase = "up",
         NEW r \in Runs, NEW s \in RunStates, NEW tr \in BOOLEAN,
         NEW o \in Outcomes, NEW w \in [Runs -> WorkerRecords],
         Commit(r, s, tr, o, w),
         \A p \in Runs \ {r} : w[p] = workers[p],
         \A p \in Runs \ {r} : proc'[p] = proc[p] /\ starts'[p] = starts[p],
         req' = req,
         ExecutionInv(r)', ServiceInv(r)', Claim(r)' => Claim(r),
         Admitted(r)
  PROVE  Consistent'
<1>1. \A p \in Runs \ {r} : ExecutionInv(p)' /\ ServiceInv(p)' /\ (Claim(p)' => Claim(p))
  BY OthersKept
<1>2. \A p \in Runs : ExecutionInv(p)' /\ ServiceInv(p)' /\ (Claim(p)' => Claim(p))
  BY <1>1
<1>3. \A p \in Runs : Admitted(p)' => Admitted(p)
  <2>1. \A p \in Runs \ {r} : journal'[p] = journal[p]
    BY OtherRun
  <2> QED
    BY <2>1 DEF Admitted
<1>4. \A a, b \in Runs : PairInv(a, b)
  BY DEF Consistent
<1>5. \A a, b \in Runs : PairInv(a, b)'
  BY <1>2, <1>3, <1>4 DEF PairInv
<1> QED
  BY <1>2, <1>5 DEF Consistent

\* The steps that commit while the service is healthy and start no process.
LEMMA CancelKeeps ==
  ASSUME TypeOK, Consistent, NEW r \in Runs, NEW o \in Outcomes,
         CancelQueued(r, o) \/ LaunchFails(r, o)
  PROVE  Consistent'
<1> DEFINE st == IF CancelQueued(r, o) THEN "stopped" ELSE "failed"
           s == [states[r] EXCEPT !.st = st]
<1>1. /\ Healthy /\ states[r].st = "queued" /\ UNCHANGED <<req, proc, starts>>
      /\ Commit(r, s, TRUE, o, workers)
  BY DEF CancelQueued, LaunchFails, Launchable, Ready, Healthy, os
<1>2. s \in RunStates /\ s.st = st /\ s.q = states[r].q /\ st \in TERMINAL
  <2>1. st \in TERMINAL /\ states[r] \in RunStates
    BY DEF TypeOK, TERMINAL
  <2> HIDE DEF st
  <2> QED
    BY <2>1, StateFacts
<1>3. ExecutionInv(r) /\ ServiceInv(r)
  BY DEF Consistent
<1>4. Admitted(r) /\ starts[r] = 0 /\ ~Alive(r) /\ ~workers[r].on
  BY <1>1, <1>3, ConstantFacts DEF ExecutionInv, ServiceInv, Alive, TypeOK
<1> HIDE DEF s, st
<1>5. /\ phase' \in {"up", "down"}
      /\ \/ Last(r)' = Last(r) /\ (Admitted(r)' <=> Admitted(r)) /\ ~Healthy'
         \/ Admitted(r)' /\ Last(r)'.st = s.st /\ Last(r)'.q = s.q
      /\ phase' = "down" => ~workers'[r].on /\ states'[r].st = "none" /\ ~fatal'
      /\ phase' = "up" => /\ states'[r].st = s.st /\ states'[r].q = s.q
                          /\ workers'[r] = workers[r]
  BY <1>1, <1>2, CommittedRun DEF Healthy, TypeOK
<1>6. ExecutionInv(r)'
  BY <1>1, <1>2, <1>3, <1>4, <1>5 DEF ExecutionInv, Alive, TERMINAL
<1>7. ServiceInv(r)'
  BY <1>1, <1>2, <1>3, <1>4, <1>5 DEF ServiceInv, Healthy, Registered, TERMINAL
<1>8. Claim(r)' => Claim(r)
  BY <1>1, <1>2, <1>3, <1>4, <1>5 DEF Claim, Blocking, ServiceInv, ACTIVE
<1> QED
  BY <1>1, <1>2, <1>4, <1>6, <1>7, <1>8, CommitKeeps DEF Healthy, TypeOK

LEMMA CancelRunningKeeps ==
  ASSUME TypeOK, Consistent, NEW r \in Runs, NEW o \in Outcomes, CancelRunning(r, o)
  PROVE  Consistent'
<1> DEFINE s == [states[r] EXCEPT !.st = "cancelling"]
           w == [workers EXCEPT ![r].cancel = workers[r].on]
<1>1. /\ Healthy /\ states[r].st = "running" /\ UNCHANGED <<req, proc, starts>>
      /\ Commit(r, s, TRUE, o, w)
  BY DEF CancelRunning, Ready, Healthy, os
<1>2. s \in RunStates /\ s.st = "cancelling" /\ s.q = states[r].q
  <2>1. states[r] \in RunStates /\ "cancelling" \in ACTIVE \cup TERMINAL
    BY DEF TypeOK, ACTIVE
  <2> QED
    BY <2>1, StateFacts
<1>3. ExecutionInv(r) /\ ServiceInv(r)
  BY DEF Consistent
<1>4. /\ w \in [Runs -> WorkerRecords] /\ \A p \in Runs \ {r} : w[p] = workers[p]
      /\ w[r].on = workers[r].on /\ (w[r].on => w[r].cancel)
  BY DEF TypeOK, WorkerRecords
<1>5. Admitted(r) /\ Blocking(r) /\ Last(r).st = "running"
  BY <1>1, <1>3, ConstantFacts DEF ExecutionInv, ServiceInv, Blocking, ACTIVE
<1> HIDE DEF s, w
<1>6. /\ phase' \in {"up", "down"}
      /\ \/ Last(r)' = Last(r) /\ (Admitted(r)' <=> Admitted(r)) /\ ~Healthy'
         \/ Admitted(r)' /\ Last(r)'.st = s.st /\ Last(r)'.q = s.q
      /\ phase' = "down" => ~workers'[r].on /\ states'[r].st = "none" /\ ~fatal'
      /\ phase' = "up" => /\ states'[r].st = s.st /\ states'[r].q = s.q
                          /\ workers'[r] = w[r]
  BY <1>1, <1>2, <1>4, CommittedRun DEF Healthy
<1>7. ExecutionInv(r)'
  BY <1>1, <1>2, <1>3, <1>5, <1>6 DEF ExecutionInv, Alive, Blocking, ACTIVE
<1>8. ServiceInv(r)'
  BY <1>1, <1>2, <1>3, <1>4, <1>5, <1>6 DEF ServiceInv, Healthy, Registered
<1> QED
  BY <1>1, <1>2, <1>4, <1>5, <1>7, <1>8, CommitKeeps DEF Healthy, Claim

LEMMA LaunchKeeps ==
  ASSUME TypeOK, Consistent, NEW r \in Runs, NEW o \in Outcomes, Launch(r, o)
  PROVE  Consistent'
<1> DEFINE s == [states[r] EXCEPT !.st = "running"]
           w == [workers EXCEPT ![r] = NewWorker]
<1>1. /\ Healthy /\ states[r].st = "queued" /\ req' = req
      /\ Commit(r, s, TRUE, o, w)
  BY DEF Launch, Launchable, Ready, Healthy
<1>2. s \in RunStates /\ s.st = "running" /\ s.q = states[r].q
  <2>1. states[r] \in RunStates /\ "running" \in ACTIVE \cup TERMINAL
    BY DEF TypeOK, ACTIVE
  <2> QED
    BY <2>1, StateFacts
<1>3. ExecutionInv(r) /\ ServiceInv(r)
  BY DEF Consistent
<1>4. /\ w \in [Runs -> WorkerRecords] /\ \A p \in Runs \ {r} : w[p] = workers[p]
      /\ w[r].on
  BY ConstantFacts DEF TypeOK
<1>5. Admitted(r) /\ Blocking(r) /\ Last(r).st = "queued" /\ starts[r] = 0
  BY <1>1, <1>3, ConstantFacts DEF ExecutionInv, ServiceInv, Blocking, ACTIVE
<1>6. /\ starts'[r] = starts[r] + 1
      /\ \A p \in Runs \ {r} : proc'[p] = proc[p] /\ starts'[p] = starts[p]
  BY DEF Launch, TypeOK
<1> HIDE DEF s, w
<1>7. /\ phase' \in {"up", "down"}
      /\ \/ Last(r)' = Last(r) /\ (Admitted(r)' <=> Admitted(r)) /\ ~Healthy'
         \/ Admitted(r)' /\ Last(r)'.st = s.st /\ Last(r)'.q = s.q
      /\ phase' = "down" => ~workers'[r].on /\ states'[r].st = "none" /\ ~fatal'
      /\ phase' = "up" => /\ states'[r].st = s.st /\ states'[r].q = s.q
                          /\ workers'[r] = w[r]
  BY <1>1, <1>2, <1>4, CommittedRun DEF Healthy
<1>8. ExecutionInv(r)'
  BY <1>1, <1>2, <1>3, <1>5, <1>6, <1>7 DEF ExecutionInv, Alive, Blocking, ACTIVE
<1>9. ServiceInv(r)'
  BY <1>1, <1>2, <1>3, <1>4, <1>5, <1>7 DEF ServiceInv, Healthy, Registered
<1> QED
  BY <1>1, <1>2, <1>4, <1>5, <1>6, <1>8, <1>9, CommitKeeps DEF Healthy, Claim

LEMMA AcceptKeeps ==
  ASSUME TypeOK, Consistent, NEW r \in Runs, NEW o \in Outcomes,
         AcceptEvent(r, o) \/ AcceptState(r, o)
  PROVE  Consistent'
<1>1. Healthy /\ workers[r].on /\ UNCHANGED <<req, proc, starts>>
  BY DEF AcceptEvent, AcceptState, Received, Ticking, Healthy
<1>2. PICK s \in RunStates :
        /\ s.st = states[r].st /\ s.q = states[r].q
        /\ Commit(r, s, TRUE, o, workers) \/ Commit(r, s, FALSE, o, workers)
  BY StateReport DEF AcceptEvent, TypeOK
<1>3. ExecutionInv(r) /\ ServiceInv(r)
  BY DEF Consistent
<1>4. /\ Admitted(r) /\ Blocking(r) /\ states[r].st = Last(r).st
      /\ states[r].st \in {"running", "cancelling"}
  BY <1>1, <1>3 DEF ServiceInv, Blocking, ACTIVE
<1>5. ASSUME NEW t \in BOOLEAN, Commit(r, s, t, o, workers) PROVE Consistent'
  <2>1. /\ phase' \in {"up", "down"}
        /\ \/ Last(r)' = Last(r) /\ (Admitted(r)' <=> Admitted(r)) /\ ~Healthy'
           \/ /\ Admitted(r)'
              /\ \/ Last(r)'.st = s.st /\ Last(r)'.q = s.q
                 \/ Last(r)' = Last(r)
        /\ phase' = "down" => ~workers'[r].on /\ states'[r].st = "none" /\ ~fatal'
        /\ phase' = "up" => /\ states'[r].st = s.st /\ states'[r].q = s.q
                            /\ workers'[r] = workers[r]
        /\ Healthy' => Healthy
    BY <1>1, <1>2, <1>5, CommittedRun DEF Healthy, TypeOK
  <2>2. ExecutionInv(r)'
    BY <1>1, <1>2, <1>3, <1>4, <2>1 DEF ExecutionInv, Alive, Blocking, ACTIVE
  <2>3. ServiceInv(r)'
    BY <1>1, <1>2, <1>3, <1>4, <2>1 DEF ServiceInv, Healthy, Registered
  <2> QED
    BY <1>1, <1>2, <1>4, <1>5, <2>2, <2>3, CommitKeeps DEF Healthy, Claim, TypeOK
<1> QED
  BY <1>2, <1>5

\* A run whose worker is on ends: its record becomes final, and quarantined
\* unless the process is known to be gone.
LEMMA EndKeeps ==
  ASSUME TypeOK, Consistent, phase = "up", NEW r \in Runs, workers[r].on,
         NEW s \in RunStates, s.st \in TERMINAL, s.q \/ s.q = states[r].q,
         NEW o \in Outcomes, NEW w \in [Runs -> WorkerRecords],
         Commit(r, s, TRUE, o, w),
         w[r].on => Failed(o),
         \A p \in Runs \ {r} : w[p] = workers[p],
         req' = req, starts' = starts,
         \A p \in Runs \ {r} : proc'[p] = proc[p],
         proc'[r] # "none" => proc[r] # "none",
         Alive(r)' => Alive(r) /\ s.q
  PROVE  Consistent'
<1>1. ExecutionInv(r) /\ ServiceInv(r)
  BY DEF Consistent
<1>2. /\ phase' \in {"up", "down"}
      /\ \/ Last(r)' = Last(r) /\ (Admitted(r)' <=> Admitted(r)) /\ ~Healthy'
         \/ Admitted(r)' /\ Last(r)'.st = s.st /\ Last(r)'.q = s.q
      /\ phase' = "down" => ~workers'[r].on /\ states'[r].st = "none" /\ ~fatal'
      /\ phase' = "up" => /\ states'[r].st = s.st /\ states'[r].q = s.q
                          /\ workers'[r] = w[r]
      /\ Failed(o) => ~Healthy'
  BY CommittedRun
<1>3. Admitted(r)
  BY <1>1 DEF ServiceInv
<1>4. ExecutionInv(r)'
  BY <1>1, <1>2, <1>3 DEF ExecutionInv, Blocking, TERMINAL
<1>5. ServiceInv(r)'
  BY <1>1, <1>2, <1>3 DEF ServiceInv, Healthy, Registered, TERMINAL
<1>6. Claim(r)
  BY DEF Claim
<1> QED
  BY <1>3, <1>4, <1>5, <1>6, CommitKeeps

LEMMA ReapKeeps ==
  ASSUME TypeOK, Consistent, NEW r \in Runs, NEW o \in Outcomes,
         ReapNormal(r, o) \/ ReapAbnormal(r, o)
  PROVE  Consistent'
<1>1. /\ phase = "up" /\ workers[r].on /\ ~Alive(r)' /\ UNCHANGED <<req, proc, starts>>
  BY DEF ReapNormal, ReapAbnormal, Reapable, Ticking, Alive
<1>2. FinalStatus(workers[r]) \in TERMINAL /\ "interrupted" \in TERMINAL
  BY DEF FinalStatus, TERMINAL
<1>3. states[r] \in RunStates
  BY DEF TypeOK
<1>4. /\ Released(r, o) \in [Runs -> WorkerRecords]
      /\ Released(r, o)[r].on => Failed(o)
      /\ \A p \in Runs \ {r} : Released(r, o)[p] = workers[p]
  BY ConstantFacts DEF Released, TypeOK
<1>5. CASE ReapNormal(r, o)
  <2> DEFINE s == [states[r] EXCEPT !.st = FinalStatus(workers[r])]
  <2>1. s \in RunStates /\ s.st \in TERMINAL /\ s.q = states[r].q
    BY <1>2, <1>3, StateFacts
  <2>2. Commit(r, s, TRUE, o, Released(r, o))
    BY <1>5 DEF ReapNormal
  <2> HIDE DEF s
  <2> QED
    BY <1>1, <1>4, <2>1, <2>2, EndKeeps
<1>6. CASE ReapAbnormal(r, o)
  <2> DEFINE s == [Quarantined(states[r]) EXCEPT !.st = "interrupted"]
  <2>1. s \in RunStates /\ s.st \in TERMINAL /\ s.q
    BY <1>2, <1>3, StateFacts
  <2>2. Commit(r, s, TRUE, o, Released(r, o))
    BY <1>6 DEF ReapAbnormal
  <2> HIDE DEF s
  <2> QED
    BY <1>1, <1>4, <2>1, <2>2, EndKeeps
<1> QED
  BY <1>5, <1>6

LEMMA HandleFatalKeeps ==
  ASSUME TypeOK, Consistent, NEW r \in Runs, NEW o \in Outcomes, HandleFatal(r, o)
  PROVE  Consistent'
<1> DEFINE s == [Quarantined(states[r]) EXCEPT !.st = "interrupted"]
           w == [workers EXCEPT ![r] = NoWorker]
<1>1. /\ phase = "up" /\ workers[r].on /\ UNCHANGED <<req, starts>>
      /\ Commit(r, s, TRUE, o, w)
  BY DEF HandleFatal
<1>2. s \in RunStates /\ s.st \in TERMINAL /\ s.q
  <2>1. states[r] \in RunStates /\ "interrupted" \in TERMINAL
    BY DEF TypeOK, TERMINAL
  <2> QED
    BY <2>1, StateFacts
<1>3. w \in [Runs -> WorkerRecords] /\ ~w[r].on /\ \A p \in Runs \ {r} : w[p] = workers[p]
  BY ConstantFacts DEF TypeOK
<1>4. /\ \A p \in Runs \ {r} : proc'[p] = proc[p]
      /\ proc'[r] # "none" => proc[r] # "none"
      /\ Alive(r)' => Alive(r)
  <2>1. CASE Alive(r)
    <3>1. PICK st \in {"dying", "crashed"} : proc' = [proc EXCEPT ![r] = st]
      BY <2>1 DEF HandleFatal
    <3> QED
      BY <2>1, <3>1 DEF Alive, TypeOK
  <2>2. CASE ~Alive(r)
    BY <2>2 DEF HandleFatal, Alive
  <2> QED
    BY <2>1, <2>2
<1> HIDE DEF s, w
<1> QED
  BY <1>1, <1>2, <1>3, <1>4, EndKeeps

\* A step that writes no record, of a worker or of the monitor.
LEMMA SilentKeeps ==
  ASSUME TypeOK, Consistent, UNCHANGED <<req, journal, starts>>,
         \A p \in Runs : /\ Alive(p)' => Alive(p)
                         /\ proc'[p] # "none" => proc[p] # "none"
                         /\ ServiceInv(p)'
                         /\ workers'[p].on => workers[p].on
  PROVE  Consistent'
<1>1. \A p \in Runs : /\ ExecutionInv(p)' /\ (Claim(p)' => Claim(p))
                      /\ (Admitted(p)' <=> Admitted(p))
  BY DEF Consistent, ExecutionInv, Admitted, Last, Blocking, Claim
<1>2. \A a, b \in Runs : PairInv(a, b)'
  BY <1>1 DEF Consistent, PairInv
<1> QED
  BY <1>1, <1>2 DEF Consistent

LEMMA WorkerKeeps ==
  ASSUME TypeOK, Consistent, NEW r \in Runs, Worker(r)
  PROVE  Consistent'
<1>1. UNCHANGED <<req, journal, starts, phase, fatal, states, workers>>
  BY DEF Worker, WorkerEvent, WorkerState, Send, WorkerFork, WorkerResult, WorkerExit,
         WorkerDies, KidsExit, disk, memory
<1>2. \/ UNCHANGED proc
      \/ Alive(r) /\ \E st \in {"done", "exited", "crashed"} : proc' = [proc EXCEPT ![r] = st]
  BY DEF Worker, WorkerEvent, WorkerState, Send, WorkerFork, WorkerResult, WorkerExit,
         WorkerDies, KidsExit, Alive
<1>3. \A p \in Runs : (Alive(p)' => Alive(p)) /\ (proc'[p] # "none" => proc[p] # "none")
  <2>1. CASE UNCHANGED proc
    BY <2>1 DEF Alive
  <2>2. ASSUME Alive(r), NEW st, proc' = [proc EXCEPT ![r] = st]
        PROVE  \A p \in Runs : (Alive(p)' => Alive(p)) /\ (proc'[p] # "none" => proc[p] # "none")
    BY <2>2 DEF Alive, TypeOK
  <2> QED
    BY <1>2, <2>1, <2>2
<1>4. \A p \in Runs : ServiceInv(p)'
  BY <1>1 DEF Consistent, ServiceInv, Registered, Healthy, Last, Admitted
<1> QED
  BY <1>1, <1>3, <1>4, SilentKeeps

LEMMA MonitorKeeps ==
  ASSUME TypeOK, Consistent,
         \/ MonitorExit \/ Stop
         \/ \E r \in Runs :
              AcceptResult(r) \/ AcceptTorn(r) \/ LaunchRaises(r) \/ ReadEvents(r)
  PROVE  Consistent'
<1>1. ASSUME /\ UNCHANGED <<req, journal, starts, proc, states>>
             /\ \A p \in Runs : /\ workers'[p].on <=> workers[p].on
                                /\ workers'[p].cancel <=> workers[p].cancel
             /\ phase = "up" /\ phase' \in {"up", "closed"}
             /\ phase' = "closed" => \A p \in Runs : ~workers[p].on
             /\ Healthy' => Healthy
      PROVE  Consistent'
  <2>1. \A p \in Runs : ServiceInv(p)'
    BY <1>1 DEF Consistent, ServiceInv, Registered, Last, Admitted
  <2> QED
    BY <1>1, <2>1, SilentKeeps DEF Alive
<1>2. CASE MonitorExit
  BY <1>1, <1>2 DEF MonitorExit, Busy, Healthy, disk, os
<1>3. CASE Stop
  BY <1>1, <1>3 DEF Stop, Healthy, disk, os
<1>4. ASSUME NEW r \in Runs, ReadEvents(r) PROVE Consistent'
  BY <1>1, <1>4 DEF ReadEvents, Healthy, disk, memory, os
<1>5. ASSUME NEW r \in Runs, AcceptTorn(r) \/ LaunchRaises(r) PROVE Consistent'
  BY <1>1, <1>5 DEF AcceptTorn, LaunchRaises, Received, Ticking, Launchable, Ready,
                    Healthy, disk, os
<1>6. ASSUME NEW r \in Runs, AcceptResult(r) PROVE Consistent'
  <2>1. \A p \in Runs : /\ workers'[p].on <=> workers[p].on
                        /\ workers'[p].cancel <=> workers[p].cancel
    BY <1>6 DEF AcceptResult, TypeOK, WorkerRecords
  <2> QED
    BY <1>1, <1>6, <2>1 DEF AcceptResult, Received, Ticking, Healthy, disk
<1> QED
  BY <1>2, <1>3, <1>4, <1>5, <1>6

LEMMA ForceStopKeeps ==
  ASSUME TypeOK, Consistent, NEW r \in Runs, ForceStop(r)
  PROVE  Consistent'
<1>1. /\ Healthy /\ workers[r].on /\ UNCHANGED <<req, journal, starts, phase, fatal>>
      /\ proc[r] \in {"alive", "done"} /\ proc' = [proc EXCEPT ![r] = "dying"]
  BY DEF ForceStop, Ticking, Healthy
<1>2. \A p \in Runs : /\ workers'[p].on <=> workers[p].on
                      /\ workers'[p].cancel <=> workers[p].cancel
  BY DEF ForceStop, TypeOK, WorkerRecords
<1>3. \A p \in Runs : states'[p].st = states[p].st /\ (states[p].q => states'[p].q)
  <2>1. Quarantined(states[r]).st = states[r].st /\ Quarantined(states[r]).q
    BY StateFacts DEF TypeOK, ACTIVE
  <2>2. states' = [states EXCEPT ![r] = Quarantined(states[r])]
    BY DEF ForceStop
  <2> QED
    BY <2>1, <2>2 DEF TypeOK
<1>4. \A p \in Runs : (Alive(p)' => Alive(p)) /\ (proc'[p] # "none" => proc[p] # "none")
  BY <1>1 DEF Alive, TypeOK
<1>5. \A p \in Runs : ServiceInv(p)'
  BY <1>1, <1>2, <1>3 DEF Consistent, ServiceInv, Registered, Healthy, Last, Admitted
<1> QED
  BY <1>1, <1>2, <1>4, <1>5, SilentKeeps

\* Admission: the tests of submit, made on a memory that agrees with the disk,
\* keep the new claim apart from every durable one.
LEMMA SubmitKeeps ==
  ASSUME TypeOK, Consistent, NEW r \in Runs, NEW i \in Inputs, NEW o \in Outcomes,
         Submit(r, i, o)
  PROVE  Consistent'
<1> DEFINE s == [NoState EXCEPT !.st = "queued"]
<1>1. /\ Healthy /\ req[r] = NoReq /\ Admissible(i) /\ UNCHANGED <<proc, starts>>
      /\ req' = [req EXCEPT ![r] = i] /\ Commit(r, s, TRUE, o, workers)
  BY DEF Submit, Ready, Healthy, Fresh, os
<1>2. s \in RunStates /\ s.st = "queued" /\ s.q = FALSE
  <2>1. NoState \in RunStates /\ "queued" \in ACTIVE \cup TERMINAL /\ NoState.q = FALSE
    BY ConstantFacts DEF ACTIVE, NoState
  <2> QED
    BY <2>1, StateFacts
<1>3. \A p \in Runs : ExecutionInv(p) /\ ServiceInv(p)
  BY DEF Consistent
<1>4. /\ ~Admitted(r) /\ Last(r) = NoState /\ starts[r] = 0 /\ proc[r] = "none"
      /\ ~workers[r].on
  BY <1>1, <1>3 DEF ExecutionInv, ServiceInv, TypeOK
<1>5. \A p \in Runs \ {r} : req'[p] = req[p]
  BY <1>1 DEF TypeOK
<1>6. req'[r] = i /\ i # NoReq
  BY <1>1, RequestAssumption DEF TypeOK
<1> HIDE DEF s
<1>7. \A p \in Runs \ {r} : ExecutionInv(p)' /\ ServiceInv(p)' /\ (Claim(p)' => Claim(p))
  BY <1>1, <1>2, <1>5, OthersKept DEF Healthy, TypeOK
<1>8. /\ phase' \in {"up", "down"}
      /\ \/ Last(r)' = Last(r) /\ (Admitted(r)' <=> Admitted(r)) /\ ~Healthy'
         \/ Admitted(r)' /\ Last(r)'.st = s.st /\ Last(r)'.q = s.q
      /\ phase' = "down" => ~workers'[r].on /\ states'[r].st = "none" /\ ~fatal'
      /\ phase' = "up" => /\ states'[r].st = s.st /\ states'[r].q = s.q
                          /\ workers'[r] = workers[r]
  BY <1>1, <1>2, CommittedRun DEF Healthy, TypeOK
<1>9. ExecutionInv(r)'
  <2>1. ~Alive(r)' /\ proc'[r] = "none" /\ starts'[r] = 0 /\ req'[r] # NoReq
    BY <1>1, <1>4, <1>6 DEF Alive
  <2> QED
    BY <1>2, <1>4, <1>8, <2>1 DEF ExecutionInv
<1>10. ServiceInv(r)'
  BY <1>1, <1>2, <1>4, <1>8 DEF ServiceInv, Healthy, Registered
<1>11. \A p \in Runs : /\ Claim(p) \/ Admitted(p) => Registered(p)
                       /\ Claim(p) => Active(p) \/ states[p].q
  BY <1>1, <1>3, ConstantFacts
     DEF ExecutionInv, ServiceInv, Claim, Blocking, Registered, Active, Healthy, ACTIVE
<1>12. \A p \in Runs \ {r} : /\ Claim(p) => req[p].session # i.session
                             /\ Admitted(p) => req[p].key # i.key
  <2>1. \A p \in Runs : Registered(p) =>
          req[p].key # i.key /\ ~(req[p].session = i.session /\ (Active(p) \/ states[p].q))
    BY <1>1, Zenon DEF Admissible
  <2> QED
    BY <1>11, <2>1
<1>13. \A p \in Runs \ {r} : Admitted(p)' => Admitted(p)
  <2>1. \A p \in Runs \ {r} : journal'[p] = journal[p]
    BY <1>1, <1>2, OtherRun DEF Healthy, TypeOK
  <2> QED
    BY <2>1 DEF Admitted
<1>14. \A a, b \in Runs : PairInv(a, b)'
  <2> SUFFICES ASSUME NEW a \in Runs, NEW b \in Runs PROVE PairInv(a, b)'
    OBVIOUS
  <2>1. CASE a # r /\ b # r
    BY <1>5, <1>7, <1>13, <2>1 DEF Consistent, PairInv
  <2>2. CASE a = r \/ b = r
    BY <1>5, <1>6, <1>7, <1>12, <1>13, <2>2 DEF PairInv
  <2> QED
    BY <2>1, <2>2
<1> QED
  BY <1>7, <1>9, <1>10, <1>14 DEF Consistent

\* Recovery of one run: its record stays or becomes quarantined, and the service
\* has either loaded what the disk says or gives up.
LEMMA RecoverKeeps ==
  ASSUME TypeOK, Consistent, phase = "recovering", NEW r \in Runs, Admitted(r),
         UNCHANGED <<req, proc, starts, fatal, workers>>,
         \A p \in Runs \ {r} : journal'[p] = journal[p],
         Admitted(r)',
         \/ Last(r)' = Last(r)
         \/ Claim(r) /\ Last(r)'.st \in TERMINAL /\ Last(r)'.q,
         \/ phase' = "closed"
         \/ /\ phase' = "recovering"
            /\ \A p \in Runs \ {r} : states'[p] = states[p]
            /\ states'[r].st = Last(r)'.st /\ states'[r].st \in TERMINAL
            /\ Last(r)'.q => states'[r].q
  PROVE  Consistent'
<1>1. \A p \in Runs : ExecutionInv(p) /\ ServiceInv(p)
  BY DEF Consistent
<1>2. \A p \in Runs \ {r} : /\ ExecutionInv(p)' /\ ServiceInv(p)'
                            /\ (Claim(p)' => Claim(p)) /\ (Admitted(p)' => Admitted(p))
  BY <1>1 DEF ExecutionInv, ServiceInv, Admitted, Last, Blocking, Alive, Registered,
              Healthy, Claim
<1>3. ExecutionInv(r)'
  BY <1>1 DEF ExecutionInv, Blocking, Alive, TERMINAL
<1>4. ServiceInv(r)' /\ (Claim(r)' => Claim(r))
  BY <1>1 DEF ServiceInv, Registered, Healthy, Claim, Blocking
<1>5. \A a, b \in Runs : PairInv(a, b)'
  BY <1>2, <1>4 DEF Consistent, PairInv
<1> QED
  BY <1>2, <1>3, <1>4, <1>5 DEF Consistent

LEMMA ServiceKeeps ==
  ASSUME TypeOK, Consistent, Service
  PROVE  Consistent'
<1>1. \A p \in Runs : ExecutionInv(p) /\ ServiceInv(p)
  BY DEF Consistent
<1>2. CASE Crash
  <2>1. /\ UNCHANGED <<req, journal, starts, proc>>
        /\ phase' = "down" /\ ~fatal'
        /\ \A p \in Runs : ~workers'[p].on /\ states'[p].st = "none"
    BY <1>2, ConstantFacts DEF Crash, disk, os, Unloaded, Unsupervised
  <2>2. \A p \in Runs : ServiceInv(p)'
    BY <2>1 DEF ServiceInv, Registered, Healthy
  <2> QED
    BY <2>1, <2>2, SilentKeeps DEF Alive
<1>3. CASE Start
  <2>1. /\ UNCHANGED <<req, journal, starts, proc, states, workers, fatal>>
        /\ phase = "down" /\ phase' = "recovering"
    BY <1>3 DEF Start, disk
  <2>2. \A p \in Runs : ServiceInv(p)'
    BY <1>1, <2>1 DEF ServiceInv, Registered, Healthy
  <2> QED
    BY <2>1, <2>2, SilentKeeps DEF Alive
<1>4. CASE RecoverDone
  <2>1. /\ UNCHANGED <<req, journal, starts, proc, states, workers, fatal>>
        /\ phase = "recovering" /\ phase' = "up"
        /\ \A p \in Runs : ~Admitted(p) \/ Registered(p)
    BY <1>4 DEF RecoverDone, Pending, Admitted, disk, os
  <2>2. \A p \in Runs : ServiceInv(p)'
    BY <1>1, <2>1, ConstantFacts
       DEF ExecutionInv, ServiceInv, Registered, Healthy, Last, Admitted, TERMINAL
  <2> QED
    BY <2>1, <2>2, SilentKeeps DEF Alive
<1>5. ASSUME NEW r \in Runs, RecoverRefused(r) PROVE Consistent'
  <2>1. /\ UNCHANGED <<req, journal, starts, proc, states, workers, fatal>>
        /\ phase = "recovering" /\ phase' = "closed"
    BY <1>5 DEF RecoverRefused, disk, os
  <2>2. \A p \in Runs : ServiceInv(p)'
    BY <1>1, <2>1 DEF ServiceInv, Registered, Healthy
  <2> QED
    BY <2>1, <2>2, SilentKeeps DEF Alive
<1>6. ASSUME NEW r \in Runs, NEW o \in Outcomes, RecoverTerminal(r, o) PROVE Consistent'
  <2>1. /\ phase = "recovering" /\ UNCHANGED <<req, proc, starts, fatal, workers>>
        /\ phase' \in {"recovering", "closed"}
        /\ Admitted(r) /\ Last(r).st \in TERMINAL
        /\ journal' = [journal EXCEPT ![r] = Repaired(journal[r])]
        /\ states' = [states EXCEPT ![r] = Reloaded(r)]
    BY <1>6 DEF RecoverTerminal, Pending, Admitted, Last, os
  <2>2. /\ Repaired(journal[r]).len = journal[r].len
        /\ Repaired(journal[r]).last = journal[r].last
        /\ Reloaded(r).st = Last(r).st /\ Reloaded(r).q = Last(r).q
    BY ReloadFacts DEF Last
  <2>3. /\ \A p \in Runs \ {r} : journal'[p] = journal[p] /\ states'[p] = states[p]
        /\ journal'[r] = Repaired(journal[r]) /\ states'[r] = Reloaded(r)
    BY <2>1 DEF TypeOK
  <2>4. Last(r)' = Last(r) /\ Admitted(r)'
    BY <2>1, <2>2, <2>3 DEF Last, Admitted
  <2> QED
    BY <2>1, <2>2, <2>3, <2>4, RecoverKeeps
<1>7. ASSUME NEW r \in Runs, NEW o \in Outcomes, RecoverActive(r, o) PROVE Consistent'
  <2> DEFINE s == [Quarantined(Reloaded(r)) EXCEPT !.st = "interrupted"]
             s1 == [s EXCEPT !.seq = @ + 1]
             j == Repaired(journal[r])
  <2>1. /\ phase = "recovering" /\ UNCHANGED <<req, proc, starts, fatal, workers>>
        /\ phase' = IF o = "ok" THEN phase ELSE "closed"
        /\ Admitted(r) /\ Last(r).st \in ACTIVE
        /\ journal' = [journal EXCEPT ![r] = Appended(j, s1, TRUE, o)]
        /\ states' = IF Crashed(o) THEN Unloaded ELSE [states EXCEPT ![r] = s1]
    BY <1>7 DEF RecoverActive, Write, Pending, Admitted, Last, os
  <2>2. j \in Journals /\ j.len = journal[r].len /\ j.last = Last(r)
    BY ReloadFacts DEF Last
  <2>3. s1 \in RunStates /\ s1.st = "interrupted" /\ s1.q
    <3>1. Reloaded(r) \in RunStates /\ "interrupted" \in TERMINAL
      BY ReloadFacts DEF TERMINAL
    <3>2. s \in RunStates /\ s.st = "interrupted" /\ s.q
      BY <3>1, StateFacts
    <3> HIDE DEF s
    <3> QED
      BY <3>2 DEF RunStates
  <2> HIDE DEF s, s1, j
  <2> DEFINE a == Appended(j, s1, TRUE, o)
  <2>4. \/ a.len = j.len /\ a.last = j.last /\ o # "ok"
        \/ a.len = j.len + 1 /\ a.last = s1
    <3>1. \/ a.len = j.len /\ a.last = j.last /\ (Failed(o) \/ Crashed(o))
          \/ a.len = j.len + 1 /\ a.last = IF TRUE THEN s1 ELSE j.last
      BY <2>2, <2>3, AppendedFacts
    <3>2. Failed(o) \/ Crashed(o) => o # "ok"
      BY DEF Failed, Crashed
    <3> HIDE DEF a
    <3> QED
      BY <3>1, <3>2
  <2>5. /\ \A p \in Runs \ {r} : journal'[p] = journal[p]
        /\ journal'[r] = a
        /\ ~Crashed(o) => /\ states'[r] = s1
                          /\ \A p \in Runs \ {r} : states'[p] = states[p]
    BY <2>1 DEF TypeOK
  <2> HIDE DEF a
  <2>6. Admitted(r)'
    <3>1. journal[r].len \in Nat /\ journal[r].len > 0
      BY <2>1 DEF TypeOK, Journals, Admitted
    <3>2. a.len > 0
      BY <2>2, <2>4, <3>1
    <3> QED
      BY <2>5, <3>2 DEF Admitted
  <2>7. \/ Last(r)' = Last(r) /\ o # "ok"
        \/ Last(r)' = s1
    BY <2>2, <2>4, <2>5 DEF Last
  <2>8. Claim(r)
    BY <2>1 DEF Claim, Blocking
  <2>9. \/ phase' = "closed"
        \/ /\ phase' = "recovering" /\ Last(r)' = s1 /\ states'[r] = s1
           /\ \A p \in Runs \ {r} : states'[p] = states[p]
    BY <2>1, <2>5, <2>7 DEF Crashed
  <2> QED
    BY <2>1, <2>3, <2>5, <2>6, <2>7, <2>8, <2>9, RecoverKeeps DEF TERMINAL
<1> QED
  BY <1>2, <1>3, <1>4, <1>5, <1>6, <1>7 DEF Service, Recover

\* The durable record of every run covers whatever may still be running for it:
\* an execution is always behind an active or quarantined record, one session
\* has at most one such record, and no key is admitted twice.
THEOREM Invariance == Spec => [](TypeOK /\ Consistent)
<1>1. Init => Consistent
  <2> SUFFICES ASSUME Init PROVE Consistent
    OBVIOUS
  <2>1. \A r \in Runs :
          /\ ~Admitted(r) /\ Last(r) = NoState /\ ~Alive(r) /\ starts[r] = 0
          /\ proc[r] = "none" /\ ~workers[r].on /\ states[r].st = "none"
          /\ ~fatal /\ phase = "down"
    BY ConstantFacts DEF Init, Admitted, Last, Alive
  <2>2. \A r \in Runs : ExecutionInv(r) /\ ServiceInv(r) /\ ~Claim(r)
    BY <2>1, ConstantFacts
       DEF ExecutionInv, ServiceInv, Registered, Healthy, Claim, Blocking, ACTIVE
  <2> QED
    BY <2>1, <2>2 DEF Consistent, PairInv
<1>2. TypeOK /\ Consistent /\ [Next]_vars => Consistent'
  <2> SUFFICES ASSUME TypeOK, Consistent, [Next]_vars PROVE Consistent'
    OBVIOUS
  <2>1. CASE Client
    BY <2>1, SubmitKeeps, CancelKeeps, CancelRunningKeeps, MonitorKeeps DEF Client
  <2>2. CASE Monitor
    BY <2>2, AcceptKeeps, MonitorKeeps, ForceStopKeeps, ReapKeeps, LaunchKeeps,
       CancelKeeps, HandleFatalKeeps
       DEF Monitor, Accept, Reap, LaunchQueued, Fail
  <2>3. CASE Service
    BY <2>3, ServiceKeeps
  <2>4. CASE \E r \in Runs : Worker(r)
    BY <2>4, WorkerKeeps
  <2>5. CASE UNCHANGED vars
    <3>1. \A p \in Runs : ServiceInv(p)'
      BY <2>5 DEF vars, Consistent, ServiceInv, Registered, Healthy, Last, Admitted
    <3> QED
      BY <2>5, <3>1, SilentKeeps DEF vars, Alive
  <2>6. CASE Stop
    BY <2>6, MonitorKeeps
  <2> QED
    BY <2>1, <2>2, <2>3, <2>4, <2>5, <2>6 DEF Next
<1> QED
  BY <1>1, <1>2, TypeCorrect, PTL DEF Spec

\* No two worker processes of one session are ever alive together: admission
\* (submit) against whatever crashes, forced stops and failed commits leave.
THEOREM OneWorkerPerSession == Spec => []SessionExclusive
<1>1. Consistent => SessionExclusive
  BY DEF Consistent, ExecutionInv, PairInv, Claim, SessionExclusive
<1> QED
  BY <1>1, Invariance, PTL

\* A run is launched at most once in its life (_launch, _recover).
THEOREM LaunchedOnce == Spec => []AtMostOnce
<1>1. Consistent => AtMostOnce
  BY DEF Consistent, ExecutionInv, AtMostOnce
<1> QED
  BY <1>1, Invariance, PTL

\* Two admitted runs never carry the same key, across restarts (submit, _recover).
THEOREM AdmittedOncePerKey == Spec => []IdempotentAdmission
<1>1. Consistent => IdempotentAdmission
  BY DEF Consistent, PairInv, IdempotentAdmission
<1> QED
  BY <1>1, Invariance, PTL

\* A healthy service decides on what the disk says: in memory and in the journal
\* every run has the same status, and a durable quarantine is known (_commit, _recover).
THEOREM MemoryAgrees == Spec => []MemoryIsDurable
<1>1. Consistent => MemoryIsDurable
  BY DEF Consistent, ServiceInv, Healthy, MemoryIsDurable
<1> QED
  BY <1>1, Invariance, PTL

=============================================================================
