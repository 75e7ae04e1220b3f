--------------------------- MODULE AgentSupervisor ---------------------------
(***************************************************************************)
(* The durable run supervisor of web/agent_service.py and the worker        *)
(* processes of web/run_worker.py.                                          *)
(*                                                                          *)
(* One service process admits requests as runs, launches each run in a      *)
(* worker process, folds what the worker reports through its pipe into the  *)
(* run state, and persists every change twice: an fsynced record in         *)
(* stream.jsonl, then an atomic run_state.json.  Clients call the API from  *)
(* HTTP threads; the monitor thread owns launching and reaping; all of them *)
(* run under one condition, so an action is one critical section.  The      *)
(* service may be killed at any point, and a disk write may fail or be cut  *)
(* short by a crash.  Worker processes outlive a killed service.            *)
(*                                                                          *)
(* Bounds: MaxRuns run directories, MaxEvents events per worker, MaxBoots   *)
(* starts of the service.                                                   *)
(***************************************************************************)
EXTENDS Naturals, Sequences, FiniteSets

CONSTANTS
  MaxRuns,      \* number of run directories (bound)
  MaxEvents,    \* events sent and tools started by a worker (bound)
  MaxBoots,     \* times the service process is started (bound)
  MaxWorkers,   \* AgentService.max_workers
  MaxPending,   \* AgentService.max_pending
  Sessions,     \* storage session ids
  Keys,         \* (user_id, request_id) pairs
  Roots,        \* workspace roots a request may name
  NoRoot,       \* a request that names no workspace
  Overlap,      \* <<w, root>>: the workspace w contains root or lies in it
  Inputs,       \* the requests clients may submit
  NoReq,        \* a run directory that does not exist
  Faults        \* the failures that may happen, see AllFaults

Runs == 1 .. MaxRuns

TERMINAL == {"completed", "stopped", "failed", "interrupted"}
ACTIVE == {"queued", "running", "cancelling"}

\* What may go wrong inside _commit: the append to stream.jsonl fails and
\* writes nothing (append_error) or part of a line (torn_error), or it succeeds
\* and run_state.json fails (snapshot_error); or the process dies there.
CommitFaults == {"append_error", "torn_error", "snapshot_error",
                 "torn_crash", "snapshot_crash"}
\* Outside _commit: request.json unreadable at launch, a pipe message cut short
\* by the death of its sender, the worktree registry refusing a quarantine.
AllFaults == CommitFaults \cup {"read_error", "torn_message", "registry_error"}

Requests == [key : Keys, session : Sessions, root : Roots \cup {NoRoot}]

ASSUME BoundsAssumption ==
  MaxRuns \in Nat /\ MaxEvents \in Nat /\ MaxBoots \in Nat
ASSUME CapacityAssumption ==
  MaxWorkers \in Nat \ {0} /\ MaxPending \in Nat \ {0}
ASSUME RequestAssumption ==
  Inputs \subseteq Requests /\ NoReq \notin Inputs /\ NoRoot \notin Roots
\* A run works in the root it was asked to, or in a checkout of its own, which is
\* named by the run.
ASSUME OverlapAssumption == Overlap \subseteq (Roots \cup Runs) \X Roots
ASSUME FaultAssumption == Faults \subseteq AllFaults

VARIABLES
  \* on disk, under .runs/<run>/
  req,        \* request.json and the immutable identity of the run
  journal,    \* stream.jsonl: whole records, last transition, readable, torn tail
  snapshot,   \* run_state.json
  registry,   \* whether the run's managed worktree is marked quarantined
  \* in the service process
  phase,      \* down, recovering (inside ensure_started), up, closed
  fatal,      \* _fatal is set
  stopping,   \* _stopping is set
  states,     \* _states, and through req the index _requests
  workers,    \* _workers
  \* in the operating system
  proc,       \* the worker process of a run
  kids,       \* whether processes it started are still there
  pipe,       \* messages sent by the worker and not yet received
  \* observations
  sent,       \* events sent and tools started by the worker
  starts,     \* times a worker process was started for the run
  boots,      \* times the service was started
  told        \* the final status a client read from the event stream

disk == <<req, journal, snapshot, registry>>
memory == <<phase, fatal, stopping, states, workers>>
os == <<proc, kids, pipe, sent, starts>>
vars == <<req, journal, snapshot, registry, phase, fatal, stopping, states,
          workers, proc, kids, pipe, sent, starts, boots, told>>

-----------------------------------------------------------------------------
(* Records *)

\* The part of RunState the supervisor decides on: status, the quarantined flag
\* and last_seq of its metadata, and whether a worktree_binding is known.
RunStates == [st : ACTIVE \cup TERMINAL \cup {"none"}, q : BOOLEAN,
              bound : BOOLEAN, seq : Nat]
NoState == [st |-> "none", q |-> FALSE, bound |-> FALSE, seq |-> 0]

Journals == [len : Nat, last : RunStates, good : BOOLEAN, torn : BOOLEAN]
NoJournal == [len |-> 0, last |-> NoState, good |-> TRUE, torn |-> FALSE]

ResultStatuses == {"completed", "stopped", "failed", "other"}
Results == [st : ResultStatuses \cup {"none"}, clean : BOOLEAN]
NoResult == [st |-> "none", clean |-> FALSE]

WorkerRecords == [on : BOOLEAN, cancel : BOOLEAN, forced : BOOLEAN, result : Results]
NoWorker == [on |-> FALSE, cancel |-> FALSE, forced |-> FALSE, result |-> NoResult]
NewWorker == [NoWorker EXCEPT !.on = TRUE]

Unloaded == [r \in Runs |-> NoState]
Unsupervised == [r \in Runs |-> NoWorker]

Messages == [kind : {"event", "state", "result", "torn"}, result : Results]
Message(kind, result) == [kind |-> kind, result |-> result]

ProcStates == {"none", "alive", "done", "dying", "exited", "crashed"}
\* process.is_alive(): "done" has sent its result, "dying" has been killed.
Alive(r) == proc[r] \in {"alive", "done", "dying"}

TypeOK ==
  /\ req \in [Runs -> Inputs \cup {NoReq}]
  /\ journal \in [Runs -> Journals]
  /\ snapshot \in [Runs -> RunStates]
  /\ registry \in [Runs -> {"open", "quarantined"}]
  /\ phase \in {"down", "recovering", "up", "closed"}
  /\ fatal \in BOOLEAN /\ stopping \in BOOLEAN
  /\ states \in [Runs -> RunStates]
  /\ workers \in [Runs -> WorkerRecords]
  /\ proc \in [Runs -> ProcStates]
  /\ kids \in [Runs -> BOOLEAN]
  /\ pipe \in [Runs -> Seq(Messages)]
  /\ sent \in [Runs -> Nat] /\ starts \in [Runs -> Nat] /\ boots \in Nat
  /\ told \in [Runs -> TERMINAL \cup {"none"}]

Init ==
  /\ req = [r \in Runs |-> NoReq]
  /\ journal = [r \in Runs |-> NoJournal]
  /\ snapshot = [r \in Runs |-> NoState]
  /\ registry = [r \in Runs |-> "open"]
  /\ phase = "down" /\ fatal = FALSE /\ stopping = FALSE
  /\ states = [r \in Runs |-> NoState]
  /\ workers = [r \in Runs |-> NoWorker]
  /\ proc = [r \in Runs |-> "none"]
  /\ kids = [r \in Runs |-> FALSE]
  /\ pipe = [r \in Runs |-> <<>>]
  /\ sent = [r \in Runs |-> 0] /\ starts = [r \in Runs |-> 0]
  /\ boots = 0
  /\ told = [r \in Runs |-> "none"]

-----------------------------------------------------------------------------
(* Persistence *)

Outcomes == {"ok"} \cup (Faults \cap CommitFaults)

\* stream.jsonl after appending one record.  A record written behind a torn
\* line is unreadable, and so is one whose seq does not continue the file.
Appended(j, s, transition, o) ==
  CASE o = "append_error" -> j
    [] o \in {"torn_error", "torn_crash"} -> [j EXCEPT !.torn = TRUE]
    [] OTHER -> [len |-> j.len + 1,
                 last |-> IF transition THEN s ELSE j.last,
                 good |-> j.good /\ ~j.torn /\ s.seq = j.len + 1,
                 torn |-> FALSE]

\* Mutant: only a torn line is taken for a failure.
Failed_Swallowed(o) == o = "torn_error"

Failed(o) == o \in {"append_error", "torn_error", "snapshot_error"}
Crashed(o) == o \in {"torn_crash", "snapshot_crash"}

\* last_seq advances in memory, then the journal is written, then the snapshot.
Write(r, j, s, transition, o) ==
  LET s1 == [s EXCEPT !.seq = @ + 1] IN
  /\ states' = IF Crashed(o) THEN Unloaded ELSE [states EXCEPT ![r] = s1]
  /\ journal' = [journal EXCEPT ![r] = Appended(j, s1, transition, o)]
  /\ snapshot' = IF o = "ok" THEN [snapshot EXCEPT ![r] = s1] ELSE snapshot

\* _commit, the last thing every caller does but for the workers it leaves: an
\* exception makes the service fatal, a crash takes it down with its memory.
Commit(r, s, transition, o, w) ==
  /\ Write(r, journal[r], s, transition, o)
  /\ fatal' = (~Crashed(o) /\ (fatal \/ Failed(o)))
  /\ phase' = IF Crashed(o) THEN "down" ELSE phase
  /\ workers' = IF Crashed(o) THEN Unsupervised ELSE w

\* _quarantine: the run keeps its claim in memory; the worktree registry is told
\* when a binding is known, and its failure is only recorded.
Quarantined(s) == [s EXCEPT !.q = TRUE]
\* Mutant: asks for the quarantine flag instead of the binding.
RegistryAfter_Misread(r, s) ==
  IF s.q THEN {[registry EXCEPT ![r] = "quarantined"]} ELSE {registry}

RegistryAfter(r, s) ==
  IF s.bound
    THEN {[registry EXCEPT ![r] = "quarantined"]}
         \cup (IF "registry_error" \in Faults THEN {registry} ELSE {})
    ELSE {registry}

-----------------------------------------------------------------------------
(* Client API: submit, cancel_run, stop, events_after *)

Registered(r) == states[r].st # "none"
Active(r) == states[r].st \in ACTIVE
Ready == phase = "up" /\ ~fatal /\ ~stopping

\* Its managed checkout, once its binding is known, or the root it asked for.
Workspace(p) == IF states[p].bound THEN p ELSE req[p].root

\* A quarantined run whose directory the requested workspace may share; the
\* default workspace is that of every run without a checkout.
WorkspaceConflict(p, root) ==
  /\ states[p].q
  /\ IF root = NoRoot THEN ~states[p].bound ELSE <<Workspace(p), root>> \in Overlap

\* Mutants: only an active run holds its session; only an active run its key.
Admissible_ActiveOnly(i) ==
  /\ \A p \in Runs : Registered(p) =>
       req[p].key # i.key /\ ~(req[p].session = i.session /\ Active(p))
  /\ Cardinality({p \in Runs : Active(p)}) < MaxWorkers + MaxPending
Admissible_KeyReused(i) ==
  /\ \A p \in Runs : Registered(p) =>
       ~(req[p].session = i.session /\ (Active(p) \/ states[p].q))
  /\ Cardinality({p \in Runs : Active(p)}) < MaxWorkers + MaxPending

\* submit refuses the session of an active or quarantined run, an unsafe
\* workspace and a full queue.
Admissible(i) ==
  /\ \A p \in Runs : Registered(p) =>
        /\ req[p].key # i.key
        /\ ~(req[p].session = i.session /\ (Active(p) \/ states[p].q))
        /\ ~WorkspaceConflict(p, i.root)
  /\ Cardinality({p \in Runs : Active(p)}) < MaxWorkers + MaxPending

\* Mutant: the directory of an ended run is taken again.
Fresh_Reused(r) == ~Active(r) /\ \A p \in Runs : p < r => req[p] # NoReq

\* Run ids are taken in order, so that _states iterates in order of admission.
Fresh(r) == req[r] = NoReq /\ \A p \in Runs : p < r => req[p] # NoReq

\* A repeated key returns the existing run or raises, and changes nothing.
Submit(r, i, o) ==
  /\ Ready /\ Fresh(r) /\ Admissible(i)
  /\ req' = [req EXCEPT ![r] = i]
  /\ Commit(r, [NoState EXCEPT !.st = "queued"], TRUE, o, workers)
  /\ UNCHANGED <<registry, stopping, boots, told>> /\ UNCHANGED os

\* Mutant: an ended run can be cancelled too.
CancelQueued_Ended(r, o) ==
  /\ Ready /\ Registered(r) /\ states[r].st \notin {"running", "cancelling"}
  /\ Commit(r, [states[r] EXCEPT !.st = "stopped"], TRUE, o, workers)
  /\ UNCHANGED <<req, registry, stopping, boots, told>> /\ UNCHANGED os

CancelQueued(r, o) ==
  /\ Ready /\ states[r].st = "queued"
  /\ Commit(r, [states[r] EXCEPT !.st = "stopped"], TRUE, o, workers)
  /\ UNCHANGED <<req, registry, stopping, boots, told>> /\ UNCHANGED os

\* Mutant: the worker is not told.
CancelRunning_Untold(r, o) ==
  /\ Ready /\ states[r].st = "running"
  /\ Commit(r, [states[r] EXCEPT !.st = "cancelling"], TRUE, o, workers)
  /\ UNCHANGED <<req, registry, stopping, boots, told>> /\ UNCHANGED os

\* worker.cancel is set whatever becomes of the commit.
CancelRunning(r, o) ==
  /\ Ready /\ states[r].st = "running"
  /\ Commit(r, [states[r] EXCEPT !.st = "cancelling"], TRUE, o,
            [workers EXCEPT ![r].cancel = workers[r].on])
  /\ UNCHANGED <<req, registry, stopping, boots, told>> /\ UNCHANGED os

\* Mutant: running workers are left to themselves.
Stop_Uncancelled ==
  /\ phase = "up" /\ ~stopping
  /\ stopping' = TRUE
  /\ UNCHANGED <<phase, fatal, states, workers, boots, told>>
  /\ UNCHANGED disk /\ UNCHANGED os

\* stop() cancels every active run first, each as one of the two actions above.
Stop ==
  /\ phase = "up" /\ ~stopping
  /\ fatal \/ \A r \in Runs : states[r].st \notin {"queued", "running"}
  /\ stopping' = TRUE
  /\ UNCHANGED <<phase, fatal, states, workers, boots, told>>
  /\ UNCHANGED disk /\ UNCHANGED os

\* A client reads the event stream to its end; a reader that already waits in
\* events_after is not stopped by _fatal.
ReadEvents(r) ==
  /\ phase = "up" /\ Registered(r)
  /\ journal[r].good /\ ~journal[r].torn /\ journal[r].last.st \in TERMINAL
  /\ told' = [told EXCEPT ![r] = journal[r].last.st]
  /\ UNCHANGED <<boots>> /\ UNCHANGED disk /\ UNCHANGED memory /\ UNCHANGED os

-----------------------------------------------------------------------------
(* Monitor thread: launching, draining pipes, forcing, reaping *)

Busy == {r \in Runs : workers[r].on}
Ticking == phase = "up" /\ ~fatal

\* Mutant: one worker slot stays unused.
Launchable_OffByOne(r) ==
  /\ Ready /\ states[r].st = "queued"
  /\ Cardinality(Busy) + 1 < MaxWorkers

\* Queued runs are launched in order of admission while a worker slot is free.
Launchable(r) ==
  /\ Ready /\ states[r].st = "queued"
  /\ Cardinality(Busy) < MaxWorkers
  /\ \A p \in Runs : p < r => states[p].st # "queued"

Launch(r, o) ==
  /\ Launchable(r)
  /\ proc' = [proc EXCEPT ![r] = "alive"]
  /\ pipe' = [pipe EXCEPT ![r] = <<>>]
  /\ starts' = [starts EXCEPT ![r] = @ + 1]
  /\ Commit(r, [states[r] EXCEPT !.st = "running"], TRUE, o,
            [workers EXCEPT ![r] = NewWorker])
  /\ UNCHANGED <<req, registry, stopping, kids, sent, boots, told>>

\* process.start() raised.
LaunchFails(r, o) ==
  /\ Launchable(r)
  /\ Commit(r, [states[r] EXCEPT !.st = "failed"], TRUE, o, workers)
  /\ UNCHANGED <<req, registry, stopping, boots, told>> /\ UNCHANGED os

\* request.json cannot be read: the exception reaches the monitor.
LaunchRaises(r) ==
  /\ "read_error" \in Faults /\ Launchable(r)
  /\ fatal' = TRUE
  /\ UNCHANGED <<phase, stopping, states, workers, boots, told>>
  /\ UNCHANGED disk /\ UNCHANGED os

Received(r, kind) ==
  /\ Ticking /\ workers[r].on /\ pipe[r] # <<>>
  /\ Head(pipe[r]).kind = kind
  /\ pipe' = [pipe EXCEPT ![r] = Tail(@)]

AcceptEvent(r, o) ==
  /\ Received(r, "event")
  /\ Commit(r, states[r], FALSE, o, workers)
  /\ UNCHANGED <<req, registry, stopping, proc, kids, sent, starts, boots, told>>

\* A _state projection may carry the worktree binding, and takes none away; the
\* status stays the supervisor's.
AcceptState(r, o) ==
  /\ Received(r, "state")
  /\ \E binding \in BOOLEAN :
       Commit(r, [states[r] EXCEPT !.bound = @ \/ binding], TRUE, o, workers)
  /\ UNCHANGED <<req, registry, stopping, proc, kids, sent, starts, boots, told>>

AcceptResult(r) ==
  /\ Received(r, "result")
  /\ workers' = [workers EXCEPT ![r].result = Head(pipe[r]).result]
  /\ UNCHANGED <<phase, fatal, stopping, states, proc, kids, sent, starts, boots, told>>
  /\ UNCHANGED disk

\* recv() of a message cut short raises OSError, which _drain does not catch.
AcceptTorn(r) ==
  /\ Received(r, "torn")
  /\ fatal' = TRUE
  /\ UNCHANGED <<phase, stopping, states, workers, proc, kids, sent, starts, boots, told>>
  /\ UNCHANGED disk

\* The grace period after a cancellation has passed and the worker is alive.
ForceStop(r) ==
  /\ Ticking /\ workers[r].on /\ workers[r].cancel
  /\ proc[r] \in {"alive", "done"}
  /\ workers' = [workers EXCEPT ![r].forced = TRUE]
  /\ states' = [states EXCEPT ![r] = Quarantined(@)]
  /\ registry' \in RegistryAfter(r, states[r])
  /\ proc' = [proc EXCEPT ![r] = "dying"]
  /\ kids' \in {kids, [kids EXCEPT ![r] = FALSE]}
  /\ UNCHANGED <<req, journal, snapshot, phase, fatal, stopping, pipe, sent, starts, boots, told>>

\* The worker is gone and its pipe drained; stop_processes may leave survivors,
\* seen (exited = FALSE) or not.
Reapable(r) ==
  Ticking /\ workers[r].on /\ proc[r] \in {"exited", "crashed"} /\ pipe[r] = <<>>

\* Mutant: the worker's own report of a clean process table is not asked for.
NormalExit_Unclean(r, exited) ==
  ~workers[r].forced /\ proc[r] = "exited" /\ workers[r].result # NoResult /\ exited

NormalExit(r, exited) ==
  /\ ~workers[r].forced /\ proc[r] = "exited"
  /\ workers[r].result # NoResult /\ workers[r].result.clean
  /\ exited

\* Mutants: the reported status is taken as it is; a cancellation is forgotten.
FinalStatus_Raw(w) == w.result.st
FinalStatus_Uncancelled(w) ==
  IF w.result.st = "other" THEN "failed" ELSE w.result.st

FinalStatus(w) ==
  CASE w.result.st = "completed" -> IF w.cancel THEN "stopped" ELSE "completed"
    [] w.result.st = "stopped" -> "stopped"
    [] OTHER -> "failed"

\* The entry leaves _workers after the commit, so a failed commit keeps it.
Released(r, o) == IF Failed(o) THEN workers ELSE [workers EXCEPT ![r] = NoWorker]

ReapNormal(r, o) ==
  /\ Reapable(r) /\ NormalExit(r, TRUE)
  /\ kids' \in {kids, [kids EXCEPT ![r] = FALSE]}
  /\ Commit(r, [states[r] EXCEPT !.st = FinalStatus(workers[r])], TRUE, o,
            Released(r, o))
  /\ UNCHANGED <<req, registry, stopping, proc, pipe, sent, starts, boots, told>>

ReapAbnormal(r, o) ==
  /\ Reapable(r)
  /\ \E exited \in {TRUE, ~kids[r]} : ~NormalExit(r, exited)
  /\ kids' \in {kids, [kids EXCEPT ![r] = FALSE]}
  /\ registry' \in RegistryAfter(r, states[r])
  /\ Commit(r, [Quarantined(states[r]) EXCEPT !.st = "interrupted"], TRUE, o,
            Released(r, o))
  /\ UNCHANGED <<req, stopping, proc, pipe, sent, starts, boots, told>>

\* _monitor's handler, once per worker: kill, wait a second, quarantine, and
\* try to commit once more, whatever the first failure was.  The entry it leaves
\* in _workers is never read again.
HandleFatal(r, o) ==
  /\ phase = "up" /\ fatal /\ workers[r].on
  /\ \/ Alive(r) /\ \E s \in {"dying", "crashed"} : proc' = [proc EXCEPT ![r] = s]
     \/ ~Alive(r) /\ UNCHANGED proc
  /\ kids' \in {kids, [kids EXCEPT ![r] = FALSE]}
  /\ registry' \in RegistryAfter(r, states[r])
  /\ Commit(r, [Quarantined(states[r]) EXCEPT !.st = "interrupted"], TRUE, o,
            [workers EXCEPT ![r] = NoWorker])
  /\ UNCHANGED <<req, stopping, pipe, sent, starts, boots, told>>

\* The monitor returns and releases the supervisor lock.
MonitorExit ==
  /\ phase = "up" /\ (fatal \/ stopping) /\ Busy = {}
  /\ phase' = "closed"
  /\ UNCHANGED <<fatal, stopping, states, workers, boots, told>>
  /\ UNCHANGED disk /\ UNCHANGED os

-----------------------------------------------------------------------------
(* Worker process: run_agent and worker_entry *)

\* The pipe has a reader.
Connected(r) == phase = "up" /\ workers[r].on

Works(r) ==
  /\ proc[r] = "alive" /\ sent[r] < MaxEvents
  /\ sent' = [sent EXCEPT ![r] = @ + 1]

Send(r, kind) ==
  /\ Works(r) /\ Connected(r)
  /\ pipe' = [pipe EXCEPT ![r] = Append(@, Message(kind, NoResult))]
  /\ UNCHANGED <<proc, kids, starts, boots, told>>
  /\ UNCHANGED disk /\ UNCHANGED memory

WorkerEvent(r) == Send(r, "event")
WorkerState(r) == Send(r, "state")

\* A tool starts a process of its own.
WorkerFork(r) ==
  /\ Works(r) /\ ~kids[r]
  /\ kids' = [kids EXCEPT ![r] = TRUE]
  /\ UNCHANGED <<proc, pipe, starts, boots, told>>
  /\ UNCHANGED disk /\ UNCHANGED memory

\* The target returned or raised; descendants are cleaned up, and only a clean
\* process table is reported as such.
WorkerResult(r, st) ==
  /\ proc[r] = "alive" /\ Connected(r)
  /\ \E clean \in BOOLEAN :
       /\ kids' = [kids EXCEPT ![r] = @ /\ ~clean]
       /\ pipe' = [pipe EXCEPT ![r] =
                     Append(@, Message("result", [st |-> st, clean |-> clean]))]
  /\ proc' = [proc EXCEPT ![r] = "done"]
  /\ UNCHANGED <<sent, starts, boots, told>>
  /\ UNCHANGED disk /\ UNCHANGED memory

WorkerExit(r) ==
  /\ proc[r] = "done"
  /\ proc' = [proc EXCEPT ![r] = "exited"]
  /\ UNCHANGED <<kids, pipe, sent, starts, boots, told>>
  /\ UNCHANGED disk /\ UNCHANGED memory

\* The process dies of a signal, of its own exit code, or of a pipe nobody
\* reads; a death in the middle of a send leaves part of a message behind.
WorkerDies(r) ==
  /\ Alive(r)
  /\ proc' = [proc EXCEPT ![r] = "crashed"]
  /\ \/ UNCHANGED pipe
     \/ /\ "torn_message" \in Faults /\ proc[r] # "done" /\ Connected(r)
        /\ pipe' = [pipe EXCEPT ![r] = Append(@, Message("torn", NoResult))]
  /\ UNCHANGED <<kids, sent, starts, boots, told>>
  /\ UNCHANGED disk /\ UNCHANGED memory

\* A process left behind by a dead worker ends by itself.
KidsExit(r) ==
  /\ kids[r] /\ ~Alive(r)
  /\ kids' = [kids EXCEPT ![r] = FALSE]
  /\ UNCHANGED <<proc, pipe, sent, starts, boots, told>>
  /\ UNCHANGED disk /\ UNCHANGED memory

-----------------------------------------------------------------------------
(* Crash of the service and ensure_started *)

\* Killing the service loses its memory and its ends of the pipes, not the
\* worker processes.
Crash ==
  /\ phase # "down" /\ boots < MaxBoots
  /\ phase' = "down" /\ fatal' = FALSE
  /\ states' = Unloaded /\ workers' = Unsupervised
  /\ UNCHANGED <<stopping, boots, told>>
  /\ UNCHANGED disk /\ UNCHANGED os

Start ==
  /\ phase = "down" /\ boots < MaxBoots
  /\ phase' = "recovering" /\ boots' = boots + 1
  /\ stopping' = FALSE
  /\ pipe' = [r \in Runs |-> <<>>]
  /\ UNCHANGED <<fatal, states, workers, proc, kids, sent, starts, told>>
  /\ UNCHANGED disk

\* A directory whose journal holds no whole record was never admitted.
Pending(r) == journal[r].len > 0 /\ ~Registered(r)

\* Mutants: the torn line is left; the snapshot is trusted before the journal.
Repaired_Not(j) == j
Reloaded_Snapshot(r) == snapshot[r]

Repaired(j) == [j EXCEPT !.torn = FALSE]
Reloaded(r) == [journal[r].last EXCEPT !.seq = journal[r].len]

\* Mutant: an unfinished run is queued again.
RecoverActive_Requeued(r, o) ==
  /\ phase = "recovering" /\ Pending(r) /\ journal[r].good
  /\ journal[r].last.st \in ACTIVE
  /\ Write(r, Repaired(journal[r]), [Reloaded(r) EXCEPT !.st = "queued"], TRUE, o)
  /\ phase' = IF o = "ok" THEN phase ELSE "closed"
  /\ UNCHANGED <<req, registry, fatal, stopping, workers, boots, told>> /\ UNCHANGED os

\* An unfinished run is quarantined and interrupted, never executed again.  A
\* failed write makes ensure_started raise: the service has to be started anew.
RecoverActive(r, o) ==
  /\ phase = "recovering" /\ Pending(r) /\ journal[r].good
  /\ journal[r].last.st \in ACTIVE
  /\ registry' \in RegistryAfter(r, journal[r].last)
  /\ Write(r, Repaired(journal[r]),
           [Quarantined(Reloaded(r)) EXCEPT !.st = "interrupted"], TRUE, o)
  /\ phase' = IF o = "ok" THEN phase ELSE "closed"
  /\ UNCHANGED <<req, fatal, stopping, workers, boots, told>> /\ UNCHANGED os

RecoverTerminal(r, o) ==
  /\ phase = "recovering" /\ Pending(r) /\ journal[r].good
  /\ journal[r].last.st \in TERMINAL
  /\ o \in {"ok", "snapshot_error", "snapshot_crash"}
  /\ journal' = [journal EXCEPT ![r] = Repaired(@)]
  /\ states' = [states EXCEPT ![r] = Reloaded(r)]
  /\ snapshot' = IF o = "ok" THEN [snapshot EXCEPT ![r] = Reloaded(r)] ELSE snapshot
  /\ phase' = IF o = "ok" THEN phase ELSE "closed"
  /\ UNCHANGED <<req, registry, fatal, stopping, workers, boots, told>> /\ UNCHANGED os

\* _read_journal refuses an unreadable line or a gap in seq, and with it the
\* whole service refuses to start.
RecoverRefused(r) ==
  /\ phase = "recovering" /\ Pending(r) /\ ~journal[r].good
  /\ phase' = "closed"
  /\ UNCHANGED <<fatal, stopping, states, workers, boots, told>>
  /\ UNCHANGED disk /\ UNCHANGED os

RecoverDone ==
  /\ phase = "recovering" /\ \A r \in Runs : ~Pending(r)
  /\ phase' = "up"
  /\ UNCHANGED <<fatal, stopping, states, workers, boots, told>>
  /\ UNCHANGED disk /\ UNCHANGED os

-----------------------------------------------------------------------------

Client == \E r \in Runs :
  \/ \E o \in Outcomes : \/ \E i \in Inputs : Submit(r, i, o)
                         \/ CancelQueued(r, o)
                         \/ CancelRunning(r, o)
  \/ ReadEvents(r)

Accept(r) == \/ \E o \in Outcomes : AcceptEvent(r, o) \/ AcceptState(r, o)
             \/ AcceptResult(r)
             \/ AcceptTorn(r)
Reap(r) == \E o \in Outcomes : ReapNormal(r, o) \/ ReapAbnormal(r, o)
LaunchQueued(r) == \/ \E o \in Outcomes : Launch(r, o) \/ LaunchFails(r, o)
                   \/ LaunchRaises(r)
Fail(r) == \E o \in Outcomes : HandleFatal(r, o)
Monitor == \/ MonitorExit
           \/ \E r \in Runs : Accept(r) \/ ForceStop(r) \/ Reap(r)
                              \/ LaunchQueued(r) \/ Fail(r)

Worker(r) == \/ WorkerEvent(r) \/ WorkerState(r) \/ WorkerFork(r)
             \/ \E st \in ResultStatuses : WorkerResult(r, st)
             \/ WorkerExit(r) \/ WorkerDies(r) \/ KidsExit(r)

Recover(r) == \/ \E o \in Outcomes : RecoverActive(r, o) \/ RecoverTerminal(r, o)
              \/ RecoverRefused(r)
Service == Crash \/ Start \/ RecoverDone \/ \E r \in Runs : Recover(r)

Next == Client \/ Stop \/ Monitor \/ Service \/ \E r \in Runs : Worker(r)

Spec == Init /\ [][Next]_vars

\* The monitor thread keeps ticking, a killed process ends, and whoever runs the
\* service starts it again.  Nothing makes a worker finish.
Fairness ==
  /\ WF_vars(MonitorExit) /\ WF_vars(Start) /\ WF_vars(RecoverDone)
  /\ \A r \in Runs :
       /\ WF_vars(Accept(r)) /\ WF_vars(ForceStop(r)) /\ WF_vars(Reap(r))
       /\ WF_vars(LaunchQueued(r)) /\ WF_vars(Fail(r)) /\ WF_vars(Recover(r))
       /\ WF_vars(proc[r] = "dying" /\ WorkerDies(r))

FairSpec == Spec /\ Fairness

-----------------------------------------------------------------------------
(* Properties *)

Last(r) == journal[r].last
Admitted(r) == journal[r].len > 0
\* The durable state of a run keeps others out of its session.
Blocking(r) == Last(r).st \in ACTIVE \/ Last(r).q

\* "One active run per session" has to hold of processes, not of records: no two
\* worker processes of one session are ever alive together, although workers
\* survive a killed service, cancellations are forced and commits fail (submit,
\* _recover, _tick and the handler of _monitor).
SessionExclusive ==
  \A a, b \in Runs : a # b /\ Alive(a) /\ Alive(b) => req[a].session # req[b].session

\* An admitted request is executed at most once: neither a restart nor a failed
\* commit after process.start() launches it again (_launch, _recover).
AtMostOnce == \A r \in Runs : starts[r] <= 1

\* request_id is idempotent across restarts: two admitted runs never carry the
\* same (user, request_id) key (submit, _recover).
IdempotentAdmission ==
  \A a, b \in Runs : a # b /\ Admitted(a) /\ Admitted(b) => req[a].key # req[b].key

\* A run that no longer blocks its session left nothing behind: its process
\* exited normally and no process it started remains (_tick, worker_entry).
ReleaseIsClean ==
  \A r \in Runs : Admitted(r) /\ ~Blocking(r) =>
    proc[r] \in {"none", "exited"} /\ ~kids[r]

\* Whatever crash or error interrupts a commit, the journal can be replayed and
\* is never behind the snapshot (_commit, _read_journal).
JournalReadable ==
  \A r \in Runs : journal[r].good /\ snapshot[r].seq <= journal[r].len

\* While the service is healthy, the statuses it decides on are the durable ones
\* and every admitted run is known to it (_commit, _recover).
MemoryIsDurable ==
  phase = "up" /\ ~fatal =>
    \A r \in Runs : states[r].st = Last(r).st /\ (Last(r).q => states[r].q)

\* Once a client has read the end of a run, it never reads another one, not even
\* after a restart (_finish, _monitor, _recover, events_after).
TerminalIsFinal ==
  [][\A r \in Runs : told[r] \in TERMINAL => told'[r] = told[r]]_told

\* A durable quarantine is never lifted (_quarantine, _recover).
QuarantineIsSticky ==
  [][\A r \in Runs : Last(r).q => Last(r)'.q]_journal

\* A run that ended interrupted with its worktree known has it quarantined in
\* the registry too (_quarantine in _tick, _monitor and _recover).
WorktreeFollowsRun ==
  \A r \in Runs : Last(r).st = "interrupted" /\ Last(r).bound => registry[r] = "quarantined"

\* No worker is launched into a workspace that a quarantined execution may still
\* be writing (the overlap test of submit).
WorkspaceIsolated ==
  [][\A r \in Runs : starts'[r] # starts[r] =>
       \A p \in Runs \ {r} : ~(Registered(p) /\ WorkspaceConflict(p, req[r].root))]_starts

\* A cancelled run ends, whatever its worker does (cancel_run, _tick).
CancelTerminates ==
  \A r \in Runs : Last(r).st = "cancelling" ~> Last(r).st \in TERMINAL

\* A stopped or failed service lets go of the supervisor lock (_monitor, stop).
StopTerminates == phase = "up" /\ (stopping \/ fatal) ~> phase # "up"

\* Unless some worker runs for ever, or nobody starts a service that has failed
\* again, every admitted run ends: a slot is freed, the queue moves, and a
\* restart settles what it finds (_tick, _launch, _recover).
EveryRunEnds ==
  (\A p \in Runs : []<>(proc[p] \notin {"alive", "done"})) /\ []<>(phase # "closed")
    => \A r \in Runs : Last(r).st = "queued" ~> Last(r).st \in TERMINAL

-----------------------------------------------------------------------------
(* The inductive invariant behind SessionExclusive, AtMostOnce,              *)
(* IdempotentAdmission and ReleaseIsClean                                     *)

Healthy == phase = "up" /\ ~fatal

\* What keeps a session taken: the durable record, or a worker entry whose
\* record may still be rewritten by the handler of _monitor.
Claim(r) == Blocking(r) \/ workers[r].on

\* Nothing is executed before its admission is durable, nor twice, and a living
\* process is always covered by a blocking record.
ExecutionInv(r) ==
  /\ ~Admitted(r) => Last(r) = NoState /\ starts[r] = 0
  /\ Admitted(r) => req[r] # NoReq /\ Last(r).st # "none"
  /\ starts[r] <= 1
  /\ proc[r] # "none" => starts[r] = 1
  /\ Alive(r) => Blocking(r)

\* How the memory of a service follows the disk.
ServiceInv(r) ==
  /\ workers[r].on => phase = "up" /\ Admitted(r)
  /\ phase = "down" => ~Registered(r)
  /\ phase \in {"down", "recovering"} => ~fatal
  /\ phase = "recovering" /\ Registered(r) =>
       /\ states[r].st = Last(r).st /\ states[r].st \in TERMINAL
       /\ Last(r).q => states[r].q
  /\ Healthy =>
       /\ states[r].st = Last(r).st
       /\ Last(r).q => states[r].q
       /\ states[r].st = "queued" => starts[r] = 0
       /\ workers[r].on => states[r].st \in {"running", "cancelling"}
       /\ workers[r].on /\ states[r].st = "cancelling" => workers[r].cancel

PairInv(a, b) ==
  a # b =>
    /\ Claim(a) /\ Claim(b) => req[a].session # req[b].session
    /\ Admitted(a) /\ Admitted(b) => req[a].key # req[b].key

\* The durable record of every run covers whatever the operating system and the
\* service may still do for it, at most one run per session does, and no key is
\* admitted twice.
Consistent ==
  /\ \A r \in Runs : ExecutionInv(r) /\ ServiceInv(r)
  /\ \A a, b \in Runs : PairInv(a, b)

\* The target of the worker has returned and nothing it started is left.
Settled(r) == proc[r] \notin {"none", "alive"} /\ ~kids[r]

\* A clean result, on its way or accepted, tells the truth ever after, and a run
\* that lets go of its session has been reaped on the word of such a result.
CleanInv(r) ==
  /\ proc[r] = "none" => ~kids[r]
  /\ \A i \in DOMAIN pipe[r] : pipe[r][i].result.clean => Settled(r)
  /\ workers[r].result.clean => Settled(r)
  /\ Admitted(r) /\ ~Blocking(r) => proc[r] \in {"none", "exited"} /\ ~kids[r]

Clean == \A r \in Runs : CleanInv(r)

-----------------------------------------------------------------------------
(* Refinement *)

Lifecycle == INSTANCE RunLifecycle WITH
  life <- [r \in Runs |-> IF Admitted(r) THEN Last(r).st ELSE "absent"],
  executed <- [r \in Runs |-> starts[r] > 0]

\* The durable records tell the life of a run as RunLifecycle allows it: accepted,
\* executed at most once, one final status, never completed once cancelled
\* (_commit by all its callers, and _recover).
ImplementsLifecycle == Lifecycle!Spec

=============================================================================
