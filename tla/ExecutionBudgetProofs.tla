----------------------- MODULE ExecutionBudgetProofs -----------------------
(***************************************************************************)
(* What ExecutionBudget promises for every number of subtasks, every pool  *)
(* and every limit.  The inductive invariant Inv ties the books of the     *)
(* budget to the threads in flight (Booked), the phase of the root to its  *)
(* place in its own loop (RootPlaced), and the answers the root has to the *)
(* threads that can still spend (Given, Spenders).  Of the end of the turn *)
(* it is proved that every step leaves less to do (Effort), and that the   *)
(* root, until it has reported, is never left without a step (NeverStuck). *)
(***************************************************************************)
EXTENDS ExecutionBudget, FiniteSetTheorems, TLAPS

(* The root waits inside a tool, and has finished when the scope closes.   *)
RootPlaced ==
  /\ phase \in {"collect", "sweep", "join"} => pc[Root] = "using"
  /\ phase \in {"closed", "reported"} => pc[Root] = "done" /\ closed
  /\ closed => phase \in {"closed", "reported"}
  /\ pc[Root] \notin {"queued", "idle"}

(* An answer comes from a finished subtask, a timeout stops the budget, and *)
(* after the delegation every subtask has its result.                      *)
Given ==
  /\ \A i \in Tasks : results[i] = "answer" => pc[i] = "done"
  /\ \A i \in Tasks : results[i] = "timeout" => stopped
  /\ phase \notin {"collect", "sweep"} =>
       \A i \in Tasks : pc[i] = "idle" \/ results[i] # "none"

(* The pool bounds the workers that run.                                   *)
Pooled == Cardinality(Running) <= PoolSize

(* Every attempt granted is settled, known to be unknown, or in flight.    *)
Booked == model = settled + unknown + Cardinality(InFlight)

Inv == /\ TypeOK /\ RootPlaced /\ Given /\ Pooled /\ Booked
       /\ OvershootBounded /\ ReportHonest

---------------------------------------------------------------------------
(* Sets of threads.                                                        *)

(* Threads, those that run and those in flight are finitely many.          *)
LEMMA ThreadsFinite ==
  /\ IsFiniteSet(Threads)
  /\ IsFiniteSet(Running) /\ Cardinality(Running) \in Nat
  /\ IsFiniteSet(InFlight) /\ Cardinality(InFlight) \in Nat
<1>1. IsFiniteSet(Threads)
  BY FS_AddElement, BudgetAssumption DEF Threads
<1>2. Running \in SUBSET Tasks /\ InFlight \in SUBSET Threads
  BY DEF Running, InFlight
<1>3. IsFiniteSet(Running) /\ IsFiniteSet(InFlight)
  BY <1>1, <1>2, FS_Subset, BudgetAssumption
<1> QED BY <1>1, <1>3, FS_CardinalityType

(* More calls in flight cost more.                                         *)
LEMMA CostsGrow ==
  ASSUME NEW c \in Nat, NEW a \in Nat, NEW b \in Nat, a <= b
  PROVE  c * a \in Nat /\ c * b \in Nat /\ c * a <= c * b
<1>1. PICK d \in Nat : b = a + d
  <2>1. b - a \in Nat /\ b = a + (b - a)
    OBVIOUS
  <2> QED BY <2>1
<1>2. c * a \in Nat /\ c * d \in Nat
  OBVIOUS
<1>3. c * b = c * a + c * d
  BY <1>1
<1> QED BY <1>2, <1>3

(* The threads a step of one thread moves into or out of a call.           *)
LEMMA CallStarts ==
  ASSUME TypeOK, NEW t \in Threads, pc[t] # "calling", Moves(t, "calling")
  PROVE  Cardinality(InFlight') = Cardinality(InFlight) + 1
<1>1. InFlight' = InFlight \cup {t} /\ t \notin InFlight
  BY DEF InFlight, Moves, TypeOK
<1> QED BY <1>1, ThreadsFinite, FS_AddElement

LEMMA CallEnds ==
  ASSUME TypeOK, NEW t \in Threads, pc[t] = "calling",
         NEW place \in Stands \ {"calling"}, Moves(t, place)
  PROVE  Cardinality(InFlight') = Cardinality(InFlight) - 1
<1>1. InFlight' = InFlight \ {t} /\ t \in InFlight
  BY DEF InFlight, Moves, TypeOK
<1> QED BY <1>1, ThreadsFinite, FS_RemoveElement

LEMMA NoCall ==
  ASSUME TypeOK, NEW t \in Threads, pc[t] # "calling",
         NEW place \in Stands \ {"calling"}, Moves(t, place)
  PROVE  InFlight' = InFlight
BY DEF InFlight, Moves, TypeOK

(* A step of an agent that runs takes no further worker of the pool.       *)
LEMMA PoolKept ==
  ASSUME TypeOK, Pooled, NEW t \in Threads,
         pc[t] \in {"ready", "checked", "calling", "using"},
         NEW place \in Stands, Moves(t, place)
  PROVE  Pooled'
<1>1. Running' \in SUBSET Running
  BY DEF Running, Moves, TypeOK
<1>2. Cardinality(Running') <= Cardinality(Running)
  BY <1>1, ThreadsFinite, FS_Subset
<1>3. Cardinality(Running') \in Nat /\ Cardinality(Running) \in Nat
  BY <1>1, ThreadsFinite, FS_Subset, FS_CardinalityType
<1> QED BY <1>2, <1>3, BudgetAssumption DEF Pooled

(* While the budget is open, the root and the workers never spend at once: *)
(* the calls in flight are the root's one or those of the pool.            *)
LEMMA Spenders ==
  ASSUME Inv, Open, NEW t \in Threads, pc[t] = "checked"
  PROVE  Cardinality(InFlight) + 1 <= PoolSize
<1> USE BudgetAssumption DEF Inv
<1>1. CASE t = Root
  <2>1. phase = "turn"
    BY <1>1 DEF RootPlaced, TypeOK, Phases
  <2>2. \A i \in Tasks : pc[i] # "calling"
    BY <2>1 DEF Given, Open, TypeOK
  <2>3. InFlight = {}
    BY <1>1, <2>2 DEF InFlight, Threads
  <2>4. Cardinality(InFlight) = 0
    BY <2>3, FS_EmptySet
  <2> QED BY <2>4
<1>2. CASE t # Root
  <2>1. t \in Tasks
    BY <1>2 DEF Threads
  <2>2. phase # "turn"
    BY <2>1 DEF Given, Open, TypeOK
  <2>3. pc[Root] = "using"
    BY <2>2 DEF RootPlaced, Open, TypeOK, Phases
  <2>4. InFlight \in SUBSET (Running \ {t})
    BY <2>3 DEF InFlight, Running, Threads
  <2>5. t \in Running
    BY <2>1 DEF Running
  <2>6. Cardinality(Running \ {t}) = Cardinality(Running) - 1
        /\ IsFiniteSet(Running \ {t})
    BY <2>5, ThreadsFinite, FS_RemoveElement
  <2>7. Cardinality(InFlight) <= Cardinality(Running) - 1
    BY <2>4, <2>6, FS_Subset
  <2> QED BY <2>7, ThreadsFinite DEF Pooled
<1> QED BY <1>1, <1>2

---------------------------------------------------------------------------
(* The invariant.                                                          *)

(* It holds at the start.                                                  *)
LEMMA Starts == Init => Inv
<1> SUFFICES ASSUME Init PROVE Inv
  OBVIOUS
<1> USE BudgetAssumption DEF Init
<1>1. TypeOK
  <2>1. pc \in [Threads -> Stands] /\ results \in [Tasks -> {"none", "answer", "timeout"}]
    BY DEF Stands
  <2>2. report \in [complete : BOOLEAN, known : Nat, model : Nat]
    BY DEF NoReport
  <2>3. model \in 0 .. MaxModel /\ tool \in 0 .. MaxTool
        /\ known \in Nat /\ settled \in Nat /\ unknown \in Nat
    OBVIOUS
  <2>4. /\ closed \in BOOLEAN /\ stopped \in BOOLEAN
        /\ cancelled \in BOOLEAN /\ expired \in BOOLEAN
        /\ phase \in Phases /\ late \in BOOLEAN
    BY DEF Phases
  <2> QED BY <2>1, <2>2, <2>3, <2>4 DEF TypeOK
<1>2. RootPlaced /\ Given
  BY DEF RootPlaced, Given, Threads
<1>3. Running = {} /\ InFlight = {}
  BY DEF Running, InFlight, Threads
<1>4. Pooled /\ Booked
  BY <1>3, FS_EmptySet DEF Pooled, Booked
<1>5. OvershootBounded
  <2>1. Cardinality(InFlight) = 0
    BY <1>3, FS_EmptySet
  <2>2. Cost * 0 <= Cost * PoolSize /\ Cost * 0 \in Nat /\ Cost * PoolSize \in Nat
    BY CostsGrow
  <2>3. 0 + Cost * 0 <= MaxTokens - 1 + Cost * PoolSize
    BY <2>2
  <2> QED BY <2>1, <2>3 DEF OvershootBounded
<1>6. ReportHonest
  BY DEF ReportHonest
<1> QED BY <1>1, <1>2, <1>4, <1>5, <1>6 DEF Inv

(* A check or a refusal.                                                   *)
LEMMA PassingKeeps ==
  ASSUME Inv, NEW t \in Threads,
         pc[t] \in {"ready", "checked", "using"}, Runs(t),
         NEW place \in {"ready", "checked", "done"}, Moves(t, place),
         UNCHANGED <<counters, flags, delegation>>
  PROVE  Inv'
<1> USE BudgetAssumption DEF Inv, counters, flags, delegation
<1>1. TypeOK'
  BY DEF TypeOK, Moves, Stands
<1>2. RootPlaced'
  BY DEF RootPlaced, Moves, TypeOK, Runs
<1>3. Given'
  BY DEF Given, Moves, TypeOK, Threads
<1>4. Pooled'
  BY PoolKept DEF Stands
<1>5. InFlight' = InFlight
  BY NoCall DEF Stands
<1>6. Booked' /\ OvershootBounded' /\ ReportHonest'
  BY <1>5 DEF Booked, OvershootBounded, ReportHonest
<1> QED BY <1>1, <1>2, <1>3, <1>4, <1>6

LEMMA CheckKeeps ==
  ASSUME Inv, NEW t \in Threads, Check(t) PROVE Inv'
<1>1. PICK place \in {"checked", "done"} : Moves(t, place)
  BY DEF Check
<1> QED BY <1>1, PassingKeeps DEF Check

LEMMA RefuseKeeps ==
  ASSUME Inv, NEW t \in Threads, Refuse(t) PROVE Inv'
<1>1. Runs(t)
  BY DEF Runs, Refuse, Inv, RootPlaced, TypeOK, Phases
<1> QED BY <1>1, PassingKeeps DEF Refuse

LEMMA ReturnKeeps ==
  ASSUME Inv, NEW t \in Threads, Return(t) PROVE Inv'
BY PassingKeeps DEF Return

(* A model attempt is granted.                                             *)
LEMMA ClaimModelKeeps ==
  ASSUME Inv, NEW t \in Threads, ClaimModel(t) PROVE Inv'
<1> USE BudgetAssumption DEF Inv, ClaimModel, flags, delegation
<1>0. Runs(t) /\ Open /\ known < MaxTokens
  BY DEF Runs, Grantable, WithinLimits, RootPlaced, TypeOK, Phases
<1>1. TypeOK'
  BY DEF TypeOK, Moves, Stands
<1>2. RootPlaced'
  BY <1>0 DEF RootPlaced, Moves, TypeOK, Runs
<1>3. Given'
  BY DEF Given, Moves, TypeOK, Threads
<1>4. Pooled'
  BY PoolKept DEF Stands
<1>5. Cardinality(InFlight') = Cardinality(InFlight) + 1
  BY CallStarts
<1>6. Booked'
  BY <1>5, ThreadsFinite DEF Booked, TypeOK
<1>7. OvershootBounded'
  <2>1. Cardinality(InFlight') <= PoolSize /\ Cardinality(InFlight') \in Nat
    BY <1>0, <1>5, Spenders, ThreadsFinite
  <2>2. Cost * Cardinality(InFlight') <= Cost * PoolSize
        /\ Cost * Cardinality(InFlight') \in Nat /\ Cost * PoolSize \in Nat
    BY <2>1, CostsGrow
  <2>3. known' = known /\ known \in Nat
    BY DEF TypeOK
  <2> QED BY <1>0, <2>2, <2>3 DEF OvershootBounded
<1>8. ReportHonest'
  BY <1>0 DEF ReportHonest, Open, RootPlaced
<1> QED BY <1>1, <1>2, <1>3, <1>4, <1>6, <1>7, <1>8

(* A tool attempt is granted.                                              *)
LEMMA ClaimToolKeeps ==
  ASSUME Inv, NEW t \in Threads, ClaimTool(t) PROVE Inv'
<1> USE BudgetAssumption DEF Inv, ClaimTool, flags, delegation
<1>0. Runs(t)
  BY DEF Runs, RootPlaced, TypeOK, Phases
<1>1. TypeOK'
  BY DEF TypeOK, Moves, Stands
<1>2. RootPlaced'
  BY <1>0 DEF RootPlaced, Moves, TypeOK, Runs
<1>3. Given'
  BY DEF Given, Moves, TypeOK, Threads
<1>4. Pooled'
  BY PoolKept DEF Stands
<1>5. InFlight' = InFlight
  BY NoCall DEF Stands
<1>6. Booked' /\ OvershootBounded' /\ ReportHonest'
  BY <1>5 DEF Booked, OvershootBounded, ReportHonest
<1> QED BY <1>1, <1>2, <1>3, <1>4, <1>6

(* A model call returns: what it cost is within its share.                 *)
LEMMA SettleKeeps ==
  ASSUME Inv, NEW t \in Threads, pc[t] = "calling", Proceeds(t),
         NEW tokens \in 0 .. Cost, known' = known + tokens,
         \/ settled' = settled + 1 /\ unknown' = unknown
         \/ unknown' = unknown + 1 /\ settled' = settled,
         UNCHANGED <<model, tool, flags, delegation>>
  PROVE  Inv'
<1> USE BudgetAssumption DEF Inv, flags, delegation
<1>0. PICK place \in {"ready", "done"} : Moves(t, place)
  BY DEF Proceeds
<1>r. Runs(t)
  BY DEF Runs, RootPlaced, TypeOK, Phases
<1>1. TypeOK'
  BY <1>0 DEF TypeOK, Moves, Stands
<1>2. RootPlaced'
  BY <1>0, <1>r DEF RootPlaced, Moves, TypeOK, Runs
<1>3. Given'
  BY <1>0 DEF Given, Moves, TypeOK, Threads
<1>4. Pooled'
  BY <1>0, PoolKept DEF Stands
<1>5. Cardinality(InFlight') = Cardinality(InFlight) - 1
  BY <1>0, CallEnds DEF Stands
<1>6. Booked'
  BY <1>5, ThreadsFinite DEF Booked, TypeOK
<1>7. Cardinality(InFlight) > 0
  <2>1. t \in InFlight
    BY DEF InFlight
  <2> QED BY <2>1, ThreadsFinite, FS_EmptySet
<1>8. OvershootBounded'
  <2>1. PICK n \in Nat : Cardinality(InFlight) = n + 1
    <3>1. Cardinality(InFlight) - 1 \in Nat
          /\ Cardinality(InFlight) = (Cardinality(InFlight) - 1) + 1
      BY <1>7, ThreadsFinite
    <3> QED BY <3>1
  <2>2. Cost * (n + 1) = Cost * n + Cost /\ Cost * n \in Nat
    OBVIOUS
  <2>3. Cardinality(InFlight') = n
    BY <1>5, <2>1
  <2>4. known + (Cost * n + Cost) <= MaxTokens - 1 + Cost * PoolSize
    BY <2>1, <2>2 DEF OvershootBounded
  <2>5. Cost * PoolSize \in Nat /\ known \in Nat /\ tokens \in Nat /\ tokens <= Cost
    BY DEF TypeOK
  <2>6. known' + Cost * n <= MaxTokens - 1 + Cost * PoolSize
    BY <2>2, <2>4, <2>5
  <2> QED BY <2>3, <2>6 DEF OvershootBounded
<1>9. ReportHonest'
  BY DEF ReportHonest, InFlight
<1> QED BY <1>1, <1>2, <1>3, <1>4, <1>6, <1>8, <1>9

LEMMA SettleKnownKeeps ==
  ASSUME Inv, NEW t \in Threads, NEW tokens \in 0 .. Cost, SettleKnown(t, tokens)
  PROVE  Inv'
BY SettleKeeps DEF SettleKnown

LEMMA SettleUnknownKeeps ==
  ASSUME Inv, NEW t \in Threads, SettleUnknown(t)
  PROVE  Inv'
<1>1. 0 \in 0 .. Cost /\ known' = known + 0
  BY BudgetAssumption DEF SettleUnknown, Inv, TypeOK
<1> QED BY <1>1, SettleKeeps DEF SettleUnknown

---------------------------------------------------------------------------
(* The delegation.                                                         *)

(* What follows from threads and counters left alone.                      *)
LEMMA AloneKeeps ==
  ASSUME Inv, UNCHANGED <<counters, pc>>,
         phase' = "reported" => phase = "reported" /\ UNCHANGED report
  PROVE  Pooled' /\ Booked' /\ OvershootBounded' /\ ReportHonest'
<1>1. Running' = Running /\ InFlight' = InFlight
  BY DEF Running, InFlight
<1> QED BY <1>1 DEF Inv, Pooled, Booked, OvershootBounded, ReportHonest, counters

(* A worker that stands outside the pool moves outside it: nobody spends.  *)
LEMMA QuietKeeps ==
  ASSUME Inv, UNCHANGED counters,
         pc' \in [Threads -> Stands],
         \A t \in Threads : pc'[t] = pc[t]
                            \/ (pc[t] # "calling" /\ pc'[t] # "calling"),
         phase' = "reported" => phase = "reported" /\ UNCHANGED report
  PROVE  Booked' /\ OvershootBounded' /\ ReportHonest'
<1>1. InFlight' = InFlight
  BY DEF InFlight
<1> QED BY <1>1 DEF Inv, Booked, OvershootBounded, ReportHonest, counters

LEMMA DispatchKeeps == Inv /\ Dispatch => Inv'
<1> SUFFICES ASSUME Inv, Dispatch PROVE Inv'
  OBVIOUS
<1> USE BudgetAssumption DEF Inv, Dispatch, flags
<1>0. Root \in Threads /\ Tasks \subseteq Threads
  BY DEF Threads
<1>1. TypeOK'
  BY <1>0 DEF TypeOK, Stands, Phases, counters
<1>2. RootPlaced' /\ Given'
  BY <1>0 DEF RootPlaced, Given, TypeOK
<1>3. Running' = {}
  BY <1>0 DEF Running
<1>4. Pooled'
  BY <1>3, FS_EmptySet DEF Pooled
<1>5. \A t \in Threads : pc'[t] = pc[t] \/ (pc[t] # "calling" /\ pc'[t] # "calling")
  BY DEF Threads
<1>6. Booked' /\ OvershootBounded' /\ ReportHonest'
  BY <1>1, <1>5, QuietKeeps DEF TypeOK
<1> QED BY <1>1, <1>2, <1>4, <1>6

LEMMA StartKeeps == ASSUME Inv, NEW i \in Tasks, Start(i) PROVE Inv'
<1> USE BudgetAssumption DEF Inv, Start, flags, delegation
<1>0. i \in Threads /\ i # Root
  BY DEF Threads
<1>1. TypeOK'
  BY <1>0 DEF TypeOK, Moves, Stands, counters
<1>2. RootPlaced' /\ Given'
  BY <1>0 DEF RootPlaced, Given, Moves, TypeOK, Threads
<1>3. Running' = Running \cup {i} /\ i \notin Running
  BY <1>0 DEF Running, Moves, TypeOK, Threads
<1>4. Pooled'
  <2>1. Cardinality(Running') = Cardinality(Running) + 1
    BY <1>3, ThreadsFinite, FS_AddElement
  <2>2. Cardinality(Running) < PoolSize /\ Cardinality(Running) \in Nat
    BY ThreadsFinite
  <2> QED BY <2>1, <2>2 DEF Pooled
<1>5. \A t \in Threads : pc'[t] = pc[t] \/ (pc[t] # "calling" /\ pc'[t] # "calling")
  BY <1>0 DEF Moves, TypeOK
<1>6. Booked' /\ OvershootBounded' /\ ReportHonest'
  BY <1>1, <1>5, QuietKeeps DEF TypeOK
<1> QED BY <1>1, <1>2, <1>4, <1>6

(* A result is recorded.                                                   *)
LEMMA ResultKeeps ==
  ASSUME Inv, NEW i \in Tasks, Collect(i) \/ SweepFinished(i) PROVE Inv'
<1> USE BudgetAssumption DEF Inv, Collect, SweepFinished, flags
<1>1. TypeOK'
  BY DEF TypeOK, counters
<1>2. RootPlaced' /\ Given'
  BY DEF RootPlaced, Given, TypeOK
<1>3. Pooled' /\ Booked' /\ OvershootBounded' /\ ReportHonest'
  BY AloneKeeps
<1> QED BY <1>1, <1>2, <1>3

LEMMA SweepUnfinishedKeeps ==
  ASSUME Inv, NEW i \in Tasks, SweepUnfinished(i) PROVE Inv'
<1> USE BudgetAssumption DEF Inv, SweepUnfinished
<1>0. i \in Threads /\ i # Root
  BY DEF Threads
<1>1. TypeOK'
  BY <1>0 DEF TypeOK, Moves, Stands, counters
<1>2. RootPlaced' /\ Given'
  BY <1>0 DEF RootPlaced, Given, Moves, TypeOK, Threads
<1>3. Running' = Running
  BY <1>0 DEF Running, Moves, TypeOK, Threads
<1>4. Pooled'
  BY <1>3 DEF Pooled
<1>5. \A t \in Threads : pc'[t] = pc[t] \/ (pc[t] # "calling" /\ pc'[t] # "calling")
  BY <1>0 DEF Moves, TypeOK
<1>6. Booked' /\ OvershootBounded' /\ ReportHonest'
  BY <1>1, <1>5, QuietKeeps DEF TypeOK
<1> QED BY <1>1, <1>2, <1>4, <1>6

(* The root goes on to its next phase.                                     *)
LEMMA PhaseKeeps ==
  ASSUME Inv, TimeOut \/ Gathered \/ Join \/ Close PROVE Inv'
<1> USE BudgetAssumption DEF Inv, TimeOut, Gathered, Join, Close, flags
<1>1. TypeOK'
  BY DEF TypeOK, Phases, counters
<1>2. RootPlaced'
  BY DEF RootPlaced, TypeOK
<1>3. Given'
  BY DEF Given, TypeOK, Missing
<1>4. Pooled' /\ Booked' /\ OvershootBounded' /\ ReportHonest'
  BY AloneKeeps
<1> QED BY <1>1, <1>2, <1>3, <1>4

(* The report: what is complete has nothing in flight.                     *)
LEMMA ReportKeeps == Inv /\ Report => Inv'
<1> SUFFICES ASSUME Inv, Report PROVE Inv'
  OBVIOUS
<1> USE DEF Inv, Report, flags, counters
<1>1. TypeOK'
  BY DEF TypeOK, Phases, Snapshot
<1>2. RootPlaced' /\ Given'
  BY DEF RootPlaced, Given, TypeOK
<1>3. Running' = Running /\ InFlight' = InFlight
  BY DEF Running, InFlight
<1>4. Pooled' /\ Booked' /\ OvershootBounded'
  BY <1>3 DEF Pooled, Booked, OvershootBounded
<1>5. unknown = 0 /\ model <= settled => Cardinality(InFlight) = 0
  BY ThreadsFinite DEF Booked, TypeOK
<1>6. unknown = 0 /\ model <= settled => InFlight = {}
  BY <1>5, ThreadsFinite, FS_EmptySet
<1>7. ReportHonest'
  BY <1>3, <1>6 DEF ReportHonest, Snapshot
<1> QED BY <1>1, <1>2, <1>4, <1>7

(* The user cancels, or the deadline passes.                               *)
LEMMA OutsideKeeps == ASSUME Inv, Cancel \/ Expire PROVE Inv'
<1> USE DEF Inv, Cancel, Expire, delegation
<1>1. TypeOK'
  BY DEF TypeOK, counters
<1>2. RootPlaced' /\ Given'
  BY DEF RootPlaced, Given
<1>3. Pooled' /\ Booked' /\ OvershootBounded' /\ ReportHonest'
  BY AloneKeeps
<1> QED BY <1>1, <1>2, <1>3

LEMMA AgentKeeps == ASSUME Inv, NEW t \in Threads, AgentStep(t) PROVE Inv'
BY CheckKeeps, ClaimModelKeeps, ClaimToolKeeps, RefuseKeeps, SettleKnownKeeps,
   SettleUnknownKeeps, ReturnKeeps DEF AgentStep

LEMMA StepsKeep == Inv /\ [Next]_vars => Inv'
<1> SUFFICES ASSUME Inv, [Next]_vars PROVE Inv'
  OBVIOUS
<1>1. ASSUME RootStep PROVE Inv'
  <2>1. Root \in Threads
    BY DEF Threads
  <2> QED BY <1>1, <2>1, AgentKeeps, DispatchKeeps, PhaseKeeps, ReportKeeps, ResultKeeps,
             SweepUnfinishedKeeps DEF RootStep
<1>2. ASSUME WorkerStep PROVE Inv'
  <2>1. Tasks \subseteq Threads
    BY DEF Threads
  <2> QED BY <1>2, <2>1, AgentKeeps, StartKeeps DEF WorkerStep
<1>3. ASSUME UNCHANGED vars PROVE Inv'
  <2>1. TypeOK' /\ RootPlaced' /\ Given'
    BY <1>3 DEF vars, Inv, TypeOK, RootPlaced, Given
  <2>2. Pooled' /\ Booked' /\ OvershootBounded' /\ ReportHonest'
    <3>1. UNCHANGED <<counters, pc>> /\ phase' = phase /\ report' = report
      BY <1>3 DEF vars, counters
    <3> QED BY <3>1, AloneKeeps
  <2> QED BY <2>1, <2>2 DEF Inv
<1> QED BY <1>1, <1>2, <1>3, OutsideKeeps DEF Next

---------------------------------------------------------------------------
(* The theorems.                                                           *)

(* The strengthened invariant holds always.                                *)
THEOREM BudgetSound == Spec => []Inv
BY Starts, StepsKeep, PTL DEF Spec

(* The types of the variables, for every pool and every limit: no attempt  *)
(* beyond the limits is ever granted (budget.py:77-96).                    *)
THEOREM BudgetTyped == Spec => []TypeOK
<1>1. Inv => TypeOK
  BY DEF Inv
<1> QED BY <1>1, BudgetSound, PTL

(* The tokens used exceed the limit by less than one full call of every    *)
(* worker of the pool, whatever the interleaving of checks, claims and     *)
(* late usage (budget.py:77-114, parallel.py:95-103).                      *)
THEOREM OvershootIsBounded == Spec => []OvershootBounded
<1>1. Inv => OvershootBounded
  BY DEF Inv
<1> QED BY <1>1, BudgetSound, PTL

(* A final report that says the usage is complete is right and stays right *)
(* (budget.py:116-126, turn_coordinator.py:95-104).                        *)
THEOREM ReportsAreHonest == Spec => []ReportHonest
<1>1. Inv => ReportHonest
  BY DEF Inv
<1> QED BY <1>1, BudgetSound, PTL

(* Nothing is granted to any thread after a timeout was reported or the    *)
(* scope closed, even to one that had passed its check (budget.py:77-83).  *)
THEOREM NothingIsGrantedAfter == Spec => NothingGrantedAfter
<1> DEFINE Quiet == Over => model' = model /\ tool' = tool
<1>1. Inv /\ Over => ~Open
  BY DEF Inv, Over, Open, RootPlaced, Given
<1>2. Inv /\ [Next]_vars => Quiet
  <2> SUFFICES ASSUME Inv, Next, Over PROVE model' = model /\ tool' = tool
    BY DEF vars
  <2>1. ~Grantable
    BY <1>1 DEF Grantable
  <2>2. ASSUME NEW t \in Threads, AgentStep(t) PROVE model' = model /\ tool' = tool
    BY <2>1, <2>2 DEF AgentStep, Check, ClaimModel, ClaimTool, Refuse, SettleKnown,
                      SettleUnknown, Return, counters
  <2>3. ASSUME RootStep PROVE model' = model /\ tool' = tool
    BY <2>2, <2>3 DEF RootStep, Dispatch, TimeOut, Gathered, Join, Close, Report,
                      Collect, SweepFinished, SweepUnfinished, counters, Threads
  <2>4. ASSUME WorkerStep PROVE model' = model /\ tool' = tool
    BY <2>2, <2>4 DEF WorkerStep, Start, counters, Threads
  <2>5. ASSUME Cancel \/ Expire PROVE model' = model /\ tool' = tool
    BY <2>5 DEF Cancel, Expire, counters
  <2> QED BY <2>3, <2>4, <2>5 DEF Next
<1>3. Inv /\ [Next]_vars => [Quiet]_vars
  BY <1>2
<1> QED BY <1>3, BudgetSound, PTL DEF Spec, NothingGrantedAfter

---------------------------------------------------------------------------
(* Why a turn ends: every step leaves less to do, and until the report is  *)
(* written the root has a step to take.                                    *)

(* How many threads stand at one of these places.                          *)
Count(places) == Cardinality({t \in Threads : pc[t] \in places})

(* What is left to do before the root has reported: the attempts that may  *)
(* still be granted, the places every thread has to go through, the        *)
(* results the root lacks, the phases before the last, and what has not    *)
(* happened from outside.  An attempt pays for the way back to the next.   *)
Attempts == 3 * (MaxModel - model) + 3 * (MaxTool - tool)

Places == 10 * Count({"idle"}) + 5 * Count({"queued", "calling", "using"})
          + 4 * Count({"ready"}) + 3 * Count({"checked"})

PhasesLeft ==
  CASE phase = "reported" -> 0 [] phase = "closed" -> 1 [] phase = "turn" -> 2
    [] phase = "join" -> 3 [] phase = "sweep" -> 4 [] phase = "collect" -> 5

Outside == (IF cancelled THEN 0 ELSE 1) + (IF expired THEN 0 ELSE 1)

Effort == Attempts + Places + Cardinality(Missing) + PhasesLeft + Outside

(* What one thread at a place adds.                                        *)
Rank(place) ==
  CASE place = "idle" -> 10 [] place \in {"queued", "calling", "using"} -> 5
    [] place = "ready" -> 4 [] place = "checked" -> 3 [] OTHER -> 0

LEMMA CountFinite ==
  ASSUME NEW places
  PROVE  /\ IsFiniteSet({t \in Threads : pc[t] \in places})
         /\ Count(places) \in Nat
<1>1. {t \in Threads : pc[t] \in places} \in SUBSET Threads
  OBVIOUS
<1> QED BY <1>1, ThreadsFinite, FS_Subset, FS_CardinalityType DEF Count

LEMMA CountMoves ==
  ASSUME TypeOK, NEW t \in Threads, NEW place \in Stands, Moves(t, place),
         NEW places
  PROVE  Count(places)' = Count(places) + (IF place \in places THEN 1 ELSE 0)
                                        - (IF pc[t] \in places THEN 1 ELSE 0)
<1> DEFINE S == {u \in Threads : pc[u] \in places}
           T == {u \in Threads : pc'[u] \in places}
<1>1. IsFiniteSet(S) /\ Cardinality(S) \in Nat
  BY CountFinite DEF Count
<1>2. pc'[t] = place /\ \A u \in Threads \ {t} : pc'[u] = pc[u]
  BY DEF Moves, TypeOK
<1>3. T = IF place \in places THEN S \cup {t} ELSE S \ {t}
  BY <1>2
<1>4. t \in S <=> pc[t] \in places
  OBVIOUS
<1> HIDE DEF S, T
<1>5. Cardinality(S \cup {t}) = IF t \in S THEN Cardinality(S) ELSE Cardinality(S) + 1
  BY <1>1, FS_AddElement
<1>6. Cardinality(S \ {t}) = IF t \in S THEN Cardinality(S) - 1 ELSE Cardinality(S)
  BY <1>1, FS_RemoveElement
<1>7. Cardinality(T) = Cardinality(S) + (IF place \in places THEN 1 ELSE 0)
                                      - (IF pc[t] \in places THEN 1 ELSE 0)
  BY <1>1, <1>3, <1>4, <1>5, <1>6
<1> QED BY <1>7 DEF Count, S, T

LEMMA PlacesMove ==
  ASSUME TypeOK, NEW t \in Threads, NEW place \in Stands, Moves(t, place)
  PROVE  /\ Places \in Nat /\ Places' \in Int
         /\ Places' = Places + Rank(place) - Rank(pc[t])
<1> DEFINE A == {"idle"}
           B == {"queued", "calling", "using"}
           C == {"ready"}
           D == {"checked"}
           In(p, S) == IF p \in S THEN 1 ELSE 0
<1>1. /\ Count(A) \in Nat /\ Count(B) \in Nat /\ Count(C) \in Nat /\ Count(D) \in Nat
  BY CountFinite
<1>2. /\ Count(A)' = Count(A) + In(place, A) - In(pc[t], A)
      /\ Count(B)' = Count(B) + In(place, B) - In(pc[t], B)
      /\ Count(C)' = Count(C) + In(place, C) - In(pc[t], C)
      /\ Count(D)' = Count(D) + In(place, D) - In(pc[t], D)
  BY CountMoves
<1>3. \A p \in Stands :
        Rank(p) = 10 * In(p, A) + 5 * In(p, B) + 4 * In(p, C) + 3 * In(p, D)
  BY DEF Rank, Stands
<1>4. \A p, S : In(p, S) \in {0, 1}
  OBVIOUS
<1>5. pc[t] \in Stands
  BY DEF TypeOK
<1>6. /\ Places = 10 * Count(A) + 5 * Count(B) + 4 * Count(C) + 3 * Count(D)
      /\ Places' = 10 * Count(A)' + 5 * Count(B)' + 4 * Count(C)' + 3 * Count(D)'
  BY DEF Places
<1> HIDE DEF A, B, C, D, In
<1> QED BY <1>1, <1>2, <1>3, <1>4, <1>5, <1>6

(* The parts that a step of one thread leaves alone are numbers.           *)
LEMMA EffortParts ==
  ASSUME TypeOK
  PROVE  /\ Attempts \in Nat /\ Places \in Nat /\ Cardinality(Missing) \in Nat
         /\ PhasesLeft \in Nat /\ Outside \in Nat
<1>1. Attempts \in Nat
  BY BudgetAssumption DEF TypeOK, Attempts
<1>2. Places \in Nat
  <2>1. /\ Count({"idle"}) \in Nat /\ Count({"queued", "calling", "using"}) \in Nat
        /\ Count({"ready"}) \in Nat /\ Count({"checked"}) \in Nat
    BY CountFinite
  <2> QED BY <2>1 DEF Places
<1>3. Cardinality(Missing) \in Nat
  <2>1. Missing \in SUBSET Tasks
    BY DEF Missing
  <2> QED BY <2>1, FS_Subset, FS_CardinalityType, BudgetAssumption
<1>4. PhasesLeft \in Nat /\ Outside \in Nat
  BY DEF PhasesLeft, Outside, TypeOK, Phases
<1> QED BY <1>1, <1>2, <1>3, <1>4

LEMMA AgentSpends ==
  ASSUME TypeOK, NEW t \in Threads, AgentStep(t)
  PROVE  Effort' < Effort
<1>1. /\ PhasesLeft' = PhasesLeft /\ Outside' = Outside /\ Missing' = Missing
  <2>1. UNCHANGED <<flags, delegation>>
    BY DEF AgentStep, Check, ClaimModel, ClaimTool, Refuse, SettleKnown, SettleUnknown,
           Return
  <2> QED BY <2>1 DEF flags, delegation, PhasesLeft, Outside, Missing
<1>2. /\ Attempts \in Nat /\ Places \in Nat /\ Cardinality(Missing) \in Nat
      /\ PhasesLeft \in Nat /\ Outside \in Nat
  BY EffortParts
<1>3. PICK place \in {"checked", "done", "calling", "using", "ready"} :
        /\ Moves(t, place)
        /\ \/ Rank(place) < Rank(pc[t]) /\ Attempts' = Attempts
           \/ Rank(place) = Rank(pc[t]) + 2 /\ Attempts' = Attempts - 3
  <2>1. CASE Check(t)
    BY <2>1 DEF Check, Rank, Attempts, counters
  <2>2. CASE ClaimModel(t)
    BY <2>2, BudgetAssumption DEF ClaimModel, Rank, Attempts, TypeOK
  <2>3. CASE ClaimTool(t)
    BY <2>3, BudgetAssumption DEF ClaimTool, Rank, Attempts, TypeOK
  <2>4. CASE Refuse(t)
    BY <2>4 DEF Refuse, Rank, Attempts, counters
  <2>5. CASE (\E tokens \in 0 .. Cost : SettleKnown(t, tokens)) \/ SettleUnknown(t)
    BY <2>5 DEF SettleKnown, SettleUnknown, Proceeds, Rank, Attempts
  <2>6. CASE Return(t)
    BY <2>6 DEF Return, Rank, Attempts, counters
  <2> QED BY <2>1, <2>2, <2>3, <2>4, <2>5, <2>6 DEF AgentStep
<1>4. Places' = Places + Rank(place) - Rank(pc[t])
  BY <1>3, PlacesMove DEF Stands
<1>5. Rank(place) \in Nat /\ Rank(pc[t]) \in Nat
  BY DEF Rank
<1> QED BY <1>1, <1>2, <1>3, <1>4, <1>5 DEF Effort

LEMMA DispatchSpends == ASSUME TypeOK, Dispatch PROVE Effort' < Effort
<1> DEFINE n == Cardinality(Tasks)
           B == {"queued", "calling", "using"}
<1>1. /\ pc[Root] = "using" /\ \A i \in Tasks : pc[i] = "idle"
      /\ pc'[Root] = "using" /\ \A i \in Tasks : pc'[i] = "queued"
  BY BudgetAssumption DEF Dispatch, Threads
<1>2. n \in Nat /\ n # 0 /\ Cardinality({Root}) = 1 /\ Cardinality(Threads) = n + 1
  <2>1. n \in Nat /\ n # 0
    BY BudgetAssumption, FS_CardinalityType, FS_EmptySet DEF Dispatch
  <2>2. Cardinality({} \cup {Root}) = 1 /\ {} \cup {Root} = {Root}
    BY FS_EmptySet, FS_AddElement
  <2>3. Cardinality(Threads) = n + 1
    BY BudgetAssumption, FS_AddElement DEF Threads
  <2> QED BY <2>1, <2>2, <2>3
<1>3. /\ {t \in Threads : pc[t] \in {"idle"}} = Tasks
      /\ {t \in Threads : pc'[t] \in {"idle"}} = {}
      /\ {t \in Threads : pc[t] \in B} = {Root}
      /\ {t \in Threads : pc'[t] \in B} = Threads
      /\ {t \in Threads : pc[t] \in {"ready"}} = {}
      /\ {t \in Threads : pc'[t] \in {"ready"}} = {}
      /\ {t \in Threads : pc[t] \in {"checked"}} = {}
      /\ {t \in Threads : pc'[t] \in {"checked"}} = {}
  BY <1>1, BudgetAssumption DEF Threads
<1>4. /\ Count({"idle"}) = n /\ Count({"idle"})' = 0
      /\ Count(B) = 1 /\ Count(B)' = n + 1
      /\ Count({"ready"}) = 0 /\ Count({"ready"})' = 0
      /\ Count({"checked"}) = 0 /\ Count({"checked"})' = 0
  BY <1>2, <1>3, FS_EmptySet DEF Count
<1> HIDE DEF n
<1>5. Places = 10 * n + 5 /\ Places' = 5 * n + 5
  BY <1>2, <1>4 DEF Places
<1>6. /\ PhasesLeft = 2 /\ PhasesLeft' = 5 /\ Attempts' = Attempts
      /\ Outside' = Outside /\ Missing' = Missing
  BY DEF Dispatch, PhasesLeft, Attempts, Outside, Missing, counters, flags
<1>7. /\ Attempts \in Nat /\ Cardinality(Missing) \in Nat /\ Outside \in Nat
  BY EffortParts
<1> QED BY <1>2, <1>5, <1>6, <1>7 DEF Effort

LEMMA ResultSpends ==
  ASSUME TypeOK, NEW i \in Tasks, Collect(i) \/ SweepFinished(i) \/ SweepUnfinished(i)
  PROVE  Effort' < Effort
<1>1. /\ Missing' = Missing \ {i} /\ i \in Missing
      /\ PhasesLeft' = PhasesLeft /\ Outside' = Outside /\ Attempts' = Attempts
  BY DEF Collect, SweepFinished, SweepUnfinished, Missing, PhasesLeft, Outside, Attempts,
         counters, flags, TypeOK
<1>2. Cardinality(Missing') = Cardinality(Missing) - 1
  <2>1. Missing \in SUBSET Tasks
    BY DEF Missing
  <2>2. IsFiniteSet(Missing)
    BY <2>1, FS_Subset, BudgetAssumption
  <2> QED BY <1>1, <2>2, FS_RemoveElement
<1>3. /\ Attempts \in Nat /\ Places \in Nat /\ Cardinality(Missing) \in Nat
      /\ PhasesLeft \in Nat /\ Outside \in Nat
  BY EffortParts
<1>4. Places' \in Int /\ Places' <= Places
  <2>1. CASE pc' = pc
    <3>1. Places' = Places
      BY <2>1 DEF Places, Count
    <3> QED BY <1>3, <3>1
  <2>2. CASE pc[i] = "queued" /\ Moves(i, "cancelled")
    <3>1. Places' = Places + Rank("cancelled") - Rank(pc[i])
      BY <2>2, PlacesMove DEF Stands, Threads
    <3>2. Rank("cancelled") = 0 /\ Rank(pc[i]) = 5
      BY <2>2 DEF Rank
    <3> QED BY <1>3, <3>1, <3>2
  <2> QED BY <2>1, <2>2 DEF Collect, SweepFinished, SweepUnfinished
<1> QED BY <1>1, <1>2, <1>3, <1>4 DEF Effort

LEMMA StartSpends == ASSUME TypeOK, NEW i \in Tasks, Start(i) PROVE Effort' < Effort
<1>1. /\ PhasesLeft' = PhasesLeft /\ Outside' = Outside /\ Missing' = Missing
      /\ Attempts' = Attempts /\ pc[i] = "queued" /\ Moves(i, "ready")
  BY DEF Start, counters, flags, delegation, PhasesLeft, Outside, Missing, Attempts
<1>2. Places' = Places + Rank("ready") - Rank(pc[i])
  BY <1>1, PlacesMove DEF Stands, Threads
<1>3. Rank("ready") = 4 /\ Rank(pc[i]) = 5
  BY <1>1 DEF Rank
<1> QED BY <1>1, <1>2, <1>3, EffortParts DEF Effort

LEMMA QuietSpends ==
  ASSUME TypeOK, TimeOut \/ Gathered \/ Join \/ Close \/ Report \/ Cancel \/ Expire
  PROVE  Effort' < Effort
<1>1. /\ Attempts' = Attempts /\ Places' = Places /\ Missing' = Missing
  BY DEF TimeOut, Gathered, Join, Close, Report, Cancel, Expire, counters, delegation,
         Attempts, Places, Count, Missing
<1>2. \/ PhasesLeft' < PhasesLeft /\ Outside' = Outside
      \/ PhasesLeft' = PhasesLeft /\ Outside' < Outside
  <2>1. CASE Cancel \/ Expire
    <3>1. PhasesLeft' = PhasesLeft
      BY <2>1 DEF Cancel, Expire, delegation, PhasesLeft
    <3>2. \/ ~cancelled /\ cancelled' /\ (expired' <=> expired)
          \/ ~expired /\ expired' /\ (cancelled' <=> cancelled)
      BY <2>1, Zenon DEF Cancel, Expire
    <3>3. Outside' < Outside
      BY <3>2 DEF Outside
    <3> QED BY <3>1, <3>3
  <2>2. CASE TimeOut \/ Gathered \/ Join \/ Close \/ Report
    <3>1. cancelled' = cancelled /\ expired' = expired
      BY <2>2 DEF TimeOut, Gathered, Join, Close, Report, flags
    <3>2. <<phase, phase'>> \in {<<"collect", "sweep">>, <<"collect", "join">>,
             <<"sweep", "join">>, <<"join", "turn">>, <<"turn", "closed">>,
             <<"closed", "reported">>}
      BY <2>2 DEF TimeOut, Gathered, Join, Close, Report
    <3> QED BY <3>1, <3>2 DEF PhasesLeft, Outside
  <2> QED BY <2>1, <2>2
<1>3. PhasesLeft' \in Nat /\ Outside' \in Nat
  BY DEF PhasesLeft, Outside, TypeOK, TimeOut, Gathered, Join, Close, Report, Cancel,
         Expire, flags, delegation, Phases
<1> QED BY <1>1, <1>2, <1>3, EffortParts DEF Effort

(* No loop of the turn, of its subtasks or of the delegation can go on for *)
(* ever: what is left to do is a number, and every step of any thread      *)
(* makes it smaller, whatever the limits and however many subtasks there   *)
(* are.  Every behaviour of a turn therefore has a last step               *)
(* (budget.py:77-96, reasoning_loop.py, parallel.py:76-110).               *)
Shrinks == Effort \in Nat /\ Effort' < Effort

EffortShrinks == [][Shrinks]_vars

(* Every step of a turn leaves less to do than there was.                  *)
THEOREM TurnsAreFinite == Spec => EffortShrinks
<1>1. TypeOK => Effort \in Nat
  BY EffortParts DEF Effort
<1>2. TypeOK /\ [Next]_vars => [Effort' < Effort]_vars
  <2> SUFFICES ASSUME TypeOK, Next PROVE Effort' < Effort
    OBVIOUS
  <2>1. Root \in Threads /\ Tasks \subseteq Threads
    BY DEF Threads
  <2> QED BY <2>1, AgentSpends, DispatchSpends, ResultSpends, StartSpends, QuietSpends
             DEF Next, RootStep, WorkerStep
<1>3. TypeOK /\ [Next]_vars => [Shrinks]_vars
  BY <1>1, <1>2 DEF Shrinks
<1> QED BY <1>3, BudgetTyped, PTL DEF Spec, EffortShrinks

(* The guards of the root's steps, taken together: in its turn it checks,  *)
(* claims or is refused, settles, has its tool return or closes; it has    *)
(* gathered what it collects or times out; sweeping, it takes a missing    *)
(* subtask, finished or not, or has gathered all; it joins; and when the   *)
(* scope is closed it reports.                                             *)
RootGoesOn ==
  \/ phase = "turn" /\ pc[Root] \in {"ready", "checked", "calling", "using", "done"}
  \/ phase \in {"collect", "sweep"}
  \/ phase = "join" /\ (late \/ Running = {})
  \/ phase = "closed"

NeverStuck == phase # "reported" => RootGoesOn

(* A sweep, and a result it leaves, come after the wait has timed out.     *)
Waited ==
  /\ phase = "sweep" => late
  /\ \A i \in Tasks : results[i] = "timeout" => late
  /\ pc[Root] # "cancelled"

LEMMA WaitedKept == ASSUME Inv, Waited, [Next]_vars PROVE Waited'
<1>1. TypeOK
  BY DEF Inv
<1>2. ASSUME NEW t \in Threads, AgentStep(t) PROVE Waited'
  <2>1. UNCHANGED delegation
    BY <1>2 DEF AgentStep, Check, ClaimModel, ClaimTool, Refuse, SettleKnown,
                SettleUnknown, Return
  <2>2. \E place \in Stands \ {"cancelled"} : Moves(t, place)
    BY <1>2 DEF AgentStep, Check, ClaimModel, ClaimTool, Refuse, SettleKnown,
                SettleUnknown, Return, Proceeds, Stands
  <2> QED BY <1>1, <2>1, <2>2 DEF Waited, delegation, Moves, TypeOK, Threads
<1>3. ASSUME NEW i \in Tasks,
             Collect(i) \/ SweepFinished(i) \/ SweepUnfinished(i) \/ Start(i)
      PROVE  Waited'
  <2>1. i # Root
    BY BudgetAssumption
  <2> QED BY <1>1, <1>3, <2>1
             DEF Waited, Collect, SweepFinished, SweepUnfinished, Start, Moves,
                 delegation, TypeOK, Threads
<1>4. CASE Dispatch
  BY <1>4 DEF Waited, Dispatch, Threads
<1>5. CASE \/ TimeOut \/ Gathered \/ Join \/ Close \/ Report \/ Cancel \/ Expire
           \/ UNCHANGED vars
  BY <1>5 DEF Waited, TimeOut, Gathered, Join, Close, Report, Cancel, Expire, vars,
              delegation
<1>6. Root \in Threads /\ Tasks \subseteq Threads
  BY DEF Threads
<1> QED BY <1>2, <1>3, <1>4, <1>5, <1>6 DEF Next, RootStep, WorkerStep

(* Until it has reported, the root is never left waiting for a subtask     *)
(* that hangs: the pool is joined only when the wait has timed out or      *)
(* every worker is done (parallel.py:88-118, turn_coordinator.py:95-104).  *)
(* With TurnsAreFinite this is why the turn ends.                          *)
THEOREM RootNeverStuck == Spec => []NeverStuck
<1>1. Init => Waited
  BY DEF Init, Waited, Threads
<1>2. Inv /\ Waited /\ [Next]_vars => Waited'
  BY WaitedKept
<1>3. Inv /\ Waited => NeverStuck
  <2> SUFFICES ASSUME Inv, Waited, phase # "reported" PROVE RootGoesOn
    BY DEF NeverStuck
  <2>1. CASE phase = "turn"
    <3>1. pc[Root] \in Stands
      BY DEF Inv, TypeOK, Threads
    <3> QED BY <2>1, <3>1 DEF Inv, RootPlaced, Waited, Stands, RootGoesOn
  <2>2. CASE phase \in {"collect", "sweep"}
    BY <2>2 DEF RootGoesOn
  <2>3. CASE phase = "join" /\ ~late
    <3>1. \A i \in Tasks : pc[i] \in {"idle", "done"}
      BY <2>3 DEF Inv, TypeOK, Given, Waited
    <3>2. Running = {}
      BY <3>1 DEF Running
    <3> QED BY <2>3, <3>2 DEF RootGoesOn
  <2>4. CASE phase = "closed" \/ (phase = "join" /\ late)
    BY <2>4 DEF RootGoesOn
  <2> QED BY <2>1, <2>2, <2>3, <2>4 DEF Inv, TypeOK, Phases
<1> QED BY <1>1, <1>2, <1>3, BudgetSound, PTL DEF Spec

=============================================================================
