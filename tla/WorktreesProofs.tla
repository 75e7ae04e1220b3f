-------------------------- MODULE WorktreesProofs --------------------------
(***************************************************************************)
(* Guarded is an inductive invariant of Worktrees, for any number of        *)
(* worktrees, worker processes and HTTP threads, and any bound on commits.  *)
(*                                                                          *)
(* The parts are proved in the order in which they need each other: LockInv *)
(* by itself, RecordInv from it (who holds a lock knows the record), then   *)
(* TaintInv (nobody writes back the record of a worktree left badly),       *)
(* KeptInv (what a record says is preserved is held) and CommandInv.        *)
(***************************************************************************)
EXTENDS Worktrees, TLAPS

-----------------------------------------------------------------------------
(* Typing *)

\* A process with a lock, or creating, is at some worktree.
LEMMA Located ==
  ASSUME TypeOK, LockInv, NEW p \in Procs, Holding(p) \/ pc[p] \in {"creating", "inspecting"}
  PROVE  at[p] \in Trees
BY DEF TypeOK, LockInv

LEMMA DeathType ==
  ASSUME TypeOK, LockInv, NEW p \in Procs, Dies(p)
  PROVE  /\ pc' \in [Procs -> Stages] /\ at' \in [Procs -> Trees \cup {NoTree}]
         /\ copy' \in [Procs -> Records]
         /\ tainted' \subseteq Trees /\ straying' \subseteq Trees
<1>1. pc[p] \in {"body", "command"} => at[p] \in Trees
  BY Located DEF Holding, Leasing
<1>2. pc' \in [Procs -> Stages] /\ at' \in [Procs -> Trees \cup {NoTree}]
  BY DEF TypeOK, Dies, Turns, Goes, Stages
<1>3. copy' \in [Procs -> Records]
  BY DEF TypeOK, Dies, Forgets, NoRecord, Records, Statuses
<1>4. tainted' \subseteq Trees /\ straying' \subseteq Trees
  BY <1>1 DEF TypeOK, Dies
<1> QED
  BY <1>2, <1>3, <1>4

\* Every step keeps the types.
LEMMA TypeStep ==
  ASSUME TypeOK, LockInv, RecordInv, Next
  PROVE  TypeOK'
<1> USE DEF TypeOK, Records, NoRecord, Checkouts, Statuses, Stages, Leasing
<1>1. ASSUME NEW p \in Procs, NEW w \in Trees, CreateStart(p, w) PROVE TypeOK'
  BY <1>1 DEF CreateStart, RepoLocked, Saves, Marked, Turns, Goes
<1>2. ASSUME NEW p \in Procs, CreateCheckout(p) PROVE TypeOK'
  BY <1>2 DEF CreateCheckout
<1>3. ASSUME NEW p \in Procs, CreateEnd(p) PROVE TypeOK'
  <2>1. registry' \in [Trees -> Records]
    BY <1>3 DEF CreateEnd, Saves, Marked
  <2> QED
    BY <1>3, <2>1 DEF CreateEnd, Finishes, Turns, Forgets, Goes
<1>30. ASSUME NEW p \in Procs, CreateReady(p) PROVE TypeOK'
  BY <1>30 DEF CreateReady, Saves, Marked, Goes
<1>4. ASSUME NEW p \in Procs, NEW w \in Trees, LeaseEnter(p, w) PROVE TypeOK'
  BY <1>4 DEF LeaseEnter, Enterable, Turns, disk, TreeLocked, WriterExclusive, Goes
<1>5. ASSUME NEW p \in Procs, LeaseRead(p) PROVE TypeOK'
  <2>1. CASE Leasable(registry[at[p]])
    <3>1. registry[at[p]] \in Records
      BY <1>5, Located DEF LeaseRead, Holding, Leasing
    <3> QED
      BY <1>5, <2>1, <3>1 DEF LeaseRead, Goes, disk
  <2>2. CASE ~(Leasable(registry[at[p]]))
    <3>1. Finishes(p)
      BY <1>5, <2>2 DEF LeaseRead
    <3> QED
      BY <1>5, <3>1 DEF LeaseRead, Finishes, Turns, Goes, Forgets, disk
  <2> QED
    BY <2>1, <2>2
<1>6. ASSUME NEW p \in Procs, LeaseActivate(p) PROVE TypeOK'
  BY <1>6 DEF LeaseActivate, Saves, Marked, Goes, Forgets
<1>7. ASSUME NEW p \in Procs, LeaseFails(p) PROVE TypeOK'
  <2>1. at[p] \in Trees
    BY <1>7, Located DEF LeaseFails, Holding, Leasing
  <2> QED
    BY <1>7, <2>1 DEF LeaseFails, Saves, Marked, Finishes, Turns, Forgets, Goes
<1>8. ASSUME NEW p \in Procs, LeaveRead(p) PROVE TypeOK'
  <2>1. CASE registry[at[p]].st = "active"
    <3>1. registry[at[p]] \in Records
      BY <1>8, Located DEF LeaveRead, Holding, Leasing
    <3> QED
      BY <1>8, <2>1, <3>1 DEF LeaveRead, Goes, disk
  <2>2. CASE ~(registry[at[p]].st = "active")
    <3>1. Finishes(p)
      BY <1>8, <2>2 DEF LeaveRead
    <3> QED
      BY <1>8, <3>1 DEF LeaveRead, Finishes, Turns, Goes, Forgets, disk
  <2> QED
    BY <2>1, <2>2
<1>9. ASSUME NEW p \in Procs, LeaveSave(p) PROVE TypeOK'
  BY <1>9 DEF LeaveSave, Saves, Marked, Finishes, Turns, Forgets, Goes
<1>10. ASSUME NEW p \in Procs, Edit(p) PROVE TypeOK'
  BY <1>10 DEF Edit, process
<1>11. ASSUME NEW p \in Procs, NEW keep \in BOOLEAN, CommitWork(p, keep) PROVE TypeOK'
  <2>1. at[p] \in Trees
    BY <1>11, Located DEF CommitWork, Holding, Leasing
  <2>2. Committed(checkout[at[p]]) \in Checkouts
    <3>1. checkout[at[p]] \in Checkouts /\ checkout[at[p]].head + 1 \in Nat
      BY <2>1
    <3> QED
      BY <3>1 DEF Committed
  <2>3. checkout' \in [Trees -> Checkouts]
    BY <1>11, <2>2 DEF CommitWork
  <2>4. refs' \in [Trees -> Nat]
    BY <1>11, <2>1, <2>3 DEF CommitWork
  <2> QED
    BY <1>11, <2>3, <2>4 DEF CommitWork, process
<1>12. ASSUME NEW p \in Procs, CommandStart(p) PROVE TypeOK'
  BY <1>12 DEF CommandStart, CommandFree, Goes
<1>13. ASSUME NEW p \in Procs, CommandConfirmed(p) PROVE TypeOK'
  BY <1>13 DEF CommandConfirmed, Goes
<1>14. ASSUME NEW p \in Procs, CommandUnconfirmed(p) PROVE TypeOK'
  <2>1. at[p] \in Trees
    BY <1>14, Located DEF CommandUnconfirmed, Holding, Leasing
  <2>2. registry' \in [Trees -> Records]
    <3>1. registry[at[p]] \in Records
      BY <2>1
    <3>2. Marked(registry[at[p]], "quarantined") \in Records
      BY <3>1 DEF Marked
    <3> QED
      BY <1>14, <2>1, <3>2 DEF CommandUnconfirmed, Saves
  <2>3. pc' \in [Procs -> Stages]
    BY <1>14 DEF CommandUnconfirmed, Goes
  <2>4. /\ tainted' \subseteq Trees /\ straying' \subseteq Trees
        /\ UNCHANGED <<checkout, refs, marker, at, copy, bound, sup, isolated>>
    BY <1>14, <2>1 DEF CommandUnconfirmed
  <2> QED
    BY <2>2, <2>3, <2>4
<1>15. ASSUME NEW p \in Procs, InPlaceEnter(p) PROVE TypeOK'
  BY <1>15 DEF InPlaceEnter, WriterShared, WriterExclusive, Goes, disk
<1>16. ASSUME NEW p \in Procs, InPlaceExit(p) PROVE TypeOK'
  BY <1>16 DEF InPlaceExit, Finishes, disk, Turns, Forgets, Goes
<1>17. ASSUME NEW p \in Procs, NEW w \in Trees, NEW commit \in 1 .. refs[w], PreserveRead(p, w, commit) PROVE TypeOK'
  BY <1>17 DEF PreserveRead, TreeLocked, Turns, disk, Goes
<1>18. ASSUME NEW p \in Procs, PreserveSave(p) PROVE TypeOK'
  BY <1>18 DEF PreserveSave, Saves, Finishes, Turns, Forgets, Goes
<1>19. ASSUME NEW p \in Procs, NEW w \in Trees, RemoveRead(p, w) PROVE TypeOK'
  BY <1>19 DEF RemoveRead, TreeLocked, Removable, Turns, disk, Goes
<1>20. ASSUME NEW p \in Procs, RemoveDetach(p) PROVE TypeOK'
  <2>1. CASE UNCHANGED checkout /\ Finishes(p)
    BY <1>20, <2>1 DEF RemoveDetach, Finishes, Turns, Forgets, Goes
  <2>2. CASE checkout' = [checkout EXCEPT ![at[p]].there = FALSE] /\ Goes(p, "detached")
             /\ UNCHANGED <<at, copy>>
    BY <1>20, <2>2 DEF RemoveDetach, Goes
  <2> QED
    BY <1>20, <2>1, <2>2 DEF RemoveDetach
<1>21. ASSUME NEW p \in Procs, RemoveSave(p) PROVE TypeOK'
  BY <1>21 DEF RemoveSave, Saves, Marked, Finishes, Turns, Forgets, Goes
<1>22. ASSUME NEW p \in Procs, NEW w \in Trees, Bind(p, w) PROVE TypeOK'
  BY <1>22 DEF Bind, process, disk
<1>23. ASSUME NEW p \in Procs, RunEnds(p) PROVE TypeOK'
  BY <1>23 DEF RunEnds, process, disk
<1>24. ASSUME NEW p \in Procs, Crash(p) PROVE TypeOK'
  BY <1>24, DeathType DEF Crash, disk
<1>25. ASSUME NEW p \in Procs, Restart(p) PROVE TypeOK'
  BY <1>25 DEF Restart, Finishes, disk, Turns, Forgets, Goes
<1>26. ASSUME NEW p \in Procs, QuarantineRead(p) PROVE TypeOK'
  BY <1>26 DEF QuarantineRead, NoVerdict, process, disk
<1>27. ASSUME QuarantineSave PROVE TypeOK'
  <2>1. sup.run \in Procs /\ bound[sup.run] \in Trees
    BY <1>27 DEF QuarantineSave, NoVerdict, RecordInv
  <2>2. registry' \in [Trees -> Records]
    BY <1>27 DEF QuarantineSave, Saves, Marked
  <2>3. CASE pc[sup.run] = "dead"
    <3>1. /\ bound' \in [Procs -> Trees \cup {NoTree}] /\ isolated' \subseteq Trees
          /\ sup' = NoVerdict
      BY <1>27, <2>1, <2>3 DEF QuarantineSave
    <3>2. UNCHANGED <<checkout, refs, marker, pc, at, copy, tainted, straying>>
      BY <1>27 DEF QuarantineSave, process
    <3> QED
      BY <2>2, <3>1, <3>2 DEF NoVerdict
  <2>4. CASE pc[sup.run] # "dead"
    BY <1>27, <2>1, <2>2, <2>4 DEF QuarantineSave, process
  <2> QED
    BY <2>3, <2>4
<1>28. ASSUME Kill PROVE TypeOK'
  <2>1. sup.run \in Procs
    BY <1>28 DEF Kill, NoVerdict, RecordInv
  <2>2. sup' \in [step : {"idle", "read", "saved"}, run : Procs \cup {NoProc}, copy : Records]
    BY <1>28 DEF Kill, NoVerdict
  <2>3. CASE pc[sup.run] = "dead"
    BY <1>28, <2>2, <2>3 DEF Kill, disk
  <2>4. CASE pc[sup.run] # "dead"
    BY <1>28, <2>1, <2>2, <2>4, DeathType DEF Kill, disk
  <2> QED
    BY <2>3, <2>4
<1>29. ASSUME NEW w \in Trees, Stray(w) PROVE TypeOK'
  <2>1. CASE checkout' = [checkout EXCEPT ![w].dirty = TRUE] /\ UNCHANGED straying
    <3>1. checkout' \in [Trees -> Checkouts]
      BY <2>1
    <3>2. UNCHANGED <<registry, refs, marker, pc, at, copy, bound, sup, tainted, isolated>>
      BY <1>29 DEF Stray, process
    <3> QED
      BY <2>1, <3>1, <3>2
  <2>2. CASE straying' = straying \ {w} /\ UNCHANGED checkout
    BY <1>29, <2>2 DEF Stray, process
  <2> QED
    BY <1>29, <2>1, <2>2 DEF Stray
<1> QED
  <2>1. ASSUME NEW p \in Procs, Create(p) PROVE TypeOK'
    BY <2>1, <1>1, <1>2, <1>3, <1>30 DEF Create
  <2>2. ASSUME NEW p \in Procs, Lease(p) PROVE TypeOK'
    BY <2>2, <1>4, <1>5, <1>6, <1>7, <1>8, <1>9 DEF Lease
  <2>3. ASSUME NEW p \in Procs, Body(p) PROVE TypeOK'
    BY <2>3, <1>10, <1>11, <1>12, <1>13, <1>14 DEF Body
  <2>4. ASSUME NEW p \in Procs, InPlace(p) PROVE TypeOK'
    BY <2>4, <1>15, <1>16 DEF InPlace
  <2>5. ASSUME NEW p \in Procs, Preserve(p) PROVE TypeOK'
    BY <2>5, <1>17, <1>18 DEF Preserve
  <2>6. ASSUME NEW p \in Procs, Remove(p) PROVE TypeOK'
    BY <2>6, <1>19, <1>20, <1>21 DEF Remove
  <2>7. ASSUME NEW p \in Procs, Run(p) PROVE TypeOK'
    BY <2>7, <1>22, <1>23, <1>24, <1>25 DEF Run
  <2>8. CASE Supervisor
    BY <2>8, <1>26, <1>27, <1>28 DEF Supervisor
  <2> QED
    BY <2>1, <2>2, <2>3, <2>4, <2>5, <2>6, <2>7, <2>8, <1>29 DEF Next

-----------------------------------------------------------------------------
(* Locks and records *)

\* Every step keeps to the locks.
LEMMA LockStep ==
  ASSUME TypeOK, LockInv, Next
  PROVE  LockInv'
<1> USE DEF TypeOK, LockInv, Holding, Stages, Leasing
<1>1. ASSUME NEW p \in Procs, NEW w \in Trees, CreateStart(p, w) PROVE LockInv'
  BY <1>1, TreeAssumption DEF CreateStart, Turns, Goes
<1>2. ASSUME NEW p \in Procs, CreateCheckout(p) PROVE LockInv'
  BY <1>2 DEF CreateCheckout
<1>3. ASSUME NEW p \in Procs, CreateEnd(p) PROVE LockInv'
  BY <1>3 DEF CreateEnd, Saves, Marked, NoRecord, Finishes, Turns, Forgets, Goes
<1>30. ASSUME NEW p \in Procs, CreateReady(p) PROVE LockInv'
  BY <1>30 DEF CreateReady, Goes
<1>4. ASSUME NEW p \in Procs, NEW w \in Trees, LeaseEnter(p, w) PROVE LockInv'
  <2>1. \A q \in Procs : Holding(q) => at[q] # w
    BY <1>4 DEF LeaseEnter, Enterable, TreeLocked
  <2>2. \A q \in Procs : pc[q] # "inplace"
    BY <1>4 DEF LeaseEnter, Enterable, WriterExclusive
  <2> QED
    BY <1>4, <2>1, <2>2, TreeAssumption DEF LeaseEnter, Turns, Goes
<1>5. ASSUME NEW p \in Procs, LeaseRead(p) PROVE LockInv'
  BY <1>5 DEF LeaseRead, Leasable, Goes, Finishes, disk, Turns, Forgets, NoRecord
<1>6. ASSUME NEW p \in Procs, LeaseActivate(p) PROVE LockInv'
  BY <1>6 DEF LeaseActivate, Saves, Marked, Goes, Forgets, NoRecord
<1>7. ASSUME NEW p \in Procs, LeaseFails(p) PROVE LockInv'
  BY <1>7 DEF LeaseFails, Saves, Marked, Finishes, Turns, Forgets, Goes, NoRecord
<1>8. ASSUME NEW p \in Procs, LeaveRead(p) PROVE LockInv'
  BY <1>8 DEF LeaveRead, Goes, Finishes, disk, Turns, Forgets, NoRecord
<1>9. ASSUME NEW p \in Procs, LeaveSave(p) PROVE LockInv'
  BY <1>9 DEF LeaveSave, Saves, Marked, Finishes, Turns, Forgets, Goes, NoRecord
<1>10. ASSUME NEW p \in Procs, Edit(p) PROVE LockInv'
  BY <1>10 DEF Edit, process
<1>11. ASSUME NEW p \in Procs, NEW keep \in BOOLEAN, CommitWork(p, keep) PROVE LockInv'
  BY <1>11 DEF CommitWork, Committed, process
<1>12. ASSUME NEW p \in Procs, CommandStart(p) PROVE LockInv'
  BY <1>12 DEF CommandStart, CommandFree, Goes
<1>13. ASSUME NEW p \in Procs, CommandConfirmed(p) PROVE LockInv'
  BY <1>13 DEF CommandConfirmed, Goes
<1>14. ASSUME NEW p \in Procs, CommandUnconfirmed(p) PROVE LockInv'
  BY <1>14 DEF CommandUnconfirmed, Saves, Marked, Goes
<1>15. ASSUME NEW p \in Procs, InPlaceEnter(p) PROVE LockInv'
  BY <1>15 DEF InPlaceEnter, WriterShared, WriterExclusive, Goes, disk
<1>16. ASSUME NEW p \in Procs, InPlaceExit(p) PROVE LockInv'
  BY <1>16 DEF InPlaceExit, Finishes, disk, Turns, Forgets, Goes, NoRecord
<1>17. ASSUME NEW p \in Procs, NEW w \in Trees, NEW commit \in 1 .. refs[w], PreserveRead(p, w, commit) PROVE LockInv'
  <2>1. \A q \in Procs : Holding(q) => at[q] # w
    BY <1>17 DEF PreserveRead, TreeLocked
  <2> QED
    BY <1>17, <2>1, TreeAssumption DEF PreserveRead, Turns, Goes
<1>18. ASSUME NEW p \in Procs, PreserveSave(p) PROVE LockInv'
  BY <1>18 DEF PreserveSave, Saves, Finishes, Turns, Forgets, Goes, NoRecord
<1>19. ASSUME NEW p \in Procs, NEW w \in Trees, RemoveRead(p, w) PROVE LockInv'
  <2>1. \A q \in Procs : Holding(q) => at[q] # w
    BY <1>19 DEF RemoveRead, TreeLocked
  <2> QED
    BY <1>19, <2>1, TreeAssumption DEF RemoveRead, Turns, Goes
<1>20. ASSUME NEW p \in Procs, RemoveDetach(p) PROVE LockInv'
  BY <1>20 DEF RemoveDetach, RepoLocked, Goes, Finishes, Turns, Forgets, NoRecord
<1>21. ASSUME NEW p \in Procs, RemoveSave(p) PROVE LockInv'
  BY <1>21 DEF RemoveSave, Saves, Marked, Finishes, Turns, Forgets, Goes, NoRecord
<1>22. ASSUME NEW p \in Procs, NEW w \in Trees, Bind(p, w) PROVE LockInv'
  BY <1>22 DEF Bind, process, disk
<1>23. ASSUME NEW p \in Procs, RunEnds(p) PROVE LockInv'
  BY <1>23 DEF RunEnds, process, disk
<1>24. ASSUME NEW p \in Procs, Crash(p) PROVE LockInv'
  BY <1>24 DEF Crash, Dies, disk, Turns, Forgets, Goes, NoRecord
<1>25. ASSUME NEW p \in Procs, Restart(p) PROVE LockInv'
  BY <1>25 DEF Restart, Finishes, disk, Turns, Forgets, Goes, NoRecord
<1>26. ASSUME NEW p \in Procs, QuarantineRead(p) PROVE LockInv'
  BY <1>26 DEF QuarantineRead, NoVerdict, process, disk, NoRecord
<1>27. ASSUME QuarantineSave PROVE LockInv'
  BY <1>27 DEF QuarantineSave, Saves, Marked, NoVerdict, process, NoRecord
<1>28. ASSUME Kill PROVE LockInv'
  BY <1>28 DEF Kill, NoVerdict, Dies, disk, NoRecord, Turns, Forgets, Goes
<1>29. ASSUME NEW w \in Trees, Stray(w) PROVE LockInv'
  BY <1>29 DEF Stray, process
<1> QED
  <2>1. ASSUME NEW p \in Procs, Create(p) PROVE LockInv'
    BY <2>1, <1>1, <1>2, <1>3, <1>30 DEF Create
  <2>2. ASSUME NEW p \in Procs, Lease(p) PROVE LockInv'
    BY <2>2, <1>4, <1>5, <1>6, <1>7, <1>8, <1>9 DEF Lease
  <2>3. ASSUME NEW p \in Procs, Body(p) PROVE LockInv'
    BY <2>3, <1>10, <1>11, <1>12, <1>13, <1>14 DEF Body
  <2>4. ASSUME NEW p \in Procs, InPlace(p) PROVE LockInv'
    BY <2>4, <1>15, <1>16 DEF InPlace
  <2>5. ASSUME NEW p \in Procs, Preserve(p) PROVE LockInv'
    BY <2>5, <1>17, <1>18 DEF Preserve
  <2>6. ASSUME NEW p \in Procs, Remove(p) PROVE LockInv'
    BY <2>6, <1>19, <1>20, <1>21 DEF Remove
  <2>7. ASSUME NEW p \in Procs, Run(p) PROVE LockInv'
    BY <2>7, <1>22, <1>23, <1>24, <1>25 DEF Run
  <2>8. CASE Supervisor
    BY <2>8, <1>26, <1>27, <1>28 DEF Supervisor
  <2> QED
    BY <2>1, <2>2, <2>3, <2>4, <2>5, <2>6, <2>7, <2>8, <1>29 DEF Next

\* Every step keeps the records true to their stages.
LEMMA RecordStep ==
  ASSUME TypeOK, LockInv, RecordInv, Next
  PROVE  RecordInv'
<1> USE DEF TypeOK, LockInv, RecordInv, CreatingInv, StageInv, Holding, Records, NoRecord, Checkouts, NoCheckout, Stages, Leasing
<1>1. ASSUME NEW p \in Procs, NEW w \in Trees, CreateStart(p, w) PROVE RecordInv'
  <2>1. /\ registry[w].st = "none" /\ ~checkout[w].there
        /\ \A q \in Procs : at[q] # w /\ bound[q] # w
    <3>1. registry[w].st = "none" /\ ~checkout[w].there
      BY <1>1 DEF CreateStart
    <3>2. \A q \in Procs : pc[q] = "creating" \/ Holding(q) => at[q] # w
      BY <3>1
    <3> QED
      BY <1>1, <3>1, <3>2, TreeAssumption DEF CreateStart
  <2>2. /\ registry'[w].st = "creating" /\ UNCHANGED <<checkout, copy, bound, sup>>
        /\ \A v \in Trees \ {w} : registry'[v] = registry[v]
    BY <1>1 DEF CreateStart, Saves, Marked
  <2>3. /\ pc'[p] = "creating" /\ at'[p] = w
        /\ \A q \in Procs \ {p} : pc'[q] = pc[q] /\ at'[q] = at[q]
    BY <1>1 DEF CreateStart, Turns, Goes
  <2>4. ASSUME NEW q \in Procs, NEW r \in Procs PROVE CreatingInv(q, r)'
    BY <2>1, <2>2, <2>3
  <2>5. ASSUME NEW q \in Procs PROVE StageInv(q)'
    <3>1. /\ StageInv(q) /\ bound[q] \in Trees \cup {NoTree}
          /\ Holding(q) \/ pc[q] = "inspecting" => at[q] \in Trees
      OBVIOUS
    <3> HIDE DEF TypeOK, LockInv, RecordInv
    <3>2. CASE q = p
      BY <3>1, <3>2, <2>1, <2>2, <2>3
    <3>3. CASE q # p
      <4>1. pc'[q] = pc[q] /\ at'[q] = at[q] /\ UNCHANGED <<checkout, copy, bound>>
        BY <3>3, <2>2, <2>3
      <4>2. at[q] # w /\ bound[q] # w
        BY <2>1
      <4>3. /\ at[q] \in Trees => registry'[at[q]] = registry[at[q]]
            /\ bound[q] \in Trees => registry'[bound[q]] = registry[bound[q]]
        BY <4>2, <2>2
      <4> QED
        BY <3>1, <4>1, <4>3
    <3> QED
      BY <3>2, <3>3
  <2>6. ASSUME NEW v \in Trees PROVE (registry[v].st = "none" => ~checkout[v].there)'
    <3>1. (registry[v].st = "none" => ~checkout[v].there) /\ UNCHANGED checkout
      BY <2>2
    <3> HIDE DEF TypeOK, LockInv, RecordInv
    <3> QED
      BY <3>1, <2>2
  <2>7. (sup # NoVerdict => sup.run \in Procs /\ bound[sup.run] # NoTree)'
    BY <2>2
  <2> HIDE DEF CreatingInv, StageInv
  <2> QED
    BY <2>4, <2>5, <2>6, <2>7
<1>2. ASSUME NEW p \in Procs, CreateCheckout(p) PROVE RecordInv'
  BY <1>2 DEF CreateCheckout
<1>3. ASSUME NEW p \in Procs, CreateEnd(p) PROVE RecordInv'
  <2>1. at[p] \in Trees /\ registry[at[p]].st # "none" /\ pc[p] \in {"creating", "inspecting"}
    BY <1>3 DEF CreateEnd
  <2>2. \A v \in Trees : \/ registry'[v] = registry[v]
                         \/ v = at[p] /\ registry'[v].st = "quarantined"
    BY <1>3, <2>1 DEF CreateEnd, Saves, Marked
  <2>3. \A q \in Procs \ {p} : pc[q] = "creating" => at[q] # at[p]
    <3> SUFFICES ASSUME NEW q \in Procs \ {p}, pc[q] = "creating", at[q] = at[p] PROVE FALSE
      OBVIOUS
    <3>1. CreatingInv(q, p)
      OBVIOUS
    <3> QED
      BY <2>1, <3>1
  <2>4. /\ pc'[p] = "idle" /\ at'[p] = NoTree
        /\ \A q \in Procs \ {p} : pc'[q] = pc[q] /\ at'[q] = at[q] /\ copy'[q] = copy[q]
        /\ UNCHANGED <<checkout, bound, sup>>
    BY <1>3 DEF CreateEnd, Finishes, Turns, Goes, Forgets
  <2>6. ASSUME NEW q \in Procs, NEW r \in Procs PROVE CreatingInv(q, r)'
    <3>1. CASE q = p \/ pc[q] # "creating"
      BY <3>1, <2>4
    <3>2. CASE q # p /\ pc[q] = "creating"
      <4>1. at[q] # at[p] /\ at[q] \in Trees
        BY <3>2, <2>3
      <4>2. CreatingInv(q, r) /\ registry'[at[q]] = registry[at[q]]
        BY <4>1, <2>2
      <4> HIDE DEF TypeOK, LockInv, RecordInv
      <4> QED
        BY <3>2, <4>1, <4>2, <2>4, TreeAssumption
    <3> QED
      BY <3>1, <3>2
  <2>7. ASSUME NEW q \in Procs PROVE StageInv(q)'
    <3>1. /\ StageInv(q) /\ bound[q] \in Trees \cup {NoTree}
          /\ at[q] \in Trees \cup {NoTree}
          /\ Holding(q) \/ pc[q] = "inspecting" => at[q] \in Trees
      OBVIOUS
    <3>2. pc[p] # "idle" /\ ~Holding(p)
      BY <2>1
    <3> HIDE DEF TypeOK, LockInv, RecordInv
    <3>3. CASE q = p
      BY <3>1, <3>3, <2>2, <2>4
    <3>4. CASE q # p
      BY <3>1, <3>4, <2>2, <2>4
    <3> QED
      BY <3>3, <3>4
  <2>8. ASSUME NEW v \in Trees PROVE (registry[v].st = "none" => ~checkout[v].there)'
    BY <2>2, <2>4
  <2>9. (sup # NoVerdict => sup.run \in Procs /\ bound[sup.run] # NoTree)'
    BY <2>4
  <2> HIDE DEF CreatingInv, StageInv
  <2> QED
    BY <2>6, <2>7, <2>8, <2>9
<1>30. ASSUME NEW p \in Procs, CreateReady(p) PROVE RecordInv'
  <2>1. at[p] \in Trees /\ registry[at[p]].st = "creating" /\ pc[p] = "creating"
    BY <1>30 DEF CreateReady
  <2>2. /\ registry'[at[p]].st = "ready"
        /\ \A v \in Trees \ {at[p]} : registry'[v] = registry[v]
    BY <1>30, <2>1 DEF CreateReady, Saves, Marked
  <2>3. /\ pc'[p] = "inspecting" /\ UNCHANGED <<at, copy, checkout, bound, sup>>
        /\ \A q \in Procs \ {p} : pc'[q] = pc[q]
    BY <1>30 DEF CreateReady, Goes
  <2>4. \A q \in Procs \ {p} : at[q] = at[p] => pc[q] = "locked"
    BY <2>1
  <2>5. ASSUME NEW q \in Procs, NEW r \in Procs PROVE CreatingInv(q, r)'
    <3>1. CASE q = p \/ pc[q] # "creating"
      BY <3>1, <2>3
    <3>2. CASE q # p /\ pc[q] = "creating"
      <4>1. at[q] # at[p] /\ at[q] \in Trees
        BY <3>2, <2>4
      <4>2. CreatingInv(q, r) /\ registry'[at[q]] = registry[at[q]]
        BY <4>1, <2>2
      <4> HIDE DEF TypeOK, LockInv, RecordInv
      <4> QED
        BY <3>2, <4>1, <4>2, <2>3, <2>1
    <3> QED
      BY <3>1, <3>2
  <2>6. ASSUME NEW q \in Procs PROVE StageInv(q)'
    <3>1. bound[q] # at[p]
      BY <2>1, TreeAssumption
    <3>2. /\ StageInv(q) /\ bound[q] \in Trees \cup {NoTree}
          /\ Holding(q) \/ pc[q] = "inspecting" => at[q] \in Trees
      OBVIOUS
    <3> HIDE DEF TypeOK, LockInv, RecordInv
    <3>3. CASE q = p
      BY <3>3, <3>1, <3>2, <2>1, <2>2, <2>3
    <3>4. CASE q # p
      <4>1. /\ pc'[q] = pc[q] /\ UNCHANGED <<at, copy, checkout, bound>>
            /\ \A v \in Trees : registry'[v] = registry[v] \/ registry'[v].st = "ready"
        BY <3>4, <2>2, <2>3
      <4>2. Holding(q) /\ at[q] = at[p] => pc[q] = "locked"
        BY <3>4, <2>4
      <4>3. at[q] # at[p] /\ at[q] \in Trees => registry'[at[q]] = registry[at[q]]
        BY <2>2
      <4> QED
        BY <3>1, <3>2, <4>1, <4>2, <4>3
    <3> QED
      BY <3>3, <3>4
  <2>7. ASSUME NEW v \in Trees PROVE (registry[v].st = "none" => ~checkout[v].there)'
    <3>1. (registry[v].st = "none" => ~checkout[v].there) /\ UNCHANGED checkout
      BY <2>3
    <3> HIDE DEF TypeOK, LockInv, RecordInv
    <3> QED
      BY <3>1, <2>2
  <2>8. (sup # NoVerdict => sup.run \in Procs /\ bound[sup.run] # NoTree)'
    BY <2>3
  <2> HIDE DEF CreatingInv, StageInv
  <2> QED
    BY <2>5, <2>6, <2>7, <2>8
<1>4. ASSUME NEW p \in Procs, NEW w \in Trees, LeaseEnter(p, w) PROVE RecordInv'
  BY <1>4 DEF LeaseEnter, Enterable, Turns, disk, TreeLocked, WriterExclusive, Goes
<1>5. ASSUME NEW p \in Procs, LeaseRead(p) PROVE RecordInv'
  <2>1. CASE Leasable(registry[at[p]])
    <3>1. /\ pc' = [pc EXCEPT ![p] = "read"] /\ pc[p] = "locked"
          /\ \A q \in Procs \ {p} : copy'[q] = copy[q]
          /\ UNCHANGED <<at, registry, checkout, bound, sup>>
      BY <1>5, <2>1 DEF LeaseRead, Goes, disk
    <3>2. /\ \A q, r \in Procs : CreatingInv(q, r)'
          /\ \A q \in Procs : StageInv(q)'
      <4>1. ASSUME NEW q \in Procs, NEW r \in Procs PROVE CreatingInv(q, r)'
        <5>1. CreatingInv(q, r)
          OBVIOUS
        <5>2. CreatingInv(p, q)
          OBVIOUS
        <5>3. /\ pc'[q] = "creating" => pc[q] = "creating" /\ q # p
              /\ r # p => pc'[r] = pc[r]
              /\ pc'[p] # "creating"
          BY <3>1
        <5>4. pc[q] = "creating" /\ at[p] = at[q] => q = p
          BY <1>5, <2>1, <3>1 DEF Leasable
        <5> HIDE DEF TypeOK, LockInv, RecordInv
        <5> QED
          BY <3>1, <5>1, <5>3, <5>4
      <4>2. ASSUME NEW q \in Procs PROVE StageInv(q)'
        BY <3>1
      <4> HIDE DEF CreatingInv, StageInv
      <4> QED
        BY <4>1, <4>2
    <3> HIDE DEF CreatingInv, StageInv
    <3> QED
      BY <3>1, <3>2
  <2>2. CASE ~(Leasable(registry[at[p]]))
    <3>1. Finishes(p)
      BY <1>5, <2>2 DEF LeaseRead
    <3> QED
      BY <1>5, <3>1 DEF LeaseRead, Finishes, Turns, Goes, Forgets, disk
  <2> QED
    BY <2>1, <2>2
<1>6. ASSUME NEW p \in Procs, LeaseActivate(p) PROVE RecordInv'
  BY <1>6 DEF LeaseActivate, Saves, Marked, Goes, Forgets
<1>7. ASSUME NEW p \in Procs, LeaseFails(p) PROVE RecordInv'
  BY <1>7 DEF LeaseFails, Saves, Marked, Finishes, Turns, Forgets, Goes
<1>8. ASSUME NEW p \in Procs, LeaveRead(p) PROVE RecordInv'
  <2>1. CASE registry[at[p]].st = "active"
    <3>1. /\ pc' = [pc EXCEPT ![p] = "leaving"] /\ pc[p] = "body"
          /\ \A q \in Procs \ {p} : copy'[q] = copy[q]
          /\ UNCHANGED <<at, registry, checkout, bound, sup>>
      BY <1>8, <2>1 DEF LeaveRead, Goes, disk
    <3>2. /\ \A q, r \in Procs : CreatingInv(q, r)'
          /\ \A q \in Procs : StageInv(q)'
      <4>1. ASSUME NEW q \in Procs, NEW r \in Procs PROVE CreatingInv(q, r)'
        <5>1. CreatingInv(q, r)
          OBVIOUS
        <5>2. CreatingInv(p, q)
          OBVIOUS
        <5>3. /\ pc'[q] = "creating" => pc[q] = "creating" /\ q # p
              /\ r # p => pc'[r] = pc[r]
              /\ pc'[p] # "creating"
          BY <3>1
        <5>4. pc[q] = "creating" /\ at[p] = at[q] => q = p
          BY <1>8, <2>1, <3>1 DEF Leasable
        <5> HIDE DEF TypeOK, LockInv, RecordInv
        <5> QED
          BY <3>1, <5>1, <5>3, <5>4
      <4>2. ASSUME NEW q \in Procs PROVE StageInv(q)'
        BY <3>1
      <4> HIDE DEF CreatingInv, StageInv
      <4> QED
        BY <4>1, <4>2
    <3> HIDE DEF CreatingInv, StageInv
    <3> QED
      BY <3>1, <3>2
  <2>2. CASE ~(registry[at[p]].st = "active")
    <3>1. Finishes(p)
      BY <1>8, <2>2 DEF LeaveRead
    <3> QED
      BY <1>8, <3>1 DEF LeaveRead, Finishes, Turns, Goes, Forgets, disk
  <2> QED
    BY <2>1, <2>2
<1>9. ASSUME NEW p \in Procs, LeaveSave(p) PROVE RecordInv'
  BY <1>9 DEF LeaveSave, Saves, Marked, Finishes, Turns, Forgets, Goes
<1>10. ASSUME NEW p \in Procs, Edit(p) PROVE RecordInv'
  BY <1>10 DEF Edit, process
<1>11. ASSUME NEW p \in Procs, NEW keep \in BOOLEAN, CommitWork(p, keep) PROVE RecordInv'
  BY <1>11 DEF CommitWork, Committed, process
<1>12. ASSUME NEW p \in Procs, CommandStart(p) PROVE RecordInv'
  BY <1>12 DEF CommandStart, CommandFree, Goes
<1>13. ASSUME NEW p \in Procs, CommandConfirmed(p) PROVE RecordInv'
  BY <1>13 DEF CommandConfirmed, Goes
<1>14. ASSUME NEW p \in Procs, CommandUnconfirmed(p) PROVE RecordInv'
  BY <1>14 DEF CommandUnconfirmed, Saves, Marked, Goes
<1>15. ASSUME NEW p \in Procs, InPlaceEnter(p) PROVE RecordInv'
  BY <1>15 DEF InPlaceEnter, WriterShared, WriterExclusive, Goes, disk
<1>16. ASSUME NEW p \in Procs, InPlaceExit(p) PROVE RecordInv'
  BY <1>16 DEF InPlaceExit, Finishes, disk, Turns, Forgets, Goes
<1>17. ASSUME NEW p \in Procs, NEW w \in Trees, NEW commit \in 1 .. refs[w], PreserveRead(p, w, commit) PROVE RecordInv'
  BY <1>17 DEF PreserveRead, TreeLocked, Turns, disk, Goes
<1>18. ASSUME NEW p \in Procs, PreserveSave(p) PROVE RecordInv'
  BY <1>18 DEF PreserveSave, Saves, Finishes, Turns, Forgets, Goes
<1>19. ASSUME NEW p \in Procs, NEW w \in Trees, RemoveRead(p, w) PROVE RecordInv'
  BY <1>19 DEF RemoveRead, TreeLocked, Removable, Turns, disk, Goes
<1>20. ASSUME NEW p \in Procs, RemoveDetach(p) PROVE RecordInv'
  <2>1. CASE UNCHANGED checkout /\ Finishes(p)
    BY <1>20, <2>1 DEF RemoveDetach, Finishes, Turns, Forgets, Goes
  <2>2. CASE checkout' = [checkout EXCEPT ![at[p]].there = FALSE] /\ Goes(p, "detached")
             /\ UNCHANGED <<at, copy>>
    <3>1. /\ pc[p] = "removing" /\ pc'[p] = "detached" /\ at[p] \in Trees
          /\ \A q \in Procs \ {p} : pc'[q] = pc[q]
          /\ UNCHANGED <<at, copy, registry, bound, sup>>
      BY <1>20, <2>2 DEF RemoveDetach, Goes
    <3>2. /\ ~checkout'[at[p]].there
          /\ \A v \in Trees \ {at[p]} : checkout'[v] = checkout[v]
      BY <2>2, <3>1
    <3>3. \A q \in Procs \ {p} : Holding(q) => at[q] # at[p]
      BY <3>1
    <3> QED
      BY <3>1, <3>2, <3>3
  <2> QED
    BY <1>20, <2>1, <2>2 DEF RemoveDetach
<1>21. ASSUME NEW p \in Procs, RemoveSave(p) PROVE RecordInv'
  BY <1>21 DEF RemoveSave, Saves, Marked, Finishes, Turns, Forgets, Goes
<1>22. ASSUME NEW p \in Procs, NEW w \in Trees, Bind(p, w) PROVE RecordInv'
  BY <1>22 DEF Bind, process, disk
<1>23. ASSUME NEW p \in Procs, RunEnds(p) PROVE RecordInv'
  BY <1>23 DEF RunEnds, process, disk
<1>24. ASSUME NEW p \in Procs, Crash(p) PROVE RecordInv'
  BY <1>24 DEF Crash, Dies, disk, Turns, Forgets, Goes
<1>25. ASSUME NEW p \in Procs, Restart(p) PROVE RecordInv'
  BY <1>25 DEF Restart, Finishes, disk, Turns, Forgets, Goes
<1>26. ASSUME NEW p \in Procs, QuarantineRead(p) PROVE RecordInv'
  BY <1>26 DEF QuarantineRead, NoVerdict, process, disk
<1>27. ASSUME QuarantineSave PROVE RecordInv'
  <2>1. sup # NoVerdict /\ sup.run \in Procs /\ bound[sup.run] \in Trees
    BY <1>27 DEF QuarantineSave, NoVerdict
  <2>2. /\ registry[bound[sup.run]].st \notin {"none", "creating"}
        /\ registry'[bound[sup.run]].st = "quarantined"
        /\ \A v \in Trees \ {bound[sup.run]} : registry'[v] = registry[v]
    BY <1>27, <2>1 DEF QuarantineSave, Saves, Marked
  <2>3. UNCHANGED <<checkout, pc, at, copy>>
    BY <1>27 DEF QuarantineSave, process
  <2>4. /\ \A q \in Procs : bound'[q] \in {bound[q], NoTree}
        /\ sup' # NoVerdict => sup'.run = sup.run /\ bound' = bound
    BY <1>27, <2>1 DEF QuarantineSave
  <2>5. ASSUME NEW q \in Procs, NEW r \in Procs PROVE CreatingInv(q, r)'
    <3>1. CASE pc[q] # "creating"
      BY <3>1, <2>3
    <3>2. CASE pc[q] = "creating"
      <4>1. CreatingInv(q, r) /\ at[q] \in Trees
        BY <3>2
      <4>2. at[q] # bound[sup.run]
        BY <3>2, <4>1, <2>2
      <4>3. registry'[at[q]] = registry[at[q]]
        BY <4>1, <4>2, <2>2
      <4> HIDE DEF TypeOK, LockInv, RecordInv
      <4> QED
        BY <4>1, <4>3, <2>3
    <3> QED
      BY <3>1, <3>2
  <2>6. ASSUME NEW q \in Procs PROVE StageInv(q)'
    <3>1. /\ StageInv(q) /\ at[q] \in Trees \cup {NoTree} /\ bound[q] \in Trees \cup {NoTree}
          /\ Holding(q) \/ pc[q] = "inspecting" => at[q] \in Trees
          /\ pc[q] \in {"body", "command"} => at[q] \in Trees
      BY DEF StageInv
    <3>2. \A v \in Trees : \/ registry'[v] = registry[v]
                            \/ registry'[v].st = "quarantined"
      BY <2>2
    <3> HIDE DEF TypeOK, LockInv, RecordInv
    <3> QED
      BY <3>1, <3>2, <2>3, <2>4
  <2>7. ASSUME NEW v \in Trees PROVE (registry[v].st = "none" => ~checkout[v].there)'
    BY <2>2, <2>3
  <2>8. (sup # NoVerdict => sup.run \in Procs /\ bound[sup.run] # NoTree)'
    BY <2>1, <2>4
  <2> HIDE DEF CreatingInv, StageInv
  <2> QED
    BY <2>5, <2>6, <2>7, <2>8
<1>28. ASSUME Kill PROVE RecordInv'
  <2>1. sup.run \in Procs /\ sup' = NoVerdict
    BY <1>28 DEF Kill, NoVerdict
  <2>2. /\ UNCHANGED <<registry, checkout, bound>>
        /\ \A q \in Procs \ {sup.run} : pc'[q] = pc[q] /\ at'[q] = at[q] /\ copy'[q] = copy[q]
        /\ pc'[sup.run] = "dead"
    BY <1>28, <2>1 DEF Kill, Dies, Turns, Goes, Forgets, disk
  <2>3. ASSUME NEW q \in Procs, NEW r \in Procs PROVE CreatingInv(q, r)'
    <3>1. CreatingInv(q, r) /\ (pc[q] = "creating" => at[q] \in Trees)
      OBVIOUS
    <3>2. at'[sup.run] = NoTree
      BY <1>28, <2>1 DEF Kill, Dies, Turns, Goes
    <3> HIDE DEF TypeOK, LockInv, RecordInv
    <3> QED
      BY <2>1, <2>2, <3>1, <3>2, TreeAssumption
  <2>4. ASSUME NEW q \in Procs PROVE StageInv(q)'
    BY <2>1, <2>2
  <2> HIDE DEF CreatingInv, StageInv
  <2> QED
    BY <2>1, <2>2, <2>3, <2>4
<1>29. ASSUME NEW w \in Trees, Stray(w) PROVE RecordInv'
  <2>1. \A v \in Trees : checkout'[v].there = checkout[v].there
    BY <1>29 DEF Stray
  <2> QED
    BY <1>29, <2>1 DEF Stray, process
<1> QED
  <2>1. ASSUME NEW p \in Procs, Create(p) PROVE RecordInv'
    BY <2>1, <1>1, <1>2, <1>3, <1>30 DEF Create
  <2>2. ASSUME NEW p \in Procs, Lease(p) PROVE RecordInv'
    BY <2>2, <1>4, <1>5, <1>6, <1>7, <1>8, <1>9 DEF Lease
  <2>3. ASSUME NEW p \in Procs, Body(p) PROVE RecordInv'
    BY <2>3, <1>10, <1>11, <1>12, <1>13, <1>14 DEF Body
  <2>4. ASSUME NEW p \in Procs, InPlace(p) PROVE RecordInv'
    BY <2>4, <1>15, <1>16 DEF InPlace
  <2>5. ASSUME NEW p \in Procs, Preserve(p) PROVE RecordInv'
    BY <2>5, <1>17, <1>18 DEF Preserve
  <2>6. ASSUME NEW p \in Procs, Remove(p) PROVE RecordInv'
    BY <2>6, <1>19, <1>20, <1>21 DEF Remove
  <2>7. ASSUME NEW p \in Procs, Run(p) PROVE RecordInv'
    BY <2>7, <1>22, <1>23, <1>24, <1>25 DEF Run
  <2>8. CASE Supervisor
    BY <2>8, <1>26, <1>27, <1>28 DEF Supervisor
  <2> QED
    BY <2>1, <2>2, <2>3, <2>4, <2>5, <2>6, <2>7, <2>8, <1>29 DEF Next

-----------------------------------------------------------------------------
(* Worktrees left badly *)

\* A process past the first stage of a lease is alone on its worktree, but for
\* who made it and has not looked at it yet.
LEMMA Alone ==
  ASSUME TypeOK, LockInv, RecordInv,
         NEW p \in Procs, Holding(p), pc[p] # "locked",
         NEW q \in Procs, q # p
  PROVE  at[q] = at[p] => pc[q] = "inspecting"
<1>1. at[p] # NoTree /\ (Holding(q) => at[q] # at[p])
  BY DEF LockInv
<1>2. pc[q] = "creating" => at[q] # at[p]
  BY DEF RecordInv, CreatingInv
<1> QED
  BY <1>1, <1>2 DEF LockInv

\* Nobody who will make a worktree usable, or take it away, is at one left badly.
LEMMA AtUntainted ==
  ASSUME TypeOK, LockInv, TaintInv, NEW p \in Procs,
         pc[p] \in {"creating", "read", "leaving", "preserving", "removing", "detached"}
  PROVE  at[p] \in Trees /\ at[p] \notin tainted
<1>1. at[p] \in Trees
  BY Located DEF Holding, Leasing
<1>2. at[p] \in tainted => pc[p] \in {"locked", "inspecting", "body"}
  BY DEF TaintInv, ShutInv
<1> QED
  BY <1>1, <1>2

\* A worktree left badly stays as it was left.
LEMMA TaintStep ==
  ASSUME TypeOK, LockInv, RecordInv, TaintInv, Next
  PROVE  TaintInv'
<1> USE DEF TypeOK, LockInv, RecordInv, CreatingInv, StageInv, TaintInv, ShutInv, Holding, Records, NoRecord, Checkouts, NoCheckout, Stages, Leasing
<1>1. ASSUME NEW p \in Procs, NEW w \in Trees, CreateStart(p, w) PROVE TaintInv'
  BY <1>1 DEF CreateStart, RepoLocked, Saves, Marked, Turns, Goes
<1>2. ASSUME NEW p \in Procs, CreateCheckout(p) PROVE TaintInv'
  BY <1>2 DEF CreateCheckout
<1>3. ASSUME NEW p \in Procs, CreateEnd(p) PROVE TaintInv'
  <2>1. at[p] \in Trees
    BY <1>3 DEF CreateEnd
  <2>2. \A v \in Trees : registry'[v] = registry[v] \/ registry'[v].st = "quarantined"
    BY <1>3, <2>1 DEF CreateEnd, Saves, Marked
  <2>3. /\ at'[p] = NoTree /\ UNCHANGED <<checkout, tainted, straying>>
        /\ \A q \in Procs \ {p} : pc'[q] = pc[q] /\ at'[q] = at[q]
    BY <1>3 DEF CreateEnd, Finishes, Turns, Goes
  <2>4. ASSUME NEW v \in tainted PROVE ShutInv(v)'
    <3>1. v \in Trees /\ v # NoTree /\ ShutInv(v)
      BY TreeAssumption
    <3> HIDE DEF TypeOK, LockInv, RecordInv, TaintInv
    <3> QED
      BY <2>2, <2>3, <3>1
  <2> HIDE DEF ShutInv
  <2> QED
    BY <2>3, <2>4
<1>30. ASSUME NEW p \in Procs, CreateReady(p) PROVE TaintInv'
  <2>1. at[p] \in Trees /\ at[p] \notin tainted
    BY <1>30, AtUntainted DEF CreateReady
  <2>2. \A v \in Trees \ {at[p]} : registry'[v] = registry[v]
    BY <1>30, <2>1 DEF CreateReady, Saves
  <2>3. /\ UNCHANGED <<at, checkout, tainted, straying>>
        /\ \A q \in Procs \ {p} : pc'[q] = pc[q]
    BY <1>30 DEF CreateReady, Goes
  <2>4. ASSUME NEW v \in tainted PROVE ShutInv(v)'
    <3>1. v \in Trees \ {at[p]} /\ ShutInv(v)
      BY <2>1
    <3> HIDE DEF TypeOK, LockInv, RecordInv, TaintInv
    <3> QED
      BY <2>2, <2>3, <3>1
  <2> HIDE DEF ShutInv
  <2> QED
    BY <2>3, <2>4
<1>4. ASSUME NEW p \in Procs, NEW w \in Trees, LeaseEnter(p, w) PROVE TaintInv'
  BY <1>4 DEF LeaseEnter, Enterable, Turns, disk, TreeLocked, WriterExclusive, Goes
<1>5. ASSUME NEW p \in Procs, LeaseRead(p) PROVE TaintInv'
  <2>1. /\ UNCHANGED <<registry, checkout, tainted, straying>>
        /\ at'[p] \in {NoTree, at[p]}
        /\ \A q \in Procs \ {p} : pc'[q] = pc[q] /\ at'[q] = at[q]
    BY <1>5 DEF LeaseRead, Finishes, Turns, Goes, disk
  <2>2. at'[p] = at[p] /\ at[p] # NoTree => at[p] \notin tainted
    <3>1. at'[p] = at[p] /\ at[p] # NoTree => registry[at[p]].st = "ready"
      BY <1>5 DEF LeaseRead, Leasable, Finishes, Turns, Goes
    <3>2. \A v \in tainted : registry[v].st # "ready"
      OBVIOUS
    <3> QED
      BY <3>1, <3>2
  <2>3. ASSUME NEW v \in tainted PROVE ShutInv(v)'
    <3>1. v \in Trees /\ v # NoTree /\ ShutInv(v)
      BY TreeAssumption
    <3> HIDE DEF TypeOK, LockInv, RecordInv, TaintInv
    <3> QED
      BY <2>1, <2>2, <3>1
  <2> HIDE DEF ShutInv
  <2> QED
    BY <2>1, <2>3
<1>6. ASSUME NEW p \in Procs, LeaseActivate(p) PROVE TaintInv'
  BY <1>6 DEF LeaseActivate, Saves, Marked, Goes, Forgets
<1>7. ASSUME NEW p \in Procs, LeaseFails(p) PROVE TaintInv'
  <2>1. at[p] \in Trees /\ checkout[at[p]].there
    BY <1>7 DEF LeaseFails, StageInv
  <2>2. /\ registry'[at[p]].st = "quarantined"
        /\ \A v \in Trees \ {at[p]} : registry'[v] = registry[v]
    BY <1>7, <2>1 DEF LeaseFails, Saves, Marked
  <2>3. /\ at'[p] = NoTree /\ UNCHANGED <<checkout, straying>> /\ tainted' = tainted \cup {at[p]}
        /\ \A q \in Procs \ {p} : pc'[q] = pc[q] /\ at'[q] = at[q]
    BY <1>7 DEF LeaseFails, Finishes, Turns, Goes
  <2>4. \A q \in Procs \ {p} : at[q] = at[p] => pc[q] = "inspecting"
    BY <1>7, <2>1, Alone DEF LeaseFails
  <2>5. ASSUME NEW v \in tainted' PROVE ShutInv(v)'
    <3>1. v \in Trees /\ v # NoTree /\ (v # at[p] => ShutInv(v))
      BY <2>1, <2>3, TreeAssumption
    <3> HIDE DEF TypeOK, LockInv, RecordInv, TaintInv
    <3> QED
      BY <2>1, <2>2, <2>3, <2>4, <3>1
  <2> HIDE DEF ShutInv
  <2> QED
    BY <2>3, <2>5
<1>8. ASSUME NEW p \in Procs, LeaveRead(p) PROVE TaintInv'
  <2>1. /\ UNCHANGED <<registry, checkout, tainted, straying>>
        /\ at'[p] \in {NoTree, at[p]}
        /\ \A q \in Procs \ {p} : pc'[q] = pc[q] /\ at'[q] = at[q]
    BY <1>8 DEF LeaveRead, Finishes, Turns, Goes, disk
  <2>2. at'[p] = at[p] /\ at[p] # NoTree => at[p] \notin tainted
    <3>1. CASE Finishes(p)
      BY <3>1 DEF Finishes, Turns, Goes
    <3>2. CASE pc[p] = "body" /\ registry[at[p]].st = "active"
      <4>1. \A v \in tainted : ShutInv(v)
        OBVIOUS
      <4> QED
        BY <3>2, <4>1
    <3> QED
      BY <1>8, <3>1, <3>2 DEF LeaveRead
  <2>3. ASSUME NEW v \in tainted PROVE ShutInv(v)'
    <3>1. v \in Trees /\ v # NoTree /\ ShutInv(v)
      BY TreeAssumption
    <3> HIDE DEF TypeOK, LockInv, RecordInv, TaintInv
    <3> QED
      BY <2>1, <2>2, <3>1
  <2> HIDE DEF ShutInv
  <2> QED
    BY <2>1, <2>3
<1>9. ASSUME NEW p \in Procs, LeaveSave(p) PROVE TaintInv'
  <2>1. at[p] \in Trees /\ at[p] \notin tainted
    BY <1>9, AtUntainted DEF LeaveSave
  <2>2. \A v \in Trees \ {at[p]} : registry'[v] = registry[v] /\ checkout'[v] = checkout[v]
    BY <1>9, <2>1 DEF LeaveSave, Saves
  <2>3. /\ at'[p] = NoTree /\ UNCHANGED <<tainted, straying>>
        /\ \A q \in Procs \ {p} : pc'[q] = pc[q] /\ at'[q] = at[q]
    BY <1>9 DEF LeaveSave, Finishes, Turns, Goes
  <2>4. ASSUME NEW v \in tainted PROVE ShutInv(v)'
    <3>1. v \in Trees \ {at[p]} /\ v # NoTree /\ ShutInv(v)
      BY <2>1, TreeAssumption
    <3> HIDE DEF TypeOK, LockInv, RecordInv, TaintInv
    <3> QED
      BY <2>2, <2>3, <3>1
  <2> HIDE DEF ShutInv
  <2> QED
    BY <2>3, <2>4
<1>10. ASSUME NEW p \in Procs, Edit(p) PROVE TaintInv'
  BY <1>10 DEF Edit, process
<1>11. ASSUME NEW p \in Procs, NEW keep \in BOOLEAN, CommitWork(p, keep) PROVE TaintInv'
  BY <1>11 DEF CommitWork, Committed, process
<1>12. ASSUME NEW p \in Procs, CommandStart(p) PROVE TaintInv'
  BY <1>12 DEF CommandStart, CommandFree, Goes
<1>13. ASSUME NEW p \in Procs, CommandConfirmed(p) PROVE TaintInv'
  BY <1>13 DEF CommandConfirmed, Goes
<1>14. ASSUME NEW p \in Procs, CommandUnconfirmed(p) PROVE TaintInv'
  BY <1>14 DEF CommandUnconfirmed, Saves, Marked, Goes
<1>15. ASSUME NEW p \in Procs, InPlaceEnter(p) PROVE TaintInv'
  BY <1>15 DEF InPlaceEnter, WriterShared, WriterExclusive, Goes, disk
<1>16. ASSUME NEW p \in Procs, InPlaceExit(p) PROVE TaintInv'
  <2>1. /\ UNCHANGED <<registry, checkout, tainted, straying>> /\ at'[p] = NoTree
        /\ \A q \in Procs \ {p} : pc'[q] = pc[q] /\ at'[q] = at[q]
    BY <1>16 DEF InPlaceExit, Finishes, Turns, Goes, disk
  <2>2. ASSUME NEW v \in tainted PROVE ShutInv(v)'
    <3>1. v \in Trees /\ v # NoTree /\ ShutInv(v)
      BY TreeAssumption
    <3> HIDE DEF TypeOK, LockInv, RecordInv, TaintInv
    <3> QED
      BY <2>1, <3>1
  <2> HIDE DEF ShutInv
  <2> QED
    BY <2>1, <2>2
<1>17. ASSUME NEW p \in Procs, NEW w \in Trees, NEW commit \in 1 .. refs[w], PreserveRead(p, w, commit) PROVE TaintInv'
  BY <1>17 DEF PreserveRead, TreeLocked, Turns, disk, Goes
<1>18. ASSUME NEW p \in Procs, PreserveSave(p) PROVE TaintInv'
  <2>1. at[p] \in Trees /\ at[p] \notin tainted
    BY <1>18, AtUntainted DEF PreserveSave
  <2>2. \A v \in Trees \ {at[p]} : registry'[v] = registry[v] /\ checkout'[v] = checkout[v]
    BY <1>18, <2>1 DEF PreserveSave, Saves
  <2>3. /\ at'[p] = NoTree /\ UNCHANGED <<tainted, straying>>
        /\ \A q \in Procs \ {p} : pc'[q] = pc[q] /\ at'[q] = at[q]
    BY <1>18 DEF PreserveSave, Finishes, Turns, Goes
  <2>4. ASSUME NEW v \in tainted PROVE ShutInv(v)'
    <3>1. v \in Trees \ {at[p]} /\ v # NoTree /\ ShutInv(v)
      BY <2>1, TreeAssumption
    <3> HIDE DEF TypeOK, LockInv, RecordInv, TaintInv
    <3> QED
      BY <2>2, <2>3, <3>1
  <2> HIDE DEF ShutInv
  <2> QED
    BY <2>3, <2>4
<1>19. ASSUME NEW p \in Procs, NEW w \in Trees, RemoveRead(p, w) PROVE TaintInv'
  BY <1>19 DEF RemoveRead, TreeLocked, Removable, Turns, disk, Goes
<1>20. ASSUME NEW p \in Procs, RemoveDetach(p) PROVE TaintInv'
  <2>1. at[p] \in Trees /\ at[p] \notin tainted /\ pc[p] = "removing"
    BY <1>20, AtUntainted DEF RemoveDetach
  <2>2. \A v \in Trees \ {at[p]} : registry'[v] = registry[v] /\ checkout'[v] = checkout[v]
    BY <1>20, <2>1 DEF RemoveDetach
  <2>3. /\ at'[p] \in {NoTree, at[p]} /\ UNCHANGED <<tainted, straying>>
        /\ \A q \in Procs \ {p} : pc'[q] = pc[q] /\ at'[q] = at[q]
    BY <1>20 DEF RemoveDetach, Finishes, Turns, Goes
  <2>4. ASSUME NEW v \in tainted PROVE ShutInv(v)'
    <3>1. v \in Trees \ {at[p]} /\ v # NoTree /\ ShutInv(v)
      BY <2>1, TreeAssumption
    <3> HIDE DEF TypeOK, LockInv, RecordInv, TaintInv
    <3> QED
      BY <2>2, <2>3, <3>1
  <2> HIDE DEF ShutInv
  <2> QED
    BY <2>3, <2>4
<1>21. ASSUME NEW p \in Procs, RemoveSave(p) PROVE TaintInv'
  <2>1. at[p] \in Trees /\ at[p] \notin tainted
    BY <1>21, AtUntainted DEF RemoveSave
  <2>2. \A v \in Trees \ {at[p]} : registry'[v] = registry[v] /\ checkout'[v] = checkout[v]
    BY <1>21, <2>1 DEF RemoveSave, Saves
  <2>3. /\ at'[p] = NoTree /\ UNCHANGED <<tainted, straying>>
        /\ \A q \in Procs \ {p} : pc'[q] = pc[q] /\ at'[q] = at[q]
    BY <1>21 DEF RemoveSave, Finishes, Turns, Goes
  <2>4. ASSUME NEW v \in tainted PROVE ShutInv(v)'
    <3>1. v \in Trees \ {at[p]} /\ v # NoTree /\ ShutInv(v)
      BY <2>1, TreeAssumption
    <3> HIDE DEF TypeOK, LockInv, RecordInv, TaintInv
    <3> QED
      BY <2>2, <2>3, <3>1
  <2> HIDE DEF ShutInv
  <2> QED
    BY <2>3, <2>4
<1>22. ASSUME NEW p \in Procs, NEW w \in Trees, Bind(p, w) PROVE TaintInv'
  BY <1>22 DEF Bind, process, disk
<1>23. ASSUME NEW p \in Procs, RunEnds(p) PROVE TaintInv'
  BY <1>23 DEF RunEnds, process, disk
<1>24. ASSUME NEW p \in Procs, Crash(p) PROVE TaintInv'
  <2>1. UNCHANGED <<registry, checkout>>
    BY <1>24 DEF Crash, disk
  <2>2. CASE pc[p] \in {"body", "command"}
    <3>1. /\ at[p] \in Trees /\ checkout[at[p]].there
          /\ registry[at[p]].st \in {"active", "quarantined"}
      BY <2>2 DEF StageInv
    <3>2. \A q \in Procs \ {p} : at[q] = at[p] => pc[q] = "inspecting"
      BY <2>2, <3>1, Alone
    <3>3. /\ tainted' = tainted \cup {at[p]} /\ straying' \subseteq straying \cup {at[p]}
          /\ at'[p] = NoTree
          /\ \A q \in Procs \ {p} : pc'[q] = pc[q] /\ at'[q] = at[q]
      BY <1>24, <2>2 DEF Crash, Dies, Turns, Goes
    <3>4. ASSUME NEW v \in tainted' PROVE ShutInv(v)'
      <4>1. v \in Trees /\ v # NoTree /\ (v # at[p] => ShutInv(v))
        BY <3>1, <3>3, TreeAssumption
      <4> HIDE DEF TypeOK, LockInv, RecordInv, TaintInv
      <4> QED
        BY <2>1, <3>1, <3>2, <3>3, <4>1
    <3> HIDE DEF ShutInv
    <3> QED
      BY <3>3, <3>4
  <2>3. CASE pc[p] \notin {"body", "command"}
    <3>1. /\ UNCHANGED <<tainted, straying>> /\ at'[p] = NoTree
          /\ \A q \in Procs \ {p} : pc'[q] = pc[q] /\ at'[q] = at[q]
      BY <1>24, <2>3 DEF Crash, Dies, Turns, Goes
    <3>2. ASSUME NEW v \in tainted PROVE ShutInv(v)'
      <4>1. v \in Trees /\ v # NoTree /\ ShutInv(v)
        BY TreeAssumption
      <4> HIDE DEF TypeOK, LockInv, RecordInv, TaintInv
      <4> QED
        BY <2>1, <3>1, <4>1
    <3> HIDE DEF ShutInv
    <3> QED
      BY <3>1, <3>2
  <2> QED
    BY <2>2, <2>3
<1>25. ASSUME NEW p \in Procs, Restart(p) PROVE TaintInv'
  <2>1. /\ UNCHANGED <<registry, checkout, tainted, straying>> /\ at'[p] = NoTree
        /\ \A q \in Procs \ {p} : pc'[q] = pc[q] /\ at'[q] = at[q]
    BY <1>25 DEF Restart, Finishes, Turns, Goes, disk
  <2>2. ASSUME NEW v \in tainted PROVE ShutInv(v)'
    <3>1. v \in Trees /\ v # NoTree /\ ShutInv(v)
      BY TreeAssumption
    <3> HIDE DEF TypeOK, LockInv, RecordInv, TaintInv
    <3> QED
      BY <2>1, <3>1
  <2> HIDE DEF ShutInv
  <2> QED
    BY <2>1, <2>2
<1>26. ASSUME NEW p \in Procs, QuarantineRead(p) PROVE TaintInv'
  BY <1>26 DEF QuarantineRead, NoVerdict, process, disk
<1>27. ASSUME QuarantineSave PROVE TaintInv'
  BY <1>27 DEF QuarantineSave, Saves, Marked, NoVerdict, process
<1>28. ASSUME Kill PROVE TaintInv'
  <2> DEFINE p == sup.run
  <2>0. p \in Procs
    BY <1>28 DEF Kill, NoVerdict
  <2> HIDE DEF p
  <2>1. UNCHANGED <<registry, checkout>>
    BY <1>28 DEF p, Kill, disk
  <2>2. CASE pc[p] \in {"body", "command"}
    <3>1. /\ at[p] \in Trees /\ checkout[at[p]].there
          /\ registry[at[p]].st \in {"active", "quarantined"}
      BY <2>2, <2>0 DEF StageInv
    <3>2. \A q \in Procs \ {p} : at[q] = at[p] => pc[q] = "inspecting"
      BY <2>2, <3>1, <2>0, Alone
    <3>3. /\ tainted' = tainted \cup {at[p]} /\ straying' \subseteq straying \cup {at[p]}
          /\ at'[p] = NoTree
          /\ \A q \in Procs \ {p} : pc'[q] = pc[q] /\ at'[q] = at[q]
      BY <1>28, <2>2, <2>0 DEF p, Kill, Dies, Turns, Goes
    <3>4. ASSUME NEW v \in tainted' PROVE ShutInv(v)'
      <4>1. v \in Trees /\ v # NoTree /\ (v # at[p] => ShutInv(v))
        BY <3>1, <3>3, TreeAssumption
      <4> HIDE DEF TypeOK, LockInv, RecordInv, TaintInv
      <4> QED
        BY <2>1, <3>1, <3>2, <3>3, <4>1
    <3> HIDE DEF ShutInv
    <3> QED
      BY <3>3, <3>4
  <2>3. CASE pc[p] \notin {"body", "command"}
    <3>1. /\ UNCHANGED <<tainted, straying>> /\ at'[p] = NoTree
          /\ \A q \in Procs \ {p} : pc'[q] = pc[q] /\ at'[q] = at[q]
      <4>1. CASE pc[p] = "dead"
        <5>1. at[p] = NoTree
          BY <4>1, <2>0
        <5> QED
          BY <1>28, <4>1, <5>1 DEF p, Kill
      <4>2. CASE pc[p] # "dead"
        BY <1>28, <2>3, <2>0, <4>2 DEF p, Kill, Dies, Turns, Goes
      <4> QED
        BY <4>1, <4>2
    <3>2. ASSUME NEW v \in tainted PROVE ShutInv(v)'
      <4>1. v \in Trees /\ v # NoTree /\ ShutInv(v)
        BY TreeAssumption
      <4> HIDE DEF TypeOK, LockInv, RecordInv, TaintInv
      <4> QED
        BY <2>1, <3>1, <4>1
    <3> HIDE DEF ShutInv
    <3> QED
      BY <3>1, <3>2
  <2> QED
    BY <2>2, <2>3
<1>29. ASSUME NEW w \in Trees, Stray(w) PROVE TaintInv'
  <2>1. /\ UNCHANGED <<registry, pc, at, tainted>> /\ straying' \subseteq straying
        /\ \A v \in Trees : checkout'[v].there = checkout[v].there
    <3>1. UNCHANGED <<registry, pc, at, tainted>> /\ straying' \subseteq straying
      <4> HIDE DEF TypeOK, LockInv, RecordInv, TaintInv
      <4> QED
        BY <1>29 DEF Stray, process
    <3>2. ASSUME NEW v \in Trees PROVE checkout'[v].there = checkout[v].there
      <4> HIDE DEF LockInv, RecordInv, TaintInv
      <4> QED
        BY <1>29 DEF Stray
    <3> QED
      BY <3>1, <3>2
  <2>2. ASSUME NEW v \in tainted PROVE ShutInv(v)'
    <3>1. v \in Trees /\ ShutInv(v)
      OBVIOUS
    <3> HIDE DEF TypeOK, LockInv, RecordInv, TaintInv
    <3> QED
      BY <2>1, <3>1
  <2> HIDE DEF ShutInv
  <2> QED
    BY <2>1, <2>2
<1> QED
  <2>1. ASSUME NEW p \in Procs, Create(p) PROVE TaintInv'
    BY <2>1, <1>1, <1>2, <1>3, <1>30 DEF Create
  <2>2. ASSUME NEW p \in Procs, Lease(p) PROVE TaintInv'
    BY <2>2, <1>4, <1>5, <1>6, <1>7, <1>8, <1>9 DEF Lease
  <2>3. ASSUME NEW p \in Procs, Body(p) PROVE TaintInv'
    BY <2>3, <1>10, <1>11, <1>12, <1>13, <1>14 DEF Body
  <2>4. ASSUME NEW p \in Procs, InPlace(p) PROVE TaintInv'
    BY <2>4, <1>15, <1>16 DEF InPlace
  <2>5. ASSUME NEW p \in Procs, Preserve(p) PROVE TaintInv'
    BY <2>5, <1>17, <1>18 DEF Preserve
  <2>6. ASSUME NEW p \in Procs, Remove(p) PROVE TaintInv'
    BY <2>6, <1>19, <1>20, <1>21 DEF Remove
  <2>7. ASSUME NEW p \in Procs, Run(p) PROVE TaintInv'
    BY <2>7, <1>22, <1>23, <1>24, <1>25 DEF Run
  <2>8. CASE Supervisor
    BY <2>8, <1>26, <1>27, <1>28 DEF Supervisor
  <2> QED
    BY <2>1, <2>2, <2>3, <2>4, <2>5, <2>6, <2>7, <2>8, <1>29 DEF Next

-----------------------------------------------------------------------------
(* Preserved commits, commands *)

\* A step of one writer that touches neither refs nor checkouts, and neither
\* saves nor remembers more than the refs hold.
LEMMA WriterKeeps ==
  ASSUME KeptInv, NEW p \in Procs, UNCHANGED <<checkout, refs, bound, sup>>,
         \A w \in Trees : registry'[w].kept <= refs[w],
         \A q \in Procs \ {p} : at'[q] = at[q] /\ copy'[q] = copy[q] /\ pc'[q] = pc[q],
         IF at'[p] = NoTree THEN copy'[p] = NoRecord
         ELSE copy'[p].kept <= refs[at'[p]] /\ pc'[p] # "removing"
  PROVE  KeptInv'
<1>1. \A w \in Trees : HeldInv(w)'
  BY DEF KeptInv, HeldInv
<1>2. ASSUME NEW q \in Procs PROVE CopyInv(q)'
  <2>1. CASE q = p
    BY <2>1 DEF CopyInv
  <2>2. CASE q # p
    BY <2>2 DEF KeptInv, CopyInv
  <2> QED
    BY <2>1, <2>2
<1> QED
  BY <1>1, <1>2 DEF KeptInv

\* What a record says is preserved stays held by a delivery ref.
LEMMA KeptStep ==
  ASSUME TypeOK, TypeOK', LockInv, RecordInv, TaintInv, KeptInv, Next
  PROVE  KeptInv'
<1> USE DEF TypeOK, LockInv, KeptInv, HeldInv, CopyInv, Holding, Records, NoRecord, Checkouts, NoCheckout, Stages, Leasing
<1>1. ASSUME NEW p \in Procs, NEW w \in Trees, CreateStart(p, w) PROVE KeptInv'
  BY <1>1 DEF CreateStart, RepoLocked, Saves, Marked, Turns, Goes
<1>2. ASSUME NEW p \in Procs, CreateCheckout(p) PROVE KeptInv'
  BY <1>2 DEF CreateCheckout
<1>3. ASSUME NEW p \in Procs, CreateEnd(p) PROVE KeptInv'
  <2>1. /\ UNCHANGED <<checkout, refs, bound, sup>>
        /\ \A q \in Procs \ {p} : at'[q] = at[q] /\ copy'[q] = copy[q] /\ pc'[q] = pc[q]
    BY <1>3 DEF CreateEnd, Finishes, Turns, Goes, Forgets
  <2>2. at[p] \in Trees
    BY <1>3 DEF CreateEnd
  <2>3. /\ registry'[at[p]].kept \in {0, registry[at[p]].kept}
        /\ \A w \in Trees \ {at[p]} : registry'[w] = registry[w]
    BY <1>3, <2>2 DEF CreateEnd, Saves, Marked
  <2>4. \A w \in Trees : registry[w].kept <= refs[w] /\ refs[w] \in Nat
    OBVIOUS
  <2>5. \A w \in Trees : registry'[w].kept <= refs[w]
    <3> HIDE DEF TypeOK, LockInv, RecordInv, TaintInv, KeptInv, HeldInv, CopyInv
    <3> QED
      BY <2>2, <2>3, <2>4
  <2>6. at'[p] = NoTree /\ copy'[p] = NoRecord
    BY <1>3 DEF CreateEnd, Finishes, Turns, Forgets
  <2> HIDE DEF TypeOK, LockInv, RecordInv, TaintInv, KeptInv, HeldInv, CopyInv
  <2> QED
    BY <2>1, <2>5, <2>6, WriterKeeps
<1>30. ASSUME NEW p \in Procs, CreateReady(p) PROVE KeptInv'
  <2>1. /\ UNCHANGED <<checkout, refs, bound, sup>>
        /\ \A q \in Procs \ {p} : at'[q] = at[q] /\ copy'[q] = copy[q] /\ pc'[q] = pc[q]
    BY <1>30 DEF CreateReady, Goes
  <2>2. at[p] \in Trees
    BY <1>30 DEF CreateReady
  <2>3. /\ registry'[at[p]].kept = 0
        /\ \A w \in Trees \ {at[p]} : registry'[w] = registry[w]
    BY <1>30, <2>2 DEF CreateReady, Saves, Marked
  <2>4. \A w \in Trees : registry[w].kept <= refs[w] /\ refs[w] \in Nat
    OBVIOUS
  <2>5. \A w \in Trees : registry'[w].kept <= refs[w]
    <3> HIDE DEF TypeOK, LockInv, RecordInv, TaintInv, KeptInv, HeldInv, CopyInv
    <3> QED
      BY <2>2, <2>3, <2>4
  <2>6. at[p] # NoTree /\ copy[p].kept <= refs[at[p]]
    BY <2>2, TreeAssumption
  <2>7. at'[p] = at[p] /\ copy'[p] = copy[p] /\ pc'[p] = "inspecting"
    BY <1>30 DEF CreateReady, Goes
  <2> HIDE DEF TypeOK, LockInv, RecordInv, TaintInv, KeptInv, HeldInv, CopyInv
  <2> QED
    BY <2>1, <2>5, <2>6, <2>7, WriterKeeps
<1>4. ASSUME NEW p \in Procs, NEW w \in Trees, LeaseEnter(p, w) PROVE KeptInv'
  <2>1. /\ UNCHANGED <<checkout, refs, bound, sup>>
        /\ \A q \in Procs \ {p} : at'[q] = at[q] /\ copy'[q] = copy[q] /\ pc'[q] = pc[q]
    BY <1>4 DEF LeaseEnter, Turns, Goes, disk
  <2>2. \A v \in Trees : registry'[v].kept <= refs[v]
    BY <1>4 DEF LeaseEnter, disk
  <2>3. copy[p] = NoRecord /\ refs[w] \in Nat
    BY <1>4 DEF LeaseEnter
  <2>4. at'[p] = w /\ copy'[p] = copy[p] /\ pc'[p] = "locked" /\ w # NoTree
    BY <1>4, TreeAssumption DEF LeaseEnter, Turns, Goes
  <2> HIDE DEF TypeOK, LockInv, RecordInv, TaintInv, KeptInv, HeldInv, CopyInv
  <2>5. copy'[p].kept <= refs[at'[p]]
    BY <2>3, <2>4
  <2> QED
    BY <2>1, <2>2, <2>4, <2>5, WriterKeeps
<1>5. ASSUME NEW p \in Procs, LeaseRead(p) PROVE KeptInv'
  <2>1. /\ UNCHANGED <<checkout, refs, bound, sup>>
        /\ \A q \in Procs \ {p} : at'[q] = at[q] /\ copy'[q] = copy[q] /\ pc'[q] = pc[q]
    BY <1>5 DEF LeaseRead, Goes, Finishes, Turns, Forgets, disk
  <2>2. \A w \in Trees : registry'[w].kept <= refs[w]
    BY <1>5 DEF LeaseRead, disk
  <2>3. registry[at[p]].kept <= refs[at[p]]
    BY <1>5 DEF LeaseRead
  <2>4. \/ at'[p] = NoTree /\ copy'[p] = NoRecord
        \/ at'[p] = at[p] /\ copy'[p] = registry[at[p]] /\ pc'[p] = "read" /\ at[p] # NoTree
    BY <1>5, TreeAssumption DEF LeaseRead, Goes, Finishes, Turns, Forgets
  <2> HIDE DEF TypeOK, LockInv, RecordInv, TaintInv, KeptInv, HeldInv, CopyInv
  <2> QED
    BY <2>1, <2>2, <2>3, <2>4, WriterKeeps
<1>6. ASSUME NEW p \in Procs, LeaseActivate(p) PROVE KeptInv'
  <2>1. /\ UNCHANGED <<checkout, refs, bound, sup>>
        /\ \A q \in Procs \ {p} : at'[q] = at[q] /\ copy'[q] = copy[q] /\ pc'[q] = pc[q]
    BY <1>6 DEF LeaseActivate, Goes, Forgets
  <2>2. at[p] \in Trees /\ at[p] # NoTree
    BY <1>6, TreeAssumption DEF LeaseActivate
  <2>3. copy[p].kept <= refs[at[p]] /\ registry \in [Trees -> Records]
    BY <2>2
  <2>4. registry'[at[p]].kept = copy[p].kept /\ \A w \in Trees \ {at[p]} : registry'[w] = registry[w]
    BY <1>6, <2>2 DEF LeaseActivate, Saves, Marked
  <2>5. \A w \in Trees : registry[w].kept <= refs[w]
    OBVIOUS
  <2>6. \A w \in Trees : registry'[w].kept <= refs[w]
    <3> HIDE DEF TypeOK, LockInv, RecordInv, TaintInv, KeptInv, HeldInv, CopyInv
    <3> QED
      BY <2>3, <2>4, <2>5
  <2>7. at'[p] = at[p] /\ copy'[p] = NoRecord /\ pc'[p] = "body" /\ refs[at[p]] \in Nat
    BY <1>6, <2>2 DEF LeaseActivate, Goes, Forgets
  <2> HIDE DEF TypeOK, LockInv, RecordInv, TaintInv, KeptInv, HeldInv, CopyInv
  <2>8. copy'[p].kept <= refs[at'[p]]
    BY <2>7
  <2> QED
    BY <2>1, <2>2, <2>6, <2>7, <2>8, WriterKeeps
<1>7. ASSUME NEW p \in Procs, LeaseFails(p) PROVE KeptInv'
  <2>1. /\ UNCHANGED <<checkout, refs, bound, sup>>
        /\ \A q \in Procs \ {p} : at'[q] = at[q] /\ copy'[q] = copy[q] /\ pc'[q] = pc[q]
    BY <1>7 DEF LeaseFails, Goes, Finishes, Turns, Forgets
  <2>2. at[p] \in Trees /\ at[p] # NoTree
    BY <1>7, TreeAssumption DEF LeaseFails
  <2>3. registry[at[p]].kept <= refs[at[p]] /\ registry \in [Trees -> Records]
    BY <2>2
  <2>4. registry'[at[p]].kept = registry[at[p]].kept /\ \A w \in Trees \ {at[p]} : registry'[w] = registry[w]
    BY <1>7, <2>2 DEF LeaseFails, Saves, Marked
  <2>5. \A w \in Trees : registry[w].kept <= refs[w]
    OBVIOUS
  <2>6. \A w \in Trees : registry'[w].kept <= refs[w]
    <3> HIDE DEF TypeOK, LockInv, RecordInv, TaintInv, KeptInv, HeldInv, CopyInv
    <3> QED
      BY <2>3, <2>4, <2>5
  <2>7. at'[p] = NoTree /\ copy'[p] = NoRecord
    BY <1>7 DEF LeaseFails, Finishes, Turns, Forgets
  <2> HIDE DEF TypeOK, LockInv, RecordInv, TaintInv, KeptInv, HeldInv, CopyInv
  <2> QED
    BY <2>1, <2>6, <2>7, WriterKeeps
<1>8. ASSUME NEW p \in Procs, LeaveRead(p) PROVE KeptInv'
  <2>1. /\ UNCHANGED <<checkout, refs, bound, sup>>
        /\ \A q \in Procs \ {p} : at'[q] = at[q] /\ copy'[q] = copy[q] /\ pc'[q] = pc[q]
    BY <1>8 DEF LeaveRead, Goes, Finishes, Turns, Forgets, disk
  <2>2. \A w \in Trees : registry'[w].kept <= refs[w]
    BY <1>8 DEF LeaveRead, disk
  <2>3. registry[at[p]].kept <= refs[at[p]]
    BY <1>8 DEF LeaveRead
  <2>4. \/ at'[p] = NoTree /\ copy'[p] = NoRecord
        \/ at'[p] = at[p] /\ copy'[p] = registry[at[p]] /\ pc'[p] = "leaving" /\ at[p] # NoTree
    BY <1>8, TreeAssumption DEF LeaveRead, Goes, Finishes, Turns, Forgets
  <2> HIDE DEF TypeOK, LockInv, RecordInv, TaintInv, KeptInv, HeldInv, CopyInv
  <2> QED
    BY <2>1, <2>2, <2>3, <2>4, WriterKeeps
<1>9. ASSUME NEW p \in Procs, LeaveSave(p) PROVE KeptInv'
  <2>1. /\ UNCHANGED <<checkout, refs, bound, sup>>
        /\ \A q \in Procs \ {p} : at'[q] = at[q] /\ copy'[q] = copy[q] /\ pc'[q] = pc[q]
    BY <1>9 DEF LeaveSave, Goes, Finishes, Turns, Forgets
  <2>2. at[p] \in Trees /\ at[p] # NoTree
    BY <1>9, TreeAssumption DEF LeaveSave
  <2>3. copy[p].kept <= refs[at[p]] /\ registry \in [Trees -> Records]
    BY <2>2
  <2>4. registry'[at[p]].kept = copy[p].kept /\ \A w \in Trees \ {at[p]} : registry'[w] = registry[w]
    BY <1>9, <2>2 DEF LeaveSave, Saves, Marked
  <2>5. \A w \in Trees : registry[w].kept <= refs[w]
    OBVIOUS
  <2>6. \A w \in Trees : registry'[w].kept <= refs[w]
    <3> HIDE DEF TypeOK, LockInv, RecordInv, TaintInv, KeptInv, HeldInv, CopyInv
    <3> QED
      BY <2>3, <2>4, <2>5
  <2>7. at'[p] = NoTree /\ copy'[p] = NoRecord
    BY <1>9 DEF LeaveSave, Finishes, Turns, Forgets
  <2> HIDE DEF TypeOK, LockInv, RecordInv, TaintInv, KeptInv, HeldInv, CopyInv
  <2> QED
    BY <2>1, <2>6, <2>7, WriterKeeps
<1>10. ASSUME NEW p \in Procs, Edit(p) PROVE KeptInv'
  <2>1. at[p] \in Trees /\ checkout[at[p]].there
    BY <1>10 DEF Edit, RecordInv, StageInv
  <2>2. /\ UNCHANGED <<registry, refs, pc, at, copy, bound, sup>>
        /\ \A v \in Trees : /\ checkout'[v].head = checkout[v].head
                            /\ checkout'[v].there = checkout[v].there
                            /\ v # at[p] => checkout'[v] = checkout[v]
    BY <1>10, <2>1 DEF Edit, process
  <2>3. ASSUME NEW v \in Trees PROVE HeldInv(v)'
    <3>1. HeldInv(v)
      OBVIOUS
    <3> HIDE DEF TypeOK, LockInv, RecordInv, TaintInv, KeptInv
    <3> QED
      BY <2>1, <2>2, <3>1
  <2>4. ASSUME NEW q \in Procs PROVE CopyInv(q)'
    <3>1. CopyInv(q) /\ (at[q] # NoTree => at[q] \in Trees)
      OBVIOUS
    <3> HIDE DEF TypeOK, LockInv, RecordInv, TaintInv, KeptInv
    <3> QED
      BY <2>2, <3>1
  <2>5. (sup # NoVerdict => sup.copy.kept <= refs[bound[sup.run]])'
    BY <2>2
  <2> HIDE DEF HeldInv, CopyInv
  <2> QED
    BY <2>3, <2>4, <2>5 DEF KeptInv
<1>11. ASSUME NEW p \in Procs, NEW keep \in BOOLEAN, CommitWork(p, keep) PROVE KeptInv'
  BY <1>11 DEF CommitWork, Committed, process
<1>12. ASSUME NEW p \in Procs, CommandStart(p) PROVE KeptInv'
  BY <1>12 DEF CommandStart, CommandFree, Goes
<1>13. ASSUME NEW p \in Procs, CommandConfirmed(p) PROVE KeptInv'
  BY <1>13 DEF CommandConfirmed, Goes
<1>14. ASSUME NEW p \in Procs, CommandUnconfirmed(p) PROVE KeptInv'
  BY <1>14 DEF CommandUnconfirmed, Saves, Marked, Goes
<1>15. ASSUME NEW p \in Procs, InPlaceEnter(p) PROVE KeptInv'
  BY <1>15 DEF InPlaceEnter, WriterShared, WriterExclusive, Goes, disk
<1>16. ASSUME NEW p \in Procs, InPlaceExit(p) PROVE KeptInv'
  BY <1>16 DEF InPlaceExit, Finishes, disk, Turns, Forgets, Goes
<1>17. ASSUME NEW p \in Procs, NEW w \in Trees, NEW commit \in 1 .. refs[w], PreserveRead(p, w, commit) PROVE KeptInv'
  <2>1. UNCHANGED <<registry, checkout, refs, bound, sup>>
    BY <1>17 DEF PreserveRead, disk
  <2>2. /\ at'[p] = w /\ pc'[p] = "preserving"
        /\ \A q \in Procs \ {p} : at'[q] = at[q] /\ copy'[q] = copy[q] /\ pc'[q] = pc[q]
    BY <1>17 DEF PreserveRead, Turns, Goes
  <2>3. copy'[p].kept <= refs[w]
    <3>1. registry[w] \in Records /\ registry[w].kept <= refs[w] /\ refs[w] \in Nat
      OBVIOUS
    <3>2. copy'[p].kept \in {registry[w].kept, commit}
      BY <1>17, <3>1 DEF PreserveRead
    <3> HIDE DEF TypeOK, LockInv, RecordInv, TaintInv, KeptInv
    <3> QED
      BY <1>17, <3>1, <3>2
  <2>4. pc'[p] = "removing" => checkout[w].head <= refs[w]
    BY <1>17, <2>2 DEF PreserveRead, Removable
  <2>5. ASSUME NEW q \in Procs PROVE CopyInv(q)'
    <3>1. CopyInv(q) /\ w # NoTree
      BY TreeAssumption
    <3> HIDE DEF TypeOK, LockInv, RecordInv, TaintInv, KeptInv
    <3> QED
      BY <2>1, <2>2, <2>3, <2>4, <3>1
  <2> HIDE DEF CopyInv
  <2> QED
    BY <2>1, <2>5
<1>18. ASSUME NEW p \in Procs, PreserveSave(p) PROVE KeptInv'
  BY <1>18 DEF PreserveSave, Saves, Finishes, Turns, Forgets, Goes
<1>19. ASSUME NEW p \in Procs, NEW w \in Trees, RemoveRead(p, w) PROVE KeptInv'
  <2>1. UNCHANGED <<registry, checkout, refs, bound, sup>>
    BY <1>19 DEF RemoveRead, disk
  <2>2. /\ at'[p] = w /\ pc'[p] = "removing"
        /\ \A q \in Procs \ {p} : at'[q] = at[q] /\ copy'[q] = copy[q] /\ pc'[q] = pc[q]
    BY <1>19 DEF RemoveRead, Turns, Goes
  <2>3. copy'[p].kept <= refs[w]
    <3>1. registry[w] \in Records /\ registry[w].kept <= refs[w] /\ refs[w] \in Nat
      OBVIOUS
    <3>2. copy'[p].kept \in {registry[w].kept}
      BY <1>19, <3>1 DEF RemoveRead
    <3> HIDE DEF TypeOK, LockInv, RecordInv, TaintInv, KeptInv
    <3> QED
      BY <1>19, <3>1, <3>2
  <2>4. pc'[p] = "removing" => checkout[w].head <= refs[w]
    BY <1>19, <2>2 DEF RemoveRead, Removable
  <2>5. ASSUME NEW q \in Procs PROVE CopyInv(q)'
    <3>1. CopyInv(q) /\ w # NoTree
      BY TreeAssumption
    <3> HIDE DEF TypeOK, LockInv, RecordInv, TaintInv, KeptInv
    <3> QED
      BY <2>1, <2>2, <2>3, <2>4, <3>1
  <2> HIDE DEF CopyInv
  <2> QED
    BY <2>1, <2>5
<1>20. ASSUME NEW p \in Procs, RemoveDetach(p) PROVE KeptInv'
  <2>1. at[p] \in Trees /\ pc[p] = "removing"
    BY <1>20 DEF RemoveDetach
  <2>2. CASE UNCHANGED checkout /\ Finishes(p)
    BY <1>20, <2>2 DEF RemoveDetach, Finishes, Turns, Goes, Forgets
  <2>3. CASE /\ ~checkout[at[p]].dirty
             /\ checkout' = [checkout EXCEPT ![at[p]].there = FALSE]
             /\ Goes(p, "detached") /\ UNCHANGED <<at, copy>>
    <3>1. /\ \A v \in Trees : checkout'[v].head = checkout[v].head
          /\ \A v \in Trees \ {at[p]} : checkout'[v] = checkout[v]
          /\ ~checkout'[at[p]].dirty
      BY <2>1, <2>3
    <3>2. /\ UNCHANGED <<registry, refs, at, copy, bound, sup>> /\ pc'[p] = "detached"
          /\ \A q \in Procs \ {p} : pc'[q] = pc[q]
      BY <1>20, <2>3 DEF RemoveDetach, Goes
    <3>3. checkout[at[p]].head <= refs[at[p]]
      BY <2>1, TreeAssumption
    <3>4. ASSUME NEW v \in Trees PROVE HeldInv(v)'
      <4>1. HeldInv(v)
        OBVIOUS
      <4> HIDE DEF TypeOK, LockInv, RecordInv, TaintInv, KeptInv
      <4> QED
        BY <3>1, <3>2, <3>3, <4>1
    <3>5. ASSUME NEW q \in Procs PROVE CopyInv(q)'
      <4>1. CopyInv(q) /\ (at[q] # NoTree => at[q] \in Trees)
        OBVIOUS
      <4> HIDE DEF TypeOK, LockInv, RecordInv, TaintInv, KeptInv
      <4> QED
        BY <3>1, <3>2, <4>1
    <3>6. (sup # NoVerdict => sup.copy.kept <= refs[bound[sup.run]])'
      BY <3>2
    <3> HIDE DEF HeldInv, CopyInv
    <3> QED
      BY <3>4, <3>5, <3>6
  <2> QED
    BY <1>20, <2>2, <2>3 DEF RemoveDetach
<1>21. ASSUME NEW p \in Procs, RemoveSave(p) PROVE KeptInv'
  BY <1>21 DEF RemoveSave, Saves, Marked, Finishes, Turns, Forgets, Goes
<1>22. ASSUME NEW p \in Procs, NEW w \in Trees, Bind(p, w) PROVE KeptInv'
  <2>1. sup # NoVerdict => sup.run \in Procs /\ sup.run # p
    BY <1>22 DEF Bind, RecordInv
  <2>2. \A q \in Procs \ {p} : bound'[q] = bound[q]
    BY <1>22 DEF Bind
  <2>3. UNCHANGED <<registry, checkout, refs, pc, at, copy, sup>>
    BY <1>22 DEF Bind, process, disk
  <2>4. (sup # NoVerdict => sup.copy.kept <= refs[bound[sup.run]])'
    BY <2>1, <2>2, <2>3
  <2> QED
    BY <2>3, <2>4
<1>23. ASSUME NEW p \in Procs, RunEnds(p) PROVE KeptInv'
  BY <1>23 DEF RunEnds, process, disk
<1>24. ASSUME NEW p \in Procs, Crash(p) PROVE KeptInv'
  BY <1>24 DEF Crash, Dies, disk, Turns, Forgets, Goes
<1>25. ASSUME NEW p \in Procs, Restart(p) PROVE KeptInv'
  BY <1>25 DEF Restart, Finishes, disk, Turns, Forgets, Goes
<1>26. ASSUME NEW p \in Procs, QuarantineRead(p) PROVE KeptInv'
  BY <1>26 DEF QuarantineRead, NoVerdict, process, disk
<1>27. ASSUME QuarantineSave PROVE KeptInv'
  BY <1>27 DEF QuarantineSave, Saves, Marked, NoVerdict, process
<1>28. ASSUME Kill PROVE KeptInv'
  BY <1>28 DEF Kill, NoVerdict, Dies, disk, Turns, Forgets, Goes
<1>29. ASSUME NEW w \in Trees, Stray(w) PROVE KeptInv'
  <2>1. w \in Trees /\ checkout[w].there
    BY <1>29 DEF Stray, TaintInv, ShutInv
  <2>2. UNCHANGED <<registry, refs, pc, at, copy, bound, sup>>
    BY <1>29 DEF Stray, process
  <2>3. ASSUME NEW v \in Trees
        PROVE  /\ checkout'[v].head = checkout[v].head
               /\ checkout'[v].there = checkout[v].there
               /\ v # w => checkout'[v] = checkout[v]
    <3>1. CASE UNCHANGED checkout
      BY <3>1
    <3>2. CASE checkout' = [checkout EXCEPT ![w].dirty = TRUE]
      BY <2>1, <3>2
    <3> QED
      BY <1>29, <3>1, <3>2 DEF Stray
  <2>4. ASSUME NEW v \in Trees PROVE HeldInv(v)'
    <3>1. HeldInv(v)
      OBVIOUS
    <3> HIDE DEF TypeOK, LockInv, RecordInv, TaintInv, KeptInv
    <3> QED
      BY <2>1, <2>2, <2>3, <3>1
  <2>5. ASSUME NEW q \in Procs PROVE CopyInv(q)'
    <3>1. CopyInv(q) /\ (at[q] # NoTree => at[q] \in Trees)
      OBVIOUS
    <3> HIDE DEF TypeOK, LockInv, RecordInv, TaintInv, KeptInv
    <3> QED
      BY <2>2, <2>3, <3>1
  <2>6. (sup # NoVerdict => sup.copy.kept <= refs[bound[sup.run]])'
    BY <2>2
  <2> HIDE DEF HeldInv, CopyInv
  <2> QED
    BY <2>4, <2>5, <2>6 DEF KeptInv
<1> QED
  <2>1. ASSUME NEW p \in Procs, Create(p) PROVE KeptInv'
    BY <2>1, <1>1, <1>2, <1>3, <1>30 DEF Create
  <2>2. ASSUME NEW p \in Procs, Lease(p) PROVE KeptInv'
    BY <2>2, <1>4, <1>5, <1>6, <1>7, <1>8, <1>9 DEF Lease
  <2>3. ASSUME NEW p \in Procs, Body(p) PROVE KeptInv'
    BY <2>3, <1>10, <1>11, <1>12, <1>13, <1>14 DEF Body
  <2>4. ASSUME NEW p \in Procs, InPlace(p) PROVE KeptInv'
    BY <2>4, <1>15, <1>16 DEF InPlace
  <2>5. ASSUME NEW p \in Procs, Preserve(p) PROVE KeptInv'
    BY <2>5, <1>17, <1>18 DEF Preserve
  <2>6. ASSUME NEW p \in Procs, Remove(p) PROVE KeptInv'
    BY <2>6, <1>19, <1>20, <1>21 DEF Remove
  <2>7. ASSUME NEW p \in Procs, Run(p) PROVE KeptInv'
    BY <2>7, <1>22, <1>23, <1>24, <1>25 DEF Run
  <2>8. CASE Supervisor
    BY <2>8, <1>26, <1>27, <1>28 DEF Supervisor
  <2> QED
    BY <2>1, <2>2, <2>3, <2>4, <2>5, <2>6, <2>7, <2>8, <1>29 DEF Next

\* Every step keeps managed commands apart.
LEMMA CommandStep ==
  ASSUME TypeOK, LockInv, RecordInv, TaintInv, CommandInv, Next
  PROVE  CommandInv'
<1> USE DEF TypeOK, LockInv, RecordInv, TaintInv, CommandInv, Holding, Stages, Leasing
<1>1. ASSUME NEW p \in Procs, NEW w \in Trees, CreateStart(p, w) PROVE CommandInv'
  BY <1>1 DEF CreateStart, RepoLocked, Saves, Marked, NoRecord, Turns, Goes
<1>2. ASSUME NEW p \in Procs, CreateCheckout(p) PROVE CommandInv'
  BY <1>2 DEF CreateCheckout
<1>3. ASSUME NEW p \in Procs, CreateEnd(p) PROVE CommandInv'
  BY <1>3 DEF CreateEnd, Saves, Marked, NoRecord, Finishes, Turns, Forgets, Goes
<1>30. ASSUME NEW p \in Procs, CreateReady(p) PROVE CommandInv'
  BY <1>30 DEF CreateReady, Goes
<1>4. ASSUME NEW p \in Procs, NEW w \in Trees, LeaseEnter(p, w) PROVE CommandInv'
  BY <1>4 DEF LeaseEnter, Enterable, Turns, disk, TreeLocked, WriterExclusive, Goes
<1>5. ASSUME NEW p \in Procs, LeaseRead(p) PROVE CommandInv'
  BY <1>5 DEF LeaseRead, Leasable, Goes, Finishes, disk, Turns, Forgets, NoRecord
<1>6. ASSUME NEW p \in Procs, LeaseActivate(p) PROVE CommandInv'
  BY <1>6 DEF LeaseActivate, Saves, Marked, Goes, Forgets, NoRecord
<1>7. ASSUME NEW p \in Procs, LeaseFails(p) PROVE CommandInv'
  BY <1>7 DEF LeaseFails, Saves, Marked, Finishes, Turns, Forgets, Goes, NoRecord
<1>8. ASSUME NEW p \in Procs, LeaveRead(p) PROVE CommandInv'
  BY <1>8 DEF LeaveRead, Goes, Finishes, disk, Turns, Forgets, NoRecord
<1>9. ASSUME NEW p \in Procs, LeaveSave(p) PROVE CommandInv'
  BY <1>9 DEF LeaveSave, Saves, Marked, Finishes, Turns, Forgets, Goes, NoRecord
<1>10. ASSUME NEW p \in Procs, Edit(p) PROVE CommandInv'
  BY <1>10 DEF Edit, process
<1>11. ASSUME NEW p \in Procs, NEW keep \in BOOLEAN, CommitWork(p, keep) PROVE CommandInv'
  BY <1>11 DEF CommitWork, Committed, process
<1>12. ASSUME NEW p \in Procs, CommandStart(p) PROVE CommandInv'
  BY <1>12 DEF CommandStart, CommandFree, Goes
<1>13. ASSUME NEW p \in Procs, CommandConfirmed(p) PROVE CommandInv'
  BY <1>13 DEF CommandConfirmed, Goes
<1>14. ASSUME NEW p \in Procs, CommandUnconfirmed(p) PROVE CommandInv'
  BY <1>14 DEF CommandUnconfirmed, Saves, Marked, Goes
<1>15. ASSUME NEW p \in Procs, InPlaceEnter(p) PROVE CommandInv'
  BY <1>15 DEF InPlaceEnter, WriterShared, WriterExclusive, Goes, disk
<1>16. ASSUME NEW p \in Procs, InPlaceExit(p) PROVE CommandInv'
  BY <1>16 DEF InPlaceExit, Finishes, disk, Turns, Forgets, Goes, NoRecord
<1>17. ASSUME NEW p \in Procs, NEW w \in Trees, NEW commit \in 1 .. refs[w], PreserveRead(p, w, commit) PROVE CommandInv'
  BY <1>17 DEF PreserveRead, TreeLocked, Turns, disk, Goes
<1>18. ASSUME NEW p \in Procs, PreserveSave(p) PROVE CommandInv'
  BY <1>18 DEF PreserveSave, Saves, Finishes, Turns, Forgets, Goes, NoRecord
<1>19. ASSUME NEW p \in Procs, NEW w \in Trees, RemoveRead(p, w) PROVE CommandInv'
  BY <1>19 DEF RemoveRead, TreeLocked, Removable, Turns, disk, Goes
<1>20. ASSUME NEW p \in Procs, RemoveDetach(p) PROVE CommandInv'
  BY <1>20 DEF RemoveDetach, RepoLocked, Goes, Finishes, Turns, Forgets, NoRecord
<1>21. ASSUME NEW p \in Procs, RemoveSave(p) PROVE CommandInv'
  BY <1>21 DEF RemoveSave, Saves, Marked, Finishes, Turns, Forgets, Goes, NoRecord
<1>22. ASSUME NEW p \in Procs, NEW w \in Trees, Bind(p, w) PROVE CommandInv'
  BY <1>22 DEF Bind, process, disk
<1>23. ASSUME NEW p \in Procs, RunEnds(p) PROVE CommandInv'
  BY <1>23 DEF RunEnds, process, disk
<1>24. ASSUME NEW p \in Procs, Crash(p) PROVE CommandInv'
  BY <1>24 DEF Crash, Dies, disk, Turns, Forgets, Goes, NoRecord
<1>25. ASSUME NEW p \in Procs, Restart(p) PROVE CommandInv'
  BY <1>25 DEF Restart, Finishes, disk, Turns, Forgets, Goes, NoRecord
<1>26. ASSUME NEW p \in Procs, QuarantineRead(p) PROVE CommandInv'
  BY <1>26 DEF QuarantineRead, NoVerdict, process, disk, NoRecord
<1>27. ASSUME QuarantineSave PROVE CommandInv'
  BY <1>27 DEF QuarantineSave, Saves, Marked, NoVerdict, process, NoRecord
<1>28. ASSUME Kill PROVE CommandInv'
  BY <1>28 DEF Kill, NoVerdict, Dies, disk, NoRecord, Turns, Forgets, Goes
<1>29. ASSUME NEW w \in Trees, Stray(w) PROVE CommandInv'
  BY <1>29 DEF Stray, process
<1> QED
  <2>1. ASSUME NEW p \in Procs, Create(p) PROVE CommandInv'
    BY <2>1, <1>1, <1>2, <1>3, <1>30 DEF Create
  <2>2. ASSUME NEW p \in Procs, Lease(p) PROVE CommandInv'
    BY <2>2, <1>4, <1>5, <1>6, <1>7, <1>8, <1>9 DEF Lease
  <2>3. ASSUME NEW p \in Procs, Body(p) PROVE CommandInv'
    BY <2>3, <1>10, <1>11, <1>12, <1>13, <1>14 DEF Body
  <2>4. ASSUME NEW p \in Procs, InPlace(p) PROVE CommandInv'
    BY <2>4, <1>15, <1>16 DEF InPlace
  <2>5. ASSUME NEW p \in Procs, Preserve(p) PROVE CommandInv'
    BY <2>5, <1>17, <1>18 DEF Preserve
  <2>6. ASSUME NEW p \in Procs, Remove(p) PROVE CommandInv'
    BY <2>6, <1>19, <1>20, <1>21 DEF Remove
  <2>7. ASSUME NEW p \in Procs, Run(p) PROVE CommandInv'
    BY <2>7, <1>22, <1>23, <1>24, <1>25 DEF Run
  <2>8. CASE Supervisor
    BY <2>8, <1>26, <1>27, <1>28 DEF Supervisor
  <2> QED
    BY <2>1, <2>2, <2>3, <2>4, <2>5, <2>6, <2>7, <2>8, <1>29 DEF Next

-----------------------------------------------------------------------------
(* The theorems *)

LEMMA GuardedInit ==
  ASSUME Init
  PROVE  TypeOK /\ Guarded
<1> USE ProcAssumption DEF Init, NoRecord, NoCheckout, NoVerdict
<1>1. TypeOK
  BY HeadAssumption DEF TypeOK, Records, Statuses, Checkouts, Stages, Leasing
<1>2. LockInv
  BY DEF LockInv, Holding, Leasing
<1>3. RecordInv
  BY DEF RecordInv, CreatingInv, StageInv, Holding, Leasing
<1>4. TaintInv
  BY DEF TaintInv
<1>5. KeptInv
  BY DEF KeptInv, HeldInv, CopyInv
<1>6. CommandInv
  BY DEF CommandInv
<1> QED
  BY <1>1, <1>2, <1>3, <1>4, <1>5, <1>6 DEF Guarded

LEMMA GuardedStutter ==
  ASSUME TypeOK, Guarded, UNCHANGED vars
  PROVE  (TypeOK /\ Guarded)'
<1> USE DEF vars
<1>1. TypeOK'
  BY DEF TypeOK
<1>2. LockInv'
  BY DEF Guarded, LockInv, Holding
<1>3. RecordInv'
  BY DEF Guarded, RecordInv, CreatingInv, StageInv, Holding
<1>4. TaintInv'
  BY DEF Guarded, TaintInv, ShutInv
<1>5. KeptInv'
  BY DEF Guarded, KeptInv, HeldInv, CopyInv
<1>6. CommandInv'
  BY DEF Guarded, CommandInv
<1> QED
  BY <1>1, <1>2, <1>3, <1>4, <1>5, <1>6 DEF Guarded

\* The file locks and the records of create, lease, command_scope, preserve,
\* remove and quarantine keep to the inductive invariant, whoever dies and when.
THEOREM WorktreesGuarded == Spec => [](TypeOK /\ Guarded)
<1>1. Init => TypeOK /\ Guarded
  BY GuardedInit
<1>2. TypeOK /\ Guarded /\ [Next]_vars => (TypeOK /\ Guarded)'
  <2> SUFFICES ASSUME TypeOK, Guarded, [Next]_vars
               PROVE  (TypeOK /\ Guarded)'
    OBVIOUS
  <2>1. CASE UNCHANGED vars
    BY <2>1, GuardedStutter
  <2>2. CASE Next
    <3>1. TypeOK'
      BY <2>2, TypeStep DEF Guarded
    <3>2. LockInv'
      BY <2>2, LockStep DEF Guarded
    <3>3. RecordInv'
      BY <2>2, RecordStep DEF Guarded
    <3>4. TaintInv'
      BY <2>2, TaintStep DEF Guarded
    <3>5. KeptInv'
      BY <2>2, <3>1, KeptStep DEF Guarded
    <3>6. CommandInv'
      BY <2>2, CommandStep DEF Guarded
    <3> QED
      BY <3>1, <3>2, <3>3, <3>4, <3>5, <3>6 DEF Guarded
  <2> QED
    BY <2>1, <2>2
<1> QED
  BY <1>1, <1>2, PTL DEF Spec

\* The ownership records, the checkouts, the stages of every process and what the
\* supervisor has read keep their types (create, lease, preserve, remove, quarantine).
THEOREM WorktreesTypes == Spec => []TypeOK
BY WorktreesGuarded, PTL

\* workspace_writer and managed_workspace_writer: no two writers of one worktree,
\* and none beside a writer of an ordinary directory.
THEOREM WritersExclusive == Spec => []OneWriter
<1>1. LockInv => OneWriter
  BY DEF LockInv, OneWriter, Writing, Holding, Leasing
<1>2. TypeOK /\ Guarded => OneWriter
  BY <1>1 DEF Guarded
<1> QED
  BY <1>2, WorktreesGuarded, PTL

\* command_scope: a managed command starts only when the processes of every
\* earlier one are known to be gone.
THEOREM ManagedCommandsExclusive == Spec => []CommandsExclusive
<1>1. CommandInv => CommandsExclusive
  BY DEF CommandInv, CommandsExclusive
<1>2. TypeOK /\ Guarded => CommandsExclusive
  BY <1>1 DEF Guarded
<1> QED
  BY <1>2, WorktreesGuarded, PTL

\* remove and preserve: a checkout disappears only with its work kept elsewhere,
\* however many deliveries and removals are under way and wherever they stop.
THEOREM WorkIsKept == Spec => []NothingLost
<1>1. KeptInv => NothingLost
  BY DEF KeptInv, HeldInv, NothingLost
<1>2. TypeOK /\ Guarded => NothingLost
  BY <1>1 DEF Guarded
<1> QED
  BY <1>2, WorktreesGuarded, PTL

\* lease and quarantine: a worktree that a writer left badly is never written
\* again, although the supervisor rewrites its record without a lock.
THEOREM ShutForGood == Spec => NeverReentered
<1> DEFINE Kept == \A p \in Procs : pc[p] = "read" /\ pc'[p] = "body" => at[p] \notin tainted
<1>1. TypeOK /\ Guarded => Kept
  BY DEF Guarded, TaintInv, ShutInv
<1>2. TypeOK /\ Guarded /\ [Next]_vars => [Kept]_vars
  BY <1>1
<1> QED
  BY <1>2, WorktreesGuarded, PTL DEF Spec, NeverReentered

-----------------------------------------------------------------------------
(* What a quarantine is worth *)

\* A process has read the record of the worktree, or begun it, and will write it.
Underway(w) ==
  \E p \in Procs :
    /\ at[p] = w
    /\ pc[p] \in {"creating", "read", "leaving", "preserving", "removing", "detached"}

Sealed(w) == registry[w].st = "quarantined" /\ ~Underway(w)

\* A step seals the worktree still if it leaves its record quarantined and brings
\* no process into the middle of an operation on it.
LEMMA StillSealed ==
  ASSUME NEW w \in Trees, Sealed(w), registry'[w].st = "quarantined",
         \A p \in Procs : at'[p] = w /\ at'[p] = at[p] => pc'[p] \in {pc[p], "body", "command", "locked"},
         \A p \in Procs : at'[p] = w => at'[p] = at[p] \/ pc'[p] = "locked"
  PROVE  Sealed(w)'
<1>1. ASSUME NEW p \in Procs, at'[p] = w
      PROVE  pc'[p] \notin {"creating", "read", "leaving", "preserving", "removing", "detached"}
  BY <1>1 DEF Sealed, Underway
<1> QED
  BY <1>1 DEF Sealed, Underway

\* Who leaves the record of the worktree alone and is not at it afterwards.
LEMMA SealedElsewhere ==
  ASSUME TypeOK, NEW w \in Trees, Sealed(w), registry'[w].st = "quarantined",
         NEW p \in Procs, NEW v \in Trees \cup {NoTree}, NEW s \in Stages,
         pc' = [pc EXCEPT ![p] = s], at' = [at EXCEPT ![p] = v],
         v = w => s \in {"body", "command", "locked"} /\ (v = at[p] \/ s = "locked")
  PROVE  Sealed(w)'
<1>1. \A q \in Procs \ {p} : pc'[q] = pc[q] /\ at'[q] = at[q]
  BY DEF TypeOK
<1>2. pc'[p] = s /\ at'[p] = v
  BY DEF TypeOK
<1> QED
  BY <1>1, <1>2, StillSealed

LEMMA SealStep ==
  ASSUME TypeOK, LockInv, RecordInv, [Next]_vars, NEW w \in Trees, Sealed(w)
  PROVE  Sealed(w)'
<1>0. w # NoTree /\ NoTree \notin Trees
  BY TreeAssumption
<1>1. ASSUME UNCHANGED <<registry, pc, at>> PROVE Sealed(w)'
  BY <1>1 DEF Sealed, Underway
<1>2. ASSUME NEW p \in Procs, NEW v \in Trees \cup {NoTree}, NEW s \in Stages,
             NEW u \in Trees \cup {NoTree}, NEW record,
             registry' = registry \/ Saves(u, record),
             u = w => registry' = registry \/ record.st = "quarantined",
             pc' = [pc EXCEPT ![p] = s], at' = [at EXCEPT ![p] = v] \/ (at' = at /\ v = at[p]),
             v = w => s \in {"body", "command", "locked"} /\ (v = at[p] \/ s = "locked")
      PROVE  Sealed(w)'
  <2>1. registry'[w].st = "quarantined"
    BY <1>2 DEF Saves, Sealed, TypeOK
  <2>2. at' = [at EXCEPT ![p] = v]
    BY <1>2 DEF TypeOK
  <2> QED
    BY <1>2, <2>1, <2>2, SealedElsewhere
<1>3. ASSUME NEW p \in Procs, at[p] = w
      PROVE  pc[p] \notin {"creating", "read", "leaving", "preserving", "removing", "detached"}
  BY <1>3 DEF Sealed, Underway
<1>4. \A p \in Procs : at[p] \in Trees \cup {NoTree}
  BY DEF TypeOK
<1>5. registry[w].st = "quarantined"
  BY DEF Sealed
<1>6. {"idle", "dead", "creating", "inspecting", "locked", "read", "body", "command", "leaving",
       "preserving", "removing", "detached", "inplace"} \subseteq Stages
  BY DEF Stages, Leasing
<1> HIDE DEF Sealed, LockInv, RecordInv
<1>7. ASSUME NEW p \in Procs, Create(p) PROVE Sealed(w)'
  <2>1. ASSUME NEW v \in Trees, CreateStart(p, v) PROVE Sealed(w)'
    BY <1>2, <1>5, <1>6, <2>1 DEF CreateStart, Turns, Goes
  <2>2. CASE CreateCheckout(p)
    BY <1>1, <2>2 DEF CreateCheckout
  <2>3. CASE CreateEnd(p)
    <3>1. Marked(NoRecord, "quarantined").st = "quarantined"
      BY DEF Marked, NoRecord
    <3> QED
      BY <1>0, <1>2, <1>4, <1>6, <2>3, <3>1 DEF CreateEnd, Finishes, Turns, Goes
  <2>4. CASE CreateReady(p)
    BY <1>2, <1>3, <1>4, <1>6, <2>4 DEF CreateReady, Goes
  <2> QED
    BY <1>7, <2>1, <2>2, <2>3, <2>4 DEF Create
<1>8. ASSUME NEW p \in Procs, Lease(p) PROVE Sealed(w)'
  <2>1. ASSUME NEW v \in Trees, LeaseEnter(p, v) PROVE Sealed(w)'
    BY <1>2, <1>6, <2>1 DEF LeaseEnter, Turns, Goes, disk
  <2>2. CASE LeaseRead(p)
    BY <1>0, <1>2, <1>4, <1>5, <1>6, <2>2
       DEF LeaseRead, Leasable, Finishes, Turns, Goes, disk
  <2>3. CASE LeaseActivate(p)
    BY <1>2, <1>3, <1>4, <1>6, <2>3 DEF LeaseActivate, Goes
  <2>4. CASE LeaseFails(p)
    <3>1. Marked(registry[at[p]], "quarantined").st = "quarantined" \/ at[p] # w
      BY DEF Marked, TypeOK, Records
    <3> QED
      BY <1>0, <1>2, <1>4, <1>6, <2>4, <3>1 DEF LeaseFails, Finishes, Turns, Goes
  <2>5. CASE LeaveRead(p)
    BY <1>0, <1>2, <1>4, <1>5, <1>6, <2>5 DEF LeaveRead, Finishes, Turns, Goes, disk
  <2>6. CASE LeaveSave(p)
    BY <1>0, <1>2, <1>3, <1>4, <1>6, <2>6 DEF LeaveSave, Finishes, Turns, Goes
  <2> QED
    BY <1>8, <2>1, <2>2, <2>3, <2>4, <2>5, <2>6 DEF Lease
<1>9. ASSUME NEW p \in Procs, Body(p) PROVE Sealed(w)'
  <2>1. CASE Edit(p) \/ \E keep \in BOOLEAN : CommitWork(p, keep)
    BY <1>1, <2>1 DEF Edit, CommitWork, process
  <2>2. CASE CommandStart(p) \/ CommandConfirmed(p)
    BY <1>2, <1>4, <1>6, <2>2 DEF CommandStart, CommandConfirmed, Goes
  <2>3. CASE CommandUnconfirmed(p)
    <3>1. Marked(registry[at[p]], "quarantined").st = "quarantined" \/ at[p] # w
      BY DEF Marked, TypeOK, Records
    <3> QED
      BY <1>2, <1>4, <1>6, <2>3, <3>1 DEF CommandUnconfirmed, Goes
  <2> QED
    BY <1>9, <2>1, <2>2, <2>3 DEF Body
<1>10. ASSUME NEW p \in Procs, InPlace(p) PROVE Sealed(w)'
  <2>1. CASE InPlaceEnter(p)
    <3>1. at[p] = NoTree
      BY <2>1 DEF InPlaceEnter, LockInv, Holding, Leasing
    <3> QED
      BY <1>0, <1>2, <1>4, <1>6, <2>1, <3>1 DEF InPlaceEnter, Goes, disk
  <2>2. CASE InPlaceExit(p)
    BY <1>0, <1>2, <1>4, <1>6, <2>2 DEF InPlaceExit, Finishes, Turns, Goes, disk
  <2> QED
    BY <1>10, <2>1, <2>2 DEF InPlace
<1>11. ASSUME NEW p \in Procs, Preserve(p) PROVE Sealed(w)'
  <2>1. ASSUME NEW v \in Trees, NEW commit, PreserveRead(p, v, commit) PROVE Sealed(w)'
    BY <1>2, <1>5, <1>6, <2>1 DEF PreserveRead, Turns, Goes, disk
  <2>2. CASE PreserveSave(p)
    BY <1>0, <1>2, <1>3, <1>4, <1>6, <2>2 DEF PreserveSave, Finishes, Turns, Goes
  <2> QED
    BY <1>11, <2>1, <2>2 DEF Preserve
<1>12. ASSUME NEW p \in Procs, Remove(p) PROVE Sealed(w)'
  <2>1. ASSUME NEW v \in Trees, RemoveRead(p, v) PROVE Sealed(w)'
    BY <1>2, <1>5, <1>6, <2>1 DEF RemoveRead, Removable, Turns, Goes, disk
  <2>2. CASE RemoveDetach(p)
    BY <1>0, <1>2, <1>3, <1>4, <1>6, <2>2 DEF RemoveDetach, Finishes, Turns, Goes
  <2>3. CASE RemoveSave(p)
    BY <1>0, <1>2, <1>3, <1>4, <1>6, <2>3 DEF RemoveSave, Finishes, Turns, Goes
  <2> QED
    BY <1>12, <2>1, <2>2, <2>3 DEF Remove
<1>13. ASSUME NEW p \in Procs, Dies(p), UNCHANGED registry PROVE Sealed(w)'
  BY <1>0, <1>2, <1>4, <1>6, <1>13 DEF Dies, Turns, Goes
<1>14. ASSUME NEW p \in Procs, Run(p) PROVE Sealed(w)'
  <2>1. ASSUME NEW v \in Trees, Bind(p, v) PROVE Sealed(w)'
    BY <1>1, <2>1 DEF Bind, process, disk
  <2>2. CASE RunEnds(p)
    BY <1>1, <2>2 DEF RunEnds, process, disk
  <2>3. CASE Crash(p)
    BY <1>13, <2>3 DEF Crash, disk
  <2>4. CASE Restart(p)
    BY <1>0, <1>2, <1>4, <1>6, <2>4 DEF Restart, Finishes, Turns, Goes, disk
  <2> QED
    BY <1>14, <2>1, <2>2, <2>3, <2>4 DEF Run
<1>15. CASE Supervisor
  <2>1. ASSUME NEW p \in Procs, QuarantineRead(p) PROVE Sealed(w)'
    BY <1>1, <2>1 DEF QuarantineRead, process, disk
  <2>2. CASE QuarantineSave
    <3>1. Marked(sup.copy, "quarantined").st = "quarantined"
      BY DEF Marked, TypeOK, Records
    <3>2. UNCHANGED <<pc, at>> /\ registry'[w].st = "quarantined"
      BY <1>5, <2>2, <3>1 DEF QuarantineSave, Saves, process, TypeOK
    <3> QED
      BY <3>2 DEF Sealed, Underway
  <2>3. CASE Kill
    <3>1. sup.run \in Procs
      BY <2>3 DEF Kill, RecordInv, NoVerdict
    <3> QED
      BY <1>1, <1>13, <2>3, <3>1 DEF Kill, disk
  <2> QED
    BY <1>15, <2>1, <2>2, <2>3 DEF Supervisor
<1>16. ASSUME NEW v \in Trees, Stray(v) PROVE Sealed(w)'
  BY <1>1, <1>16 DEF Stray, process
<1>17. CASE UNCHANGED vars
  BY <1>1, <1>17 DEF vars
<1> QED
  BY <1>7, <1>8, <1>9, <1>10, <1>11, <1>12, <1>14, <1>15, <1>16, <1>17 DEF Next

\* A quarantine written while no operation is in the middle of the worktree is
\* never taken back, and as it stays nobody is let in again: what IsolationHolds
\* may lose, it loses to an operation that had read the record before (quarantine,
\* lease, preserve, remove, create).
SealsHold == [][\A w \in Trees : Sealed(w) => Sealed(w)']_vars

\* The unlocked quarantine is for good unless it meets an operation under way.
THEOREM QuarantinesSettle == Spec => SealsHold
<1>1. TypeOK /\ Guarded /\ [Next]_vars => [\A w \in Trees : Sealed(w) => Sealed(w)']_vars
  BY SealStep DEF Guarded
<1> QED
  BY <1>1, WorktreesGuarded, PTL DEF Spec, SealsHold

=============================================================================
