------------------------ MODULE WorktreeDeliveryProofs ------------------------
(***************************************************************************)
(* Deliveries keep their promise, for any number of deliveries, threads,    *)
(* commits and restarts.  Everything follows from the inductive invariant   *)
(* Sound: an operation owns its delivery, by the lock or by the status      *)
(* "preparing", and therefore what it has read still holds when it writes.  *)
(***************************************************************************)
EXTENDS WorktreeDelivery, TLAPS

USE CommitAssumption, DeliveryAssumption, BoundAssumption

LEMMA InitSound == Init => TypeOK /\ Sound
  BY DEF Init, TypeOK, Sound, OneOperation, OperationInv, RecordInv, Working,
         Records, NoRecord, Statuses, TreeStatuses, Holds, Stages, Preparing, Verifying, Publishing

\* The updates that operations make of a record.
LEMMA Updated ==
  ASSUME NEW r \in Records, NEW s \in Statuses, NEW n \in Nat,
         NEW g \in BOOLEAN, NEW l \in BOOLEAN
  PROVE  /\ [r EXCEPT !.src = n] \in Records
         /\ [r EXCEPT !.live = l] \in Records
         /\ [r EXCEPT !.st = s] \in Records
         /\ [r EXCEPT !.st = s, !.live = l] \in Records
         /\ [r EXCEPT !.st = s, !.cand = l] \in Records
         /\ [r EXCEPT !.st = s, !.passed = g] \in Records
         /\ [r EXCEPT !.passed = g, !.st = s] \in Records
         /\ [r EXCEPT !.st = s, !.passed = g, !.live = l] \in Records
BY DEF Records

LEMMA BlankRecord ==
  /\ NoRecord \in Records
  /\ \A c \in Commits : [NoRecord EXCEPT !.base = c] \in Records
BY DEF NoRecord, Records, Statuses

LEMMA TaskUpdated ==
  ASSUME NEW t \in [st : TreeStatuses, head : Nat, dirty : BOOLEAN]
  PROVE  /\ [t EXCEPT !.dirty = TRUE] \in [st : TreeStatuses, head : Nat, dirty : BOOLEAN]
         /\ [t EXCEPT !.dirty = FALSE, !.head = @ + 1]
              \in [st : TreeStatuses, head : Nat, dirty : BOOLEAN]
<1>1. t.head + 1 \in Nat
  OBVIOUS
<1> QED
  BY <1>1

\* Every step keeps the types.
LEMMA TypeStep ==
  ASSUME TypeOK, OneOperation, [Next]_vars
  PROVE  TypeOK'
<1> USE BlankRecord DEF TypeOK, TreeStatuses, Holds, Stages, Preparing, Verifying,
        Publishing, disk, thread, Goes, Keeps, Finishes, Saves, Tree
<1>1. CASE UNCHANGED vars
  BY <1>1 DEF vars
<1>2. CASE MoveTarget
  BY <1>2 DEF MoveTarget
<1>3. CASE RunEnters \/ RunLeaves
  BY <1>3 DEF RunEnters, RunLeaves
<1>4. CASE RunWrites
  BY <1>4, TaskUpdated DEF RunWrites
<1>5. CASE Crash
  <2>1. \A d \in Deliveries : [record[d] EXCEPT !.live = FALSE] \in Records
    BY Updated DEF Statuses
  <2> QED
    BY <1>5, <2>1 DEF Crash
<1>6. ASSUME NEW d \in Deliveries, RemoveTree(d) PROVE TypeOK'
  BY <1>6 DEF RemoveTree
<1>7. ASSUME NEW p \in Threads, Checkpoint(p) PROVE TypeOK'
  BY <1>7, TaskUpdated DEF Checkpoint
<1>8. ASSUME NEW p \in Threads, Prepare(p) PROVE TypeOK'
  <2>1. Working(p) => job[p] \in Deliveries
    BY DEF OneOperation
  <2>2. value[p] \in Records
    OBVIOUS
  <2>3. CASE PrepareLook(p) \/ PrepareRefused(p) \/ PreparePreserve(p)
    BY <2>3 DEF PrepareLook, PrepareRefused, PreparePreserve
  <2>4. CASE PrepareFix(p)
    <3>1. [value[p] EXCEPT !.src = task.head] \in Records
      BY <2>2, Updated DEF Statuses
    <3> QED
      BY <2>4, <3>1 DEF PrepareFix
  <2>5. ASSUME NEW d \in Deliveries, PrepareRecord(p, d) PROVE TypeOK'
    <3>1. [value[p] EXCEPT !.st = "preparing", !.live = TRUE] \in Records
      BY <2>2, Updated DEF Statuses
    <3> QED
      BY <2>5, <3>1 DEF PrepareRecord
  <2>6. CASE PrepareCreate(p)
    BY <2>1, <2>6 DEF PrepareCreate, Working
  <2>7. CASE PrepareMerge(p)
    <3>1. /\ [value[p] EXCEPT !.st = "conflict"] \in Records
          /\ [value[p] EXCEPT !.st = "prepared", !.cand = TRUE] \in Records
      BY <2>2, Updated DEF Statuses
    <3>2. value' \in [Threads -> Records]
      BY <2>7, <3>1 DEF PrepareMerge
    <3>3. kept' \subseteq Deliveries
      BY <2>1, <2>7 DEF PrepareMerge, Working
    <3>4. ASSUME NEW h \in Holds, Tree(job[p], "ready", h)
          PROVE  tree' \in [Deliveries -> [st : TreeStatuses, holds : Holds]]
      BY <3>4
    <3>5. tree' \in [Deliveries -> [st : TreeStatuses, holds : Holds]]
      BY <2>7, <3>4 DEF PrepareMerge
    <3> QED
      BY <2>7, <3>2, <3>3, <3>5 DEF PrepareMerge
  <2>8. CASE PrepareSave(p)
    BY <2>1, <2>2, <2>8 DEF PrepareSave, Working
  <2>9. CASE PrepareFails(p)
    <3>1. [value[p] EXCEPT !.st = "failed"] \in Records
      BY <2>2, Updated DEF Statuses
    <3> QED
      BY <2>1, <2>9, <3>1 DEF PrepareFails, Working
  <2> QED
    BY <1>8, <2>3, <2>4, <2>5, <2>6, <2>7, <2>8, <2>9 DEF Prepare
<1>9. ASSUME NEW p \in Threads, Verify(p) PROVE TypeOK'
  <2>1. Working(p) => job[p] \in Deliveries
    BY DEF OneOperation
  <2>2. value[p] \in Records
    OBVIOUS
  <2>3. ASSUME NEW d \in Deliveries, VerifyStart(p, d) PROVE TypeOK'
    <3>1. [record[d] EXCEPT !.st = "verifying", !.passed = FALSE, !.live = TRUE] \in Records
      BY Updated DEF Statuses
    <3> QED
      BY <2>3, <3>1 DEF VerifyStart
  <2>4. CASE VerifyLease(p) \/ CommandWrites(p)
    BY <2>1, <2>4 DEF VerifyLease, CommandWrites, Working
  <2>5. ASSUME NEW e \in BOOLEAN, NEW c \in BOOLEAN, CommandEnds(p, e, c) PROVE TypeOK'
    <3> DEFINE good == e /\ c /\ Unchanged(job[p])
               st == IF good THEN "verified" ELSE "failed"
    <3>1. good \in BOOLEAN /\ st \in Statuses
      BY DEF Statuses, Unchanged
    <3>2. [value[p] EXCEPT !.passed = good, !.st = st] \in Records
      BY <2>2, <3>1, Updated
    <3> QED
      BY <2>1, <2>5, <3>2 DEF CommandEnds, Working
  <2>6. CASE VerifySave(p)
    BY <2>1, <2>2, <2>6 DEF VerifySave, Working
  <2>7. CASE VerifyFails(p)
    <3>1. [value[p] EXCEPT !.st = "failed", !.passed = FALSE] \in Records
      BY <2>2, Updated DEF Statuses
    <3> QED
      BY <2>1, <2>7, <3>1 DEF VerifyFails, Working
  <2> QED
    BY <1>9, <2>3, <2>4, <2>5, <2>6, <2>7 DEF Verify
<1>10. ASSUME NEW p \in Threads, Publish(p) PROVE TypeOK'
  <2>1. Working(p) => job[p] \in Deliveries
    BY DEF OneOperation
  <2>2. ASSUME NEW d \in Deliveries, PublishStart(p, d) PROVE TypeOK'
    BY <2>2 DEF PublishStart, PublishStage
  <2>3. CASE PublishExpose(p) \/ PublishRefused(p)
    BY <2>1, <2>3 DEF PublishExpose, PublishRefused, Working
  <2>4. CASE PublishSave(p)
    <3>1. [value[p] EXCEPT !.st = "published"] \in Records
      BY Updated DEF Statuses
    <3> QED
      BY <2>1, <2>4, <3>1 DEF PublishSave, Working
  <2> QED
    BY <1>10, <2>2, <2>3, <2>4 DEF Publish
<1> QED
  BY <1>1, <1>2, <1>3, <1>4, <1>5, <1>6, <1>7, <1>8, <1>9, <1>10 DEF Next, Environment

-----------------------------------------------------------------------------

\* What merging changes of the record in memory, and what it does not.
LEMMA Merged ==
  ASSUME NEW r \in Records, NEW s \in {"conflict", "prepared"}
  PROVE  /\ [r EXCEPT !.st = s].base = r.base /\ [r EXCEPT !.st = s].st = s
         /\ [r EXCEPT !.st = s].passed = r.passed
         /\ [r EXCEPT !.st = s, !.cand = TRUE].base = r.base
         /\ [r EXCEPT !.st = s, !.cand = TRUE].passed = r.passed
         /\ [r EXCEPT !.st = s, !.cand = TRUE].st = s
BY DEF Records

\* Every step keeps Sound: what an operation has read is still so when it writes.
LEMMA NextSound == TypeOK /\ Sound /\ TypeOK' /\ [Next]_vars => Sound'
<1> SUFFICES ASSUME TypeOK, Sound, TypeOK', [Next]_vars PROVE Sound'
  OBVIOUS
<1> USE DEF Sound, OneOperation, OperationInv, RecordInv, Working, Preparing, Verifying,
            Publishing, disk, thread, Goes, Keeps, Finishes, Saves, Tree, NoRecord
<1>0. \A p \in Threads : Working(p) => job[p] \in Deliveries
  BY DEF TypeOK
<1>1. CASE UNCHANGED vars
  BY <1>1 DEF vars
<1>2. CASE Environment
  <2>1. CASE MoveTarget BY <2>1 DEF MoveTarget
  <2>2. CASE RunEnters BY <2>2 DEF RunEnters
  <2>3. CASE RunWrites BY <2>3 DEF RunWrites
  <2>4. CASE RunLeaves BY <2>4 DEF RunLeaves
  <2>5. CASE Crash
    <3>1. ASSUME NEW p \in Threads PROVE pc'[p] = "idle" /\ ~Working(p)'
      BY <2>5, <3>1 DEF Crash
    <3>2. ASSUME NEW d \in Deliveries PROVE RecordInv(d)'
      <4>1. /\ record'[d].st = record[d].st /\ record'[d].base = record[d].base
            /\ record'[d].passed = record[d].passed
        BY <2>5 DEF Crash, TypeOK, Records
      <4> QED
        BY <2>5, <4>1 DEF Crash
    <3> QED
      BY <3>1, <3>2
  <2>6. ASSUME NEW d \in Deliveries, RemoveTree(d) PROVE Sound'
    BY <2>6 DEF RemoveTree, TypeOK
  <2> QED BY <1>2, <2>1, <2>2, <2>3, <2>4, <2>5, <2>6 DEF Environment
<1>3. ASSUME NEW p \in Threads, Checkpoint(p) PROVE Sound'
  BY <1>3 DEF Checkpoint
<1>4. ASSUME NEW p \in Threads, Prepare(p) PROVE Sound'
  <2>1. CASE PrepareLook(p) BY <2>1 DEF PrepareLook, TypeOK
  <2>2. CASE PrepareFix(p) BY <2>2 DEF PrepareFix, TypeOK, Records
  <2>3. CASE PrepareRefused(p) BY <2>3 DEF PrepareRefused, TypeOK
  <2>4. ASSUME NEW d \in Deliveries, PrepareRecord(p, d) PROVE Sound'
    BY <2>4, <1>0 DEF PrepareRecord, TypeOK, Records
  <2>5. CASE PrepareCreate(p) BY <1>0, <2>5 DEF PrepareCreate, TypeOK
  <2>6. CASE PrepareMerge(p)
    <3>1. /\ \A q \in Threads \ {p} : value'[q] = value[q] /\ pc'[q] = pc[q]
          /\ pc'[p] \in {"preserving", "recording"}
          /\ \/ value'[p] = [value[p] EXCEPT !.st = "conflict"]
             \/ value'[p] = [value[p] EXCEPT !.st = "prepared", !.cand = TRUE]
      BY <2>6 DEF PrepareMerge, TypeOK
    <3>4. /\ value'[p].base = value[p].base /\ value'[p].passed = value[p].passed
          /\ value'[p].st \in {"prepared", "conflict"}
      <4>1. value[p] \in Records
        BY DEF TypeOK
      <4>2. CASE value'[p] = [value[p] EXCEPT !.st = "conflict"]
        BY <4>1, <4>2, Merged
      <4>3. CASE value'[p] = [value[p] EXCEPT !.st = "prepared", !.cand = TRUE]
        BY <4>1, <4>3, Merged
      <4> QED
        BY <3>1, <4>2, <4>3
    <3>2. job[p] \in Deliveries /\ \A d \in Deliveries \ {job[p]} : tree'[d] = tree[d]
      BY <1>0, <2>6 DEF PrepareMerge, TypeOK
    <3>3. record' = record /\ job' = job /\ branch' = branch /\ pc[p] = "merging"
      BY <2>6 DEF PrepareMerge
    <3> QED
      BY <1>0, <3>1, <3>2, <3>3, <3>4
  <2>7. CASE PreparePreserve(p) BY <1>0, <2>7 DEF PreparePreserve, TypeOK
  <2>8. CASE PrepareSave(p)
    <3>1. /\ job[p] \in Deliveries /\ record'[job[p]] = value[p]
          /\ \A d \in Deliveries \ {job[p]} : record'[d] = record[d]
      BY <1>0, <2>8 DEF PrepareSave, TypeOK
    <3>2. ~Working(p)' /\ pc'[p] = "idle" /\ \A q \in Threads \ {p} :
            pc'[q] = pc[q] /\ job'[q] = job[q] /\ value'[q] = value[q]
      BY <2>8 DEF PrepareSave, TypeOK
    <3>3. tree' = tree /\ branch' = branch /\ pc[p] = "recording"
      BY <2>8 DEF PrepareSave
    <3> QED
      BY <1>0, <3>1, <3>2, <3>3
  <2>9. CASE PrepareFails(p) BY <1>0, <2>9 DEF PrepareFails, TypeOK, Records
  <2> QED BY <1>4, <2>1, <2>2, <2>3, <2>4, <2>5, <2>6, <2>7, <2>8, <2>9 DEF Prepare
<1>5. ASSUME NEW p \in Threads, Verify(p) PROVE Sound'
  <2>1. ASSUME NEW d \in Deliveries, VerifyStart(p, d) PROVE Sound'
    BY <1>0, <2>1 DEF VerifyStart, Verifiable, Displayed, Locked, TypeOK, Records
  <2>2. CASE VerifyLease(p) BY <1>0, <2>2 DEF VerifyLease, TypeOK
  <2>3. CASE CommandWrites(p) BY <1>0, <2>3 DEF CommandWrites, TypeOK
  <2>4. ASSUME NEW e \in BOOLEAN, NEW c \in BOOLEAN, CommandEnds(p, e, c) PROVE Sound'
    BY <1>0, <2>4 DEF CommandEnds, Unchanged, TypeOK, Records
  <2>5. CASE VerifySave(p)
    <3>1. /\ job[p] \in Deliveries /\ record'[job[p]] = value[p]
          /\ \A d \in Deliveries \ {job[p]} : record'[d] = record[d]
      BY <1>0, <2>5 DEF VerifySave, TypeOK
    <3>2. ~Working(p)' /\ pc'[p] = "idle" /\ \A q \in Threads \ {p} :
            pc'[q] = pc[q] /\ job'[q] = job[q] /\ value'[q] = value[q]
      BY <2>5 DEF VerifySave, TypeOK
    <3>3. tree' = tree /\ branch' = branch /\ pc[p] = "judged"
      BY <2>5 DEF VerifySave
    <3> QED
      BY <1>0, <3>1, <3>2, <3>3
  <2>6. CASE VerifyFails(p) BY <1>0, <2>6 DEF VerifyFails, TypeOK, Records
  <2> QED BY <1>5, <2>1, <2>2, <2>3, <2>4, <2>5, <2>6 DEF Verify
<1>6. ASSUME NEW p \in Threads, Publish(p) PROVE Sound'
  <2>1. ASSUME NEW d \in Deliveries, PublishStart(p, d) PROVE Sound'
    BY <1>0, <2>1 DEF PublishStart, PublishStage, Displayed, Locked, TypeOK, Records
  <2>2. CASE PublishExpose(p) BY <1>0, <2>2 DEF PublishExpose, TypeOK
  <2>3. CASE PublishRefused(p) BY <1>0, <2>3 DEF PublishRefused, TypeOK
  <2>4. CASE PublishSave(p) BY <1>0, <2>4 DEF PublishSave, TypeOK, Records
  <2> QED BY <1>6, <2>1, <2>2, <2>3, <2>4 DEF Publish
<1> QED BY <1>1, <1>2, <1>3, <1>4, <1>5, <1>6 DEF Next

-----------------------------------------------------------------------------
(* Theorems *)

\* Types, and the ownership of deliveries by operations, for all constants.
THEOREM DeliveriesSound == Spec => [](TypeOK /\ Sound)
<1>1. Init => TypeOK /\ Sound
  BY InitSound
<1>2. TypeOK /\ Sound /\ [Next]_vars => (TypeOK /\ Sound)'
  BY TypeStep, NextSound DEF Sound
<1> QED
  BY <1>1, <1>2, PTL DEF Spec

\* The state of a delivery always has its type.
THEOREM DeliveriesTyped == Spec => []TypeOK
  BY DeliveriesSound, PTL

\* The transaction that creates a branch never meets one of its own delivery.
THEOREM BranchesExposedOnce == Spec => []ExposesOnce
<1>1. Sound => ExposesOnce
  BY DEF Sound, OperationInv, ExposesOnce
<1> QED
  BY <1>1, DeliveriesSound, PTL

-----------------------------------------------------------------------------

\* What is on record for good is not written again: every writer owns a record
\* that its own living process is preparing or verifying, or a verified one.
LEMMA OutcomeStep ==
  ASSUME TypeOK, Sound, [Next]_vars, NEW d \in Deliveries,
         \/ record[d].st \in {"preparing", "verifying"} /\ ~record[d].live
         \/ record[d].st \in {"published", "conflict"}
  PROVE  record'[d] \in {record[d], [record[d] EXCEPT !.live = FALSE]}
<1>0. record[d] \in Records
  BY DEF TypeOK
<1>1. Crash => record'[d] = [record[d] EXCEPT !.live = FALSE]
  BY DEF Crash
<1>2. SUFFICES ASSUME ~Crash PROVE record'[d] = record[d]
  BY <1>1
<1> USE DEF disk, Saves, Finishes
<1>3. ASSUME NEW p \in Threads, Working(p) PROVE job[p] # d
  BY <1>3 DEF Sound, OperationInv, Working, Preparing, Verifying, Publishing
<1>4. CASE UNCHANGED vars
  BY <1>4 DEF vars
<1>5. CASE Environment
  BY <1>2, <1>5 DEF Environment, MoveTarget, RunEnters, RunWrites, RunLeaves, RemoveTree
<1>6. ASSUME NEW p \in Threads, Checkpoint(p) PROVE record'[d] = record[d]
  BY <1>6 DEF Checkpoint
<1>7. ASSUME NEW p \in Threads, Prepare(p) PROVE record'[d] = record[d]
  <2>1. \A e \in Deliveries : PrepareRecord(p, e) => e # d
    BY <1>0 DEF PrepareRecord, Records
  <2>2. PrepareSave(p) \/ PrepareFails(p) => job[p] # d
    BY <1>3 DEF PrepareSave, PrepareFails, Working, Preparing
  <2> QED
    BY <1>7, <2>1, <2>2 DEF Prepare, TypeOK, PrepareLook, PrepareFix, PrepareRefused,
       PrepareRecord, PrepareCreate, PrepareMerge, PreparePreserve, PrepareSave, PrepareFails
<1>8. ASSUME NEW p \in Threads, Verify(p) PROVE record'[d] = record[d]
  <2>1. \A e \in Deliveries : VerifyStart(p, e) => e # d
    BY DEF VerifyStart, Verifiable, Displayed
  <2>2. VerifySave(p) \/ VerifyFails(p) => job[p] # d
    BY <1>3 DEF VerifySave, VerifyFails, Working, Verifying
  <2> QED
    BY <1>8, <2>1, <2>2 DEF Verify, TypeOK, VerifyStart, VerifyLease, CommandWrites,
       CommandEnds, VerifySave, VerifyFails
<1>9. ASSUME NEW p \in Threads, Publish(p) PROVE record'[d] = record[d]
  <2>1. PublishSave(p) => job[p] # d
    BY <1>3 DEF PublishSave, Working, Publishing
  <2> QED
    BY <1>9, <2>1 DEF Publish, TypeOK, PublishStart, PublishExpose, PublishRefused, PublishSave
<1> QED
  BY <1>4, <1>5, <1>6, <1>7, <1>8, <1>9 DEF Next

\* An operation that died is never taken up again; what is published stays so.
THEOREM DeliveryOutcomesStay == Spec => OutcomesStay
<1>1. TypeOK /\ Sound /\ [Next]_vars =>
        [\A d \in Deliveries :
           \/ record[d].st \in {"preparing", "verifying"} /\ ~record[d].live
           \/ record[d].st \in {"published", "conflict"}
           => record'[d] \in {record[d], [record[d] EXCEPT !.live = FALSE]}]_vars
  BY OutcomeStep
<1> QED
  BY <1>1, DeliveriesSound, PTL DEF Spec, OutcomesStay

-----------------------------------------------------------------------------

(* Refinement.  The promise sees of a delivery only these three facts. *)

SameBase(d) == record'[d].base = record[d].base
SameHolds(d) == (tree'[d].holds = "candidate") <=> (tree[d].holds = "candidate")
SamePassed(d) == record'[d].passed <=> record[d].passed
Same(d) == SameBase(d) /\ SameHolds(d) /\ SamePassed(d)

LEMMA Stutters ==
  ASSUME target' = target, branch' = branch, \A d \in Deliveries : Same(d)
  PROVE  UNCHANGED Promise!vars
BY DEF Promise!vars, Same, SameBase, SameHolds, SamePassed

\* A step that changes one delivery d, in one respect.
LEMMA OneChange ==
  ASSUME NEW d \in Deliveries, target' = target, TypeOK, TypeOK', Sound,
         \A e \in Deliveries \ {d} : Same(e)
  PROVE  /\ branch' = branch /\ SameHolds(d) /\ SamePassed(d)
              /\ record[d].base = NoCommit /\ record'[d].base \in Commits
            => Promise!Fix(d)
         /\ branch' = branch /\ SameBase(d) /\ SamePassed(d) /\ record[d].base # NoCommit
              /\ tree'[d].holds = "candidate"
            => Promise!Merge(d)
         /\ branch' = branch /\ SameBase(d) /\ SamePassed(d) /\ ~record[d].passed
              /\ tree'[d].holds # "candidate"
            => Promise!Disturb(d)
         /\ branch' = branch /\ SameBase(d) /\ SameHolds(d) /\ record'[d].passed
              /\ tree[d].holds = "candidate"
            => Promise!Pass(d)
         /\ branch' = branch /\ SameBase(d) /\ SameHolds(d) /\ ~record'[d].passed
            => Promise!Withdraw(d)
         /\ Same(d) /\ branch' = branch \cup {d} /\ record[d].passed /\ record[d].base = target
            => Promise!Expose(d)
<1> USE DEF Same, SameBase, SameHolds, SamePassed
<1>1. branch' = branch /\ SameHolds(d) /\ SamePassed(d)
        /\ record[d].base = NoCommit /\ record'[d].base \in Commits => Promise!Fix(d)
  BY DEF Promise!Fix
<1>2. branch' = branch /\ SameBase(d) /\ SamePassed(d) /\ record[d].base # NoCommit
        /\ tree'[d].holds = "candidate" => Promise!Merge(d)
  BY DEF Promise!Merge
<1>3. branch' = branch /\ SameBase(d) /\ SamePassed(d) /\ ~record[d].passed
        /\ tree'[d].holds # "candidate" => Promise!Disturb(d)
  BY DEF Promise!Disturb
<1>4. branch' = branch /\ SameBase(d) /\ SameHolds(d) /\ record'[d].passed
        /\ tree[d].holds = "candidate" => Promise!Pass(d)
  BY DEF Promise!Pass
<1>5. branch' = branch /\ SameBase(d) /\ SameHolds(d) /\ ~record'[d].passed => Promise!Withdraw(d)
  BY DEF Promise!Withdraw
<1>6. Same(d) /\ branch' = branch \cup {d} /\ record[d].passed /\ record[d].base = target
        => Promise!Expose(d)
  BY DEF Promise!Expose
<1> QED
  BY <1>1, <1>2, <1>3, <1>4, <1>5, <1>6

\* Every step is one that the promise allows, or changes nothing it sees.
LEMMA PromiseStep ==
  ASSUME TypeOK, Sound, TypeOK', Sound', [Next]_vars
  PROVE  [Promise!Next]_(Promise!vars)
<1> USE DEF disk, thread, Saves, Finishes, Tree, Goes, Keeps, Same, SameBase, SameHolds, SamePassed
<1>0. ASSUME NEW p \in Threads, Working(p) PROVE job[p] \in Deliveries
  BY <1>0 DEF Sound, OneOperation, TypeOK
<1>r. \A d \in Deliveries : record[d] \in Records
  BY DEF TypeOK
<1>1. CASE UNCHANGED vars
  BY <1>1, Stutters DEF vars
<1>2. CASE Environment
  <2>1. CASE MoveTarget
    BY <2>1 DEF MoveTarget, TypeOK, Promise!Next, Promise!MoveTarget
  <2>2. CASE RunEnters \/ RunWrites \/ RunLeaves
    BY <2>2, Stutters DEF RunEnters, RunWrites, RunLeaves
  <2>3. CASE Crash
    <3>1. \A d \in Deliveries : Same(d)
      BY <1>r, <2>3 DEF Crash, Records
    <3> QED
      BY <2>3, <3>1, Stutters DEF Crash
  <2>4. ASSUME NEW d \in Deliveries, RemoveTree(d) PROVE UNCHANGED Promise!vars
    <3>1. \A e \in Deliveries : Same(e)
      BY <2>4 DEF RemoveTree, TypeOK
    <3> QED
      BY <2>4, <3>1, Stutters DEF RemoveTree
  <2> QED
    BY <1>2, <2>1, <2>2, <2>3, <2>4 DEF Environment
<1>3. ASSUME NEW p \in Threads, Checkpoint(p) PROVE UNCHANGED Promise!vars
  BY <1>3, Stutters DEF Checkpoint
<1>4. ASSUME NEW p \in Threads, Prepare(p) PROVE [Promise!Next]_(Promise!vars)
  <2>1. CASE PrepareLook(p) \/ PrepareFix(p) \/ PrepareRefused(p) \/ PreparePreserve(p)
    BY <2>1, Stutters DEF PrepareLook, PrepareFix, PrepareRefused, PreparePreserve
  <2>2. ASSUME NEW d \in Deliveries, PrepareRecord(p, d) PROVE Promise!Fix(d)
    <3>1. value[p].base # NoCommit /\ ~value[p].passed /\ value[p] \in Records
      BY <2>2 DEF PrepareRecord, Sound, OperationInv, TypeOK
    <3>2. record[d].base = NoCommit /\ ~record[d].passed
      BY <2>2 DEF PrepareRecord, Sound, RecordInv
    <3>3. record'[d] = [value[p] EXCEPT !.st = "preparing", !.live = TRUE]
      BY <2>2 DEF PrepareRecord, TypeOK
    <3>4. record'[d].base \in Commits /\ ~record'[d].passed
      BY <3>1, <3>3 DEF Records
    <3>5. \A e \in Deliveries \ {d} : Same(e)
      BY <2>2 DEF PrepareRecord, TypeOK
    <3>6. target' = target /\ tree' = tree /\ branch' = branch
      BY <2>2 DEF PrepareRecord
    <3> QED
      BY <3>2, <3>4, <3>5, <3>6, OneChange
  <2>3. CASE PrepareCreate(p) \/ PrepareMerge(p)
    <3>0. PICK d \in Deliveries : d = job[p]
      BY <1>0, <2>3 DEF PrepareCreate, PrepareMerge, Working, Preparing, Verifying, Publishing
    <3>1. d \in Deliveries /\ ~record[d].passed /\ record[d].base # NoCommit
      BY <3>0, <1>0, <2>3 DEF PrepareCreate, PrepareMerge, Sound, OperationInv, RecordInv, Working, Preparing
    <3>2. target' = target /\ record' = record /\ branch' = branch
      BY <3>0, <2>3 DEF PrepareCreate, PrepareMerge
    <3>3. \A e \in Deliveries \ {d} : Same(e)
      BY <3>0, <2>3, <3>2 DEF PrepareCreate, PrepareMerge, TypeOK
    <3>4. Promise!Merge(d) \/ Promise!Disturb(d)
      BY <3>0, <3>1, <3>2, <3>3, OneChange
    <3> QED
      BY <3>0, <3>1, <3>4 DEF Promise!Next
  <2>4. CASE PrepareSave(p)
    <3>0. PICK d \in Deliveries : d = job[p]
      BY <1>0, <2>4 DEF PrepareSave, Working, Preparing, Verifying, Publishing
    <3>1. /\ d \in Deliveries /\ ~record[d].passed /\ ~value[p].passed
          /\ value[p].base = record[d].base
      BY <3>0, <1>0, <2>4 DEF PrepareSave, Sound, OperationInv, RecordInv, Working, Preparing
    <3>2. \A e \in Deliveries : Same(e)
      BY <3>0, <2>4, <3>1 DEF PrepareSave, TypeOK
    <3> QED
      BY <3>0, <2>4, <3>2, Stutters DEF PrepareSave
  <2>5. CASE PrepareFails(p)
    <3>0. PICK d \in Deliveries : d = job[p]
      BY <1>0, <2>5 DEF PrepareFails, Working, Preparing, Verifying, Publishing
    <3>1. /\ d \in Deliveries /\ ~record[d].passed /\ ~value[p].passed
          /\ value[p].base = record[d].base /\ value[p] \in Records
      BY <3>0, <1>0, <2>5 DEF PrepareFails, Sound, OperationInv, RecordInv, Working, Preparing, TypeOK
    <3>2. record'[d] = [value[p] EXCEPT !.st = "failed"]
      BY <3>0, <2>5, <3>1 DEF PrepareFails, TypeOK
    <3>3. SameBase(d) /\ SamePassed(d) /\ \A e \in Deliveries \ {d} : SameBase(e) /\ SamePassed(e)
      BY <3>0, <2>5, <3>1, <3>2 DEF PrepareFails, TypeOK, Records
    <3>4. target' = target /\ branch' = branch
      BY <3>0, <2>5 DEF PrepareFails
    <3>5. CASE UNCHANGED tree
      BY <3>0, <3>3, <3>4, <3>5, Stutters
    <3>6. CASE tree'[d].holds # "candidate" /\ \A e \in Deliveries \ {d} : tree'[e] = tree[e]
      <4>1. Promise!Disturb(d)
        BY <3>0, <3>1, <3>3, <3>4, <3>6, OneChange
      <4> QED
        BY <3>0, <3>1, <4>1 DEF Promise!Next
    <3> QED
      BY <3>0, <2>5, <3>1, <3>5, <3>6 DEF PrepareFails, TypeOK
  <2> QED
    BY <1>4, <2>1, <2>2, <2>3, <2>4, <2>5 DEF Prepare, Promise!Next
<1>5. ASSUME NEW p \in Threads, Verify(p) PROVE [Promise!Next]_(Promise!vars)
  <2>1. ASSUME NEW d \in Deliveries, VerifyStart(p, d) PROVE Promise!Withdraw(d)
    <3>1. record'[d] = [record[d] EXCEPT !.st = "verifying", !.passed = FALSE, !.live = TRUE]
      BY <2>1 DEF VerifyStart, TypeOK
    <3>2. SameBase(d) /\ ~record'[d].passed
      BY <1>r, <3>1 DEF Records
    <3>3. \A e \in Deliveries \ {d} : Same(e)
      BY <2>1 DEF VerifyStart, TypeOK
    <3>4. target' = target /\ tree' = tree /\ branch' = branch
      BY <2>1 DEF VerifyStart
    <3> QED
      BY <3>2, <3>3, <3>4, OneChange
  <2>2. CASE VerifyLease(p)
    <3>1. \A e \in Deliveries : Same(e)
      BY <2>2 DEF VerifyLease, TypeOK
    <3> QED
      BY <2>2, <3>1, Stutters DEF VerifyLease
  <2>3. CASE CommandWrites(p)
    <3>0. PICK d \in Deliveries : d = job[p]
      BY <1>0, <2>3 DEF CommandWrites, Working, Preparing, Verifying, Publishing
    <3>1. d \in Deliveries /\ ~record[d].passed
      BY <3>0, <1>0, <2>3 DEF CommandWrites, Sound, OperationInv, Working, Verifying
    <3>2. target' = target /\ record' = record /\ branch' = branch
      BY <3>0, <2>3 DEF CommandWrites
    <3>3. tree'[d].holds # "candidate" /\ \A e \in Deliveries \ {d} : Same(e)
      BY <3>0, <2>3, <3>1, <3>2 DEF CommandWrites, TypeOK
    <3>4. Promise!Disturb(d)
      BY <3>0, <3>1, <3>2, <3>3, OneChange
    <3> QED
      BY <3>0, <3>1, <3>4 DEF Promise!Next
  <2>4. ASSUME NEW e \in BOOLEAN, NEW c \in BOOLEAN, CommandEnds(p, e, c)
        PROVE  UNCHANGED Promise!vars
    <3>1. \A d \in Deliveries : Same(d)
      BY <2>4 DEF CommandEnds, TypeOK
    <3> QED
      BY <2>4, <3>1, Stutters DEF CommandEnds
  <2>5. CASE VerifySave(p)
    <3>0. PICK d \in Deliveries : d = job[p]
      BY <1>0, <2>5 DEF VerifySave, Working, Preparing, Verifying, Publishing
    <3>1. /\ d \in Deliveries /\ value[p].base = record[d].base
          /\ value[p].passed => tree[d].holds = "candidate"
      BY <3>0, <1>0, <2>5 DEF VerifySave, Sound, OperationInv, Working, Verifying
    <3>2. target' = target /\ tree' = tree /\ branch' = branch
      BY <3>0, <2>5 DEF VerifySave
    <3>3. record'[d] = value[p] /\ \A e \in Deliveries \ {d} : Same(e)
      BY <3>0, <2>5, <3>1 DEF VerifySave, TypeOK
    <3>4. Promise!Pass(d) \/ Promise!Withdraw(d)
      BY <3>0, <3>1, <3>2, <3>3, OneChange
    <3> QED
      BY <3>0, <3>1, <3>4 DEF Promise!Next
  <2>6. CASE VerifyFails(p)
    <3>0. PICK d \in Deliveries : d = job[p]
      BY <1>0, <2>6 DEF VerifyFails, Working, Preparing, Verifying, Publishing
    <3>1. /\ d \in Deliveries /\ value[p].base = record[d].base /\ value[p] \in Records
          /\ ~record[d].passed
      BY <3>0, <1>0, <2>6 DEF VerifyFails, Sound, OperationInv, Working, Verifying, TypeOK
    <3>2. record'[d] = [value[p] EXCEPT !.st = "failed", !.passed = FALSE]
      BY <3>0, <2>6, <3>1 DEF VerifyFails, TypeOK
    <3>3. \A e \in Deliveries : SameBase(e) /\ SamePassed(e)
      BY <3>0, <2>6, <3>1, <3>2 DEF VerifyFails, TypeOK, Records
    <3>4. \A e \in Deliveries : SameHolds(e)
      BY <3>0, <2>6, <3>1 DEF VerifyFails, TypeOK
    <3> QED
      BY <3>0, <2>6, <3>3, <3>4, Stutters DEF VerifyFails
  <2> QED
    BY <1>5, <2>1, <2>2, <2>3, <2>4, <2>5, <2>6 DEF Verify, Promise!Next
<1>6. ASSUME NEW p \in Threads, Publish(p) PROVE [Promise!Next]_(Promise!vars)
  <2>1. CASE PublishRefused(p) \/ \E d \in Deliveries : PublishStart(p, d)
    BY <2>1, Stutters DEF PublishRefused, PublishStart
  <2>2. CASE PublishExpose(p)
    <3>0. PICK d \in Deliveries : d = job[p]
      BY <1>0, <2>2 DEF PublishExpose, Working, Preparing, Verifying, Publishing
    <3>1. d \in Deliveries /\ record[d].passed
      BY <3>0, <1>0, <2>2 DEF PublishExpose, Sound, OperationInv, Working, Publishing
    <3>2. Promise!Expose(d)
      BY <3>0, <2>2, <3>1, OneChange DEF PublishExpose, Exposable
    <3> QED
      BY <3>0, <3>1, <3>2 DEF Promise!Next
  <2>3. CASE PublishSave(p)
    <3>0. PICK d \in Deliveries : d = job[p]
      BY <1>0, <2>3 DEF PublishSave, Working, Preparing, Verifying, Publishing
    <3>1. /\ d \in Deliveries /\ value[p].base = record[d].base /\ value[p] \in Records
          /\ record[d].passed /\ value[p].passed
      BY <3>0, <1>0, <2>3 DEF PublishSave, Sound, OperationInv, Working, Publishing, TypeOK
    <3>2. record'[d] = [value[p] EXCEPT !.st = "published"]
      BY <3>0, <2>3, <3>1 DEF PublishSave, TypeOK
    <3>3. \A e \in Deliveries : Same(e)
      BY <3>0, <2>3, <3>1, <3>2 DEF PublishSave, TypeOK, Records
    <3> QED
      BY <3>0, <2>3, <3>3, Stutters DEF PublishSave
  <2> QED
    BY <1>6, <2>1, <2>2, <2>3 DEF Publish
<1> QED
  BY <1>1, <1>2, <1>3, <1>4, <1>5, <1>6 DEF Next

\* The promise is kept, for any number of deliveries, threads and restarts.
THEOREM PromiseKept == Spec => DeliversAsPromised
<1>1. Init => Promise!Init
  BY DEF Init, NoRecord, Promise!Init
<1>2. TypeOK /\ Sound /\ TypeOK' /\ Sound' /\ [Next]_vars => [Promise!Next]_(Promise!vars)
  BY PromiseStep
<1> QED
  BY <1>1, <1>2, DeliveriesSound, PTL DEF Spec, DeliversAsPromised, Promise!Spec

=============================================================================
