--------------------------- MODULE WorktreeDelivery ---------------------------
(***************************************************************************)
(* Deliveries of runtime/worktree_delivery.py: HTTP threads check a task    *)
(* in, merge it into a candidate in a worktree of its own, verify the       *)
(* candidate with a command, and publish it as a branch.  The user moves    *)
(* the target branch at any time, the task's own runs go on, and the        *)
(* process that serves the requests may die between any two writes.         *)
(*                                                                          *)
(* The lease of a worktree is the one that module Worktrees details: here   *)
(* entering it is one step, which is possible only when the record says     *)
(* ready, and a holder that dies leaves the worktree shut.  A checkpoint    *)
(* and the fixing of the source, which do nothing but read or commit under  *)
(* the lease, are one step each.                                            *)
(*                                                                          *)
(* Bounds: the task commits at most MaxHead times, the service starts at    *)
(* most MaxBoots times.  One task, one target branch; nobody but this       *)
(* service touches the refs it creates.                                     *)
(***************************************************************************)
EXTENDS Naturals

CONSTANTS
  Deliveries,  \* delivery ids; the candidate's worktree has the same name
  Commits,     \* commits the target branch may be at
  NoCommit,
  Threads,     \* HTTP threads of the service
  NoDelivery,
  MaxHead,     \* commits of the task (bound)
  MaxBoots     \* starts of the service (bound)

ASSUME CommitAssumption == NoCommit \notin Commits
ASSUME DeliveryAssumption == NoDelivery \notin Deliveries
ASSUME BoundAssumption == MaxHead \in Nat /\ MaxBoots \in Nat

VARIABLES
  target,   \* commit of the target branch
  task,     \* the task's worktree: status, HEAD, uncommitted changes
  tree,     \* worktree of each candidate: status, what the checkout holds
  record,   \* delivery records on disk
  kept,     \* deliveries whose candidate a ref preserves
  branch,   \* deliveries whose published branch exists
  pc, job, value,  \* of a thread: what it does, for which delivery, its record
  boots     \* starts of the service

disk == <<record, kept, branch>>
thread == <<pc, job, value>>
vars == <<target, task, tree, record, kept, branch, pc, job, value, boots>>

\* A status that only get() shows is not one a record has.
Statuses == {"none", "preparing", "conflict", "prepared", "verifying",
             "verified", "failed", "published"}
Records == [st : Statuses, src : Nat, base : Commits \cup {NoCommit},
            cand : BOOLEAN,    \* candidate_sha is set
            passed : BOOLEAN,  \* verification.passed
            live : BOOLEAN]    \* operation_owner is the running process
NoRecord == [st |-> "none", src |-> 0, base |-> NoCommit,
             cand |-> FALSE, passed |-> FALSE, live |-> FALSE]

TreeStatuses == {"none", "ready", "active", "quarantined", "removed"}
Holds == {"nothing", "base", "candidate", "changed"}

Preparing == {"creating", "merging", "preserving", "recording"}
Verifying == {"verifying", "running", "judged"}
Publishing == {"exposing", "exposed"}
Stages == {"idle", "looked", "fixed"} \cup Preparing \cup Verifying \cup Publishing

TypeOK ==
  /\ target \in Commits
  /\ task \in [st : TreeStatuses, head : Nat, dirty : BOOLEAN]
  /\ tree \in [Deliveries -> [st : TreeStatuses, holds : Holds]]
  /\ record \in [Deliveries -> Records]
  /\ kept \subseteq Deliveries /\ branch \subseteq Deliveries
  /\ pc \in [Threads -> Stages]
  /\ job \in [Threads -> Deliveries \cup {NoDelivery}]
  /\ value \in [Threads -> Records]
  /\ boots \in Nat

Init ==
  /\ target \in Commits
  /\ task = [st |-> "ready", head |-> 0, dirty |-> FALSE]
  /\ tree = [d \in Deliveries |-> [st |-> "none", holds |-> "nothing"]]
  /\ record = [d \in Deliveries |-> NoRecord]
  /\ kept = {} /\ branch = {}
  /\ pc = [p \in Threads |-> "idle"]
  /\ job = [p \in Threads |-> NoDelivery]
  /\ value = [p \in Threads |-> NoRecord]
  /\ boots = 1

-----------------------------------------------------------------------------

\* The lock of a delivery, of verify() and publish() only.
Locked(d) == \E p \in Threads : job[p] = d /\ pc[p] \in Verifying \cup Publishing

Goes(p, stage) == pc' = [pc EXCEPT ![p] = stage]
Keeps(p, r) == value' = [value EXCEPT ![p] = r]
Finishes(p) ==
  /\ Goes(p, "idle") /\ Keeps(p, NoRecord)
  /\ job' = [job EXCEPT ![p] = NoDelivery]
\* Mutant: what get() shows is what is saved.
Saves_Shown(d, r) ==
  record' = [record EXCEPT ![d] =
    IF r.st = "prepared" /\ r.base # target THEN [r EXCEPT !.st = "stale"] ELSE r]

Saves(d, r) == record' = [record EXCEPT ![d] = r]
Tree(d, st, holds) == tree' = [tree EXCEPT ![d] = [st |-> st, holds |-> holds]]

\* get(): an operation whose process is gone is shown as interrupted, evidence
\* about another target as stale; nothing is written.
Displayed(d) ==
  LET r == record[d] IN
  CASE r.st \in {"preparing", "verifying"} /\ ~r.live -> "interrupted"
    [] r.st \in {"prepared", "verified", "published"} /\ r.base # target -> "stale"
    [] OTHER -> r.st

-----------------------------------------------------------------------------
(* The user and the task's own runs *)

MoveTarget ==
  /\ \E c \in Commits \ {target} : target' = c
  /\ UNCHANGED <<task, tree, boots>> /\ UNCHANGED disk /\ UNCHANGED thread

RunEnters ==
  /\ task.st = "ready" /\ task' = [task EXCEPT !.st = "active"]
  /\ UNCHANGED <<target, tree, boots>> /\ UNCHANGED disk /\ UNCHANGED thread

RunWrites ==
  /\ task.st = "active"
  /\ \/ task' = [task EXCEPT !.dirty = TRUE]
     \/ /\ task.dirty /\ task.head < MaxHead
        /\ task' = [task EXCEPT !.dirty = FALSE, !.head = @ + 1]
  /\ UNCHANGED <<target, tree, boots>> /\ UNCHANGED disk /\ UNCHANGED thread

RunLeaves ==
  /\ task.st = "active"
  /\ \E st \in {"ready", "quarantined"} : task' = [task EXCEPT !.st = st]
  /\ UNCHANGED <<target, tree, boots>> /\ UNCHANGED disk /\ UNCHANGED thread

\* checkpoint(): commit whatever the task left, under its lease.
Checkpoint(p) ==
  /\ pc[p] = "idle" /\ task.st = "ready" /\ task.dirty /\ task.head < MaxHead
  /\ task' = [task EXCEPT !.dirty = FALSE, !.head = @ + 1]
  /\ UNCHANGED <<target, tree, boots>> /\ UNCHANGED disk /\ UNCHANGED thread

-----------------------------------------------------------------------------
(* prepare() *)

Settled == task.st = "ready" /\ ~task.dirty

PrepareLook(p) ==
  /\ pc[p] = "idle" /\ Settled
  /\ Goes(p, "looked") /\ Keeps(p, [NoRecord EXCEPT !.base = target])
  /\ UNCHANGED <<target, task, tree, job, boots>> /\ UNCHANGED disk

\* A run may have entered and left since: the source is what the lease finds.
PrepareFix(p) ==
  /\ pc[p] = "looked" /\ Settled
  /\ Goes(p, "fixed") /\ Keeps(p, [value[p] EXCEPT !.src = task.head])
  /\ UNCHANGED <<target, task, tree, job, boots>> /\ UNCHANGED disk

PrepareRefused(p) ==
  /\ \/ pc[p] = "looked" /\ ~Settled
     \/ pc[p] = "fixed"      \* the first save raises
  /\ Finishes(p)
  /\ UNCHANGED <<target, task, tree, boots>> /\ UNCHANGED disk

PrepareRecord(p, d) ==
  /\ pc[p] = "fixed" /\ record[d].st = "none"
  /\ LET r == [value[p] EXCEPT !.st = "preparing", !.live = TRUE] IN
       Keeps(p, r) /\ Saves(d, r)
  /\ Goes(p, "creating") /\ job' = [job EXCEPT ![p] = d]
  /\ UNCHANGED <<target, task, tree, kept, branch, boots>>

\* The record is saved again here, with the names of the new worktree.
PrepareCreate(p) ==
  /\ pc[p] = "creating" /\ Tree(job[p], "ready", "base") /\ Goes(p, "merging")
  /\ UNCHANGED <<target, task, job, value, boots>> /\ UNCHANGED disk

PrepareMerge(p) ==
  /\ pc[p] = "merging" /\ tree[job[p]].st = "ready"
  /\ \/ /\ Tree(job[p], "ready", "changed")
        /\ Keeps(p, [value[p] EXCEPT !.st = "conflict"])
        /\ Goes(p, "recording") /\ UNCHANGED kept
     \/ /\ Tree(job[p], "ready", "candidate") /\ kept' = kept \cup {job[p]}
        /\ Keeps(p, [value[p] EXCEPT !.st = "prepared", !.cand = TRUE])
        /\ Goes(p, "preserving")
  /\ UNCHANGED <<target, task, record, branch, job, boots>>

PreparePreserve(p) ==
  /\ pc[p] = "preserving" /\ tree[job[p]].st = "ready" /\ Goes(p, "recording")
  /\ UNCHANGED <<target, task, tree, job, value, boots>> /\ UNCHANGED disk

PrepareSave(p) ==
  /\ pc[p] = "recording" /\ Saves(job[p], value[p]) /\ Finishes(p)
  /\ UNCHANGED <<target, task, tree, kept, branch, boots>>

\* Anything raises: a worktree that was under way is quarantined, and what the
\* record holds already, a candidate included, stays in it.
PrepareFails(p) ==
  /\ pc[p] \in Preparing
  /\ Saves(job[p], [value[p] EXCEPT !.st = "failed"]) /\ Finishes(p)
  /\ \/ pc[p] = "creating" /\ Tree(job[p], "quarantined", "nothing")
     \/ pc[p] = "merging" /\ Tree(job[p], "quarantined", "changed")
     \/ UNCHANGED tree
  /\ UNCHANGED <<target, task, kept, branch, boots>>

-----------------------------------------------------------------------------
(* verify() *)

\* Mutant: an operation that was cut off may be taken up again.
Verifiable_Replayed(d) ==
  /\ Displayed(d) \in {"prepared", "verified", "failed", "interrupted"}
  /\ record[d].cand /\ tree[d] = [st |-> "ready", holds |-> "candidate"]

Verifiable(d) ==
  /\ Displayed(d) \in {"prepared", "verified", "failed"}
  /\ record[d].cand /\ tree[d] = [st |-> "ready", holds |-> "candidate"]

VerifyStart(p, d) ==
  /\ pc[p] = "idle" /\ ~Locked(d) /\ Verifiable(d)
  /\ LET r == [record[d] EXCEPT !.st = "verifying", !.passed = FALSE, !.live = TRUE] IN
       Keeps(p, r) /\ Saves(d, r)
  /\ Goes(p, "verifying") /\ job' = [job EXCEPT ![p] = d]
  /\ UNCHANGED <<target, task, tree, kept, branch, boots>>

VerifyLease(p) ==
  /\ pc[p] = "verifying" /\ tree[job[p]].st = "ready"
  /\ tree' = [tree EXCEPT ![job[p]].st = "active"]
  /\ Goes(p, "running")
  /\ UNCHANGED <<target, task, job, value, boots>> /\ UNCHANGED disk

CommandWrites(p) ==
  /\ pc[p] = "running" /\ Tree(job[p], "active", "changed")
  /\ UNCHANGED <<target, task, boots>> /\ UNCHANGED disk /\ UNCHANGED thread

Unchanged(d) == tree[d].holds = "candidate"

\* exited: with code 0; confirmed: no descendant of the command is left.
CommandEnds(p, exited, confirmed) ==
  LET d == job[p]
      good == exited /\ confirmed /\ Unchanged(d) IN
  /\ pc[p] = "running"
  /\ Keeps(p, [value[p] EXCEPT !.passed = good,
                               !.st = IF good THEN "verified" ELSE "failed"])
  /\ tree' = [tree EXCEPT ![d].st = IF confirmed THEN "ready" ELSE "quarantined"]
  /\ Goes(p, "judged")
  /\ UNCHANGED <<target, task, job, boots>> /\ UNCHANGED disk

VerifySave(p) ==
  /\ pc[p] = "judged" /\ Saves(job[p], value[p]) /\ Finishes(p)
  /\ UNCHANGED <<target, task, tree, kept, branch, boots>>

VerifyFails(p) ==
  /\ pc[p] \in Verifying
  /\ Saves(job[p], [value[p] EXCEPT !.st = "failed", !.passed = FALSE]) /\ Finishes(p)
  /\ tree' = IF pc[p] = "running" THEN [tree EXCEPT ![job[p]].st = "quarantined"] ELSE tree
  /\ UNCHANGED <<target, task, kept, branch, boots>>

-----------------------------------------------------------------------------
(* publish() *)

\* Mutant: a branch left by an earlier attempt is not looked for.
PublishStage_Blind(d) == "exposing"

\* An earlier attempt may have been cut off behind the creation of the branch.
PublishStage(d) == IF d \in branch THEN "exposed" ELSE "exposing"

PublishStart(p, d) ==
  /\ pc[p] = "idle" /\ ~Locked(d)
  /\ Displayed(d) = "verified" /\ record[d].passed /\ d \in kept
  /\ Keeps(p, record[d]) /\ Goes(p, PublishStage(d))
  /\ job' = [job EXCEPT ![p] = d]
  /\ UNCHANGED <<target, task, tree, boots>> /\ UNCHANGED disk

\* Mutant: the branch is created without a second look at the target.
Exposable_Unchecked(d) == d \notin branch

\* What the ref transaction verifies and creates, as one.
Exposable(d) == d \notin branch /\ target = record[d].base

PublishExpose(p) ==
  /\ pc[p] = "exposing" /\ Exposable(job[p])
  /\ branch' = branch \cup {job[p]} /\ Goes(p, "exposed")
  /\ UNCHANGED <<target, task, tree, record, kept, job, value, boots>>

PublishRefused(p) ==
  /\ \/ pc[p] = "exposing" /\ ~Exposable(job[p])
     \/ pc[p] = "exposed"     \* the save raises
  /\ Finishes(p)
  /\ UNCHANGED <<target, task, tree, boots>> /\ UNCHANGED disk

PublishSave(p) ==
  /\ pc[p] = "exposed"
  /\ Saves(job[p], [value[p] EXCEPT !.st = "published"]) /\ Finishes(p)
  /\ UNCHANGED <<target, task, tree, kept, branch, boots>>

-----------------------------------------------------------------------------

\* remove() of a candidate's worktree: kept by its ref, or still at its base.
RemoveTree(d) ==
  /\ tree[d].st = "ready"
  /\ tree[d].holds = "base" \/ (tree[d].holds = "candidate" /\ d \in kept)
  /\ tree' = [tree EXCEPT ![d].st = "removed"]
  /\ UNCHANGED <<target, task, boots>> /\ UNCHANGED disk /\ UNCHANGED thread

\* The service dies and is started again.  Records stay as they are: their
\* owner is another process now, and a worktree under a lease stays active.
Crash ==
  /\ boots < MaxBoots /\ boots' = boots + 1
  /\ pc' = [p \in Threads |-> "idle"]
  /\ job' = [p \in Threads |-> NoDelivery]
  /\ value' = [p \in Threads |-> NoRecord]
  /\ record' = [d \in Deliveries |-> [record[d] EXCEPT !.live = FALSE]]
  /\ UNCHANGED <<target, task, tree, kept, branch>>

Prepare(p) ==
  \/ PrepareLook(p) \/ PrepareFix(p) \/ PrepareRefused(p)
  \/ \E d \in Deliveries : PrepareRecord(p, d)
  \/ PrepareCreate(p) \/ PrepareMerge(p) \/ PreparePreserve(p)
  \/ PrepareSave(p) \/ PrepareFails(p)
Verify(p) ==
  \/ \E d \in Deliveries : VerifyStart(p, d)
  \/ VerifyLease(p) \/ CommandWrites(p)
  \/ \E exited, confirmed \in BOOLEAN : CommandEnds(p, exited, confirmed)
  \/ VerifySave(p) \/ VerifyFails(p)
Publish(p) ==
  \/ \E d \in Deliveries : PublishStart(p, d)
  \/ PublishExpose(p) \/ PublishRefused(p) \/ PublishSave(p)
Environment ==
  \/ MoveTarget \/ RunEnters \/ RunWrites \/ RunLeaves \/ Crash
  \/ \E d \in Deliveries : RemoveTree(d)

Next == \/ \E p \in Threads : Checkpoint(p) \/ Prepare(p) \/ Verify(p) \/ Publish(p)
        \/ Environment

Spec == Init /\ [][Next]_vars

-----------------------------------------------------------------------------
(* Properties *)

Promise == INSTANCE DeliveryPromise WITH
  base <- [d \in Deliveries |-> record[d].base],
  intact <- {d \in Deliveries : tree[d].holds = "candidate"},
  passed <- {d \in Deliveries : record[d].passed},
  public <- branch

\* A branch becomes public only with evidence about that very candidate, and
\* while the target is the one it was merged into; evidence is recorded only of
\* a checkout nothing has changed, and nothing changes it while the evidence
\* stands (verify, publish, _update_refs).
DeliversAsPromised == Promise!Spec

\* The transaction that creates the branch never meets a branch of its own
\* delivery: one attempt at a time, and a later one finds what an earlier one
\* that died has left (publish).
ExposesOnce ==
  \A p \in Threads : pc[p] = "exposing" => job[p] \notin branch

\* An operation that died with its process is never taken up again, and what
\* has been recorded as published stays so (get, verify, publish).
OutcomesStay ==
  [][\A d \in Deliveries :
       \/ record[d].st \in {"preparing", "verifying"} /\ ~record[d].live
       \/ record[d].st \in {"published", "conflict"}
       => record'[d] \in {record[d], [record[d] EXCEPT !.live = FALSE]}]_vars

-----------------------------------------------------------------------------
(* The inductive invariant behind all of them *)

Working(p) == pc[p] \in Preparing \cup Verifying \cup Publishing

\* At most one operation of a delivery at a time, although preparing one takes
\* no lock: its record says that it is being prepared.
OneOperation ==
  \A p, q \in Threads :
    /\ Working(p) => job[p] # NoDelivery
    /\ Working(p) /\ Working(q) /\ p # q => job[p] # job[q]

\* What an operation knows of its delivery.
OperationInv(p) ==
  LET r == record[job[p]] IN
  /\ pc[p] \in {"looked", "fixed"} => value[p].base # NoCommit /\ ~value[p].passed
  /\ Working(p) => value[p].base = r.base
  /\ pc[p] \in Preparing => r.st = "preparing" /\ r.live /\ ~value[p].passed
  /\ pc[p] \in Verifying => r.st = "verifying" /\ r.live /\ ~r.passed
  /\ pc[p] \in {"preserving", "recording"} => value[p].st \in {"prepared", "conflict"}
  /\ pc[p] = "judged" => value[p].st \in {"verified", "failed"}
  /\ pc[p] = "judged" /\ value[p].passed => tree[job[p]].holds = "candidate"
  /\ pc[p] \in Publishing => r.st = "verified" /\ r.passed /\ value[p].passed
  /\ pc[p] = "exposing" => job[p] \notin branch

RecordInv(d) ==
  /\ record[d].st = "none" <=> record[d].base = NoCommit
  /\ record[d].st \in {"none", "preparing"} => d \notin branch /\ ~record[d].passed
  /\ record[d].passed => tree[d].holds = "candidate"

Sound == /\ OneOperation
         /\ \A p \in Threads : OperationInv(p)
         /\ \A d \in Deliveries : RecordInv(d)

=============================================================================
