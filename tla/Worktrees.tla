------------------------------ MODULE Worktrees ------------------------------
(***************************************************************************)
(* The managed worktrees of runtime/worktrees.py, the writer lease of       *)
(* runtime/workspace_lease.py, and the managed commands of tools/command.py.*)
(*                                                                          *)
(* Worker processes and HTTP threads share one directory of ownership       *)
(* records.  Each record is replaced atomically, but read and written in    *)
(* two steps; file locks cover most of these pairs and vanish with their    *)
(* holder.  The run supervisor quarantines the worktree of a run that did   *)
(* not end normally, without any lock.  A process may die at any point, and *)
(* a failed write is a death: it changes nothing else.                      *)
(*                                                                          *)
(* All worktrees here belong to one repository and one owner.  Bound: no    *)
(* task commits once some worktree has MaxHead of them.                     *)
(***************************************************************************)
EXTENDS Naturals

CONSTANTS
  Trees,      \* worktree ids
  NoTree,
  Workers,    \* worker processes, each executing a run
  Threads,    \* HTTP threads, which deliver and remove worktrees
  NoProc,
  MaxHead     \* task commits of a worktree (bound)

Procs == Workers \cup Threads

ASSUME TreeAssumption == NoTree \notin Trees
ASSUME ProcAssumption == NoProc \notin Procs /\ Workers \cap Threads = {}
ASSUME HeadAssumption == MaxHead \in Nat

VARIABLES
  \* on disk
  registry,   \* ownership records: status, latest commit its preserved_refs hold
  checkout,   \* the working directory: exists, HEAD, uncommitted changes
  refs,       \* latest task commit a delivery ref of the repository holds
  marker,     \* active.json: the worktree whose command is not confirmed
  \* in each process
  pc, at, copy,  \* what it is doing, on which worktree, the record it has read
  \* in the run supervisor
  bound,      \* the worktree_binding reported for the run of a process
  sup,        \* its quarantine in progress
  \* observations
  tainted,    \* worktrees some writer did not leave cleanly
  straying,   \* worktrees in which descendants of a command may still run
  isolated    \* worktrees quarantined for a run that ended abnormally

disk == <<registry, checkout, refs, marker>>
process == <<pc, at, copy>>
vars == <<registry, checkout, refs, marker, pc, at, copy, bound, sup,
          tainted, straying, isolated>>

Statuses == {"none", "creating", "ready", "active", "quarantined", "removed"}
\* Commits of a task branch are numbered from its base, 0.
Records == [st : Statuses, kept : Nat]
NoRecord == [st |-> "none", kept |-> 0]

Checkouts == [there : BOOLEAN, head : Nat, dirty : BOOLEAN]
NoCheckout == [there |-> FALSE, head |-> 0, dirty |-> FALSE]

\* The stages of a lease, between taking its locks and releasing them.
Leasing == {"locked", "read", "body", "command", "leaving"}
Stages == Leasing \cup
  {"idle", "dead", "creating", "inspecting", "preserving", "removing", "detached", "inplace"}

NoVerdict == [step |-> "idle", run |-> NoProc, copy |-> NoRecord]

TypeOK ==
  /\ registry \in [Trees -> Records]
  /\ checkout \in [Trees -> Checkouts]
  /\ refs \in [Trees -> Nat]
  /\ marker \in Trees \cup {NoTree}
  /\ pc \in [Procs -> Stages]
  /\ at \in [Procs -> Trees \cup {NoTree}]
  /\ copy \in [Procs -> Records]
  /\ bound \in [Procs -> Trees \cup {NoTree}]
  /\ sup \in [step : {"idle", "read", "saved"}, run : Procs \cup {NoProc}, copy : Records]
  /\ tainted \subseteq Trees /\ straying \subseteq Trees /\ isolated \subseteq Trees

Init ==
  /\ registry = [w \in Trees |-> NoRecord]
  /\ checkout = [w \in Trees |-> NoCheckout]
  /\ refs = [w \in Trees |-> 0]
  /\ marker = NoTree
  /\ pc = [p \in Procs |-> "idle"]
  /\ at = [p \in Procs |-> NoTree]
  /\ copy = [p \in Procs |-> NoRecord]
  /\ bound = [p \in Procs |-> NoTree]
  /\ sup = NoVerdict
  /\ tainted = {} /\ straying = {} /\ isolated = {}

-----------------------------------------------------------------------------
(* Locks: each is held exactly during the stages named here *)

TreeLocked(w) ==
  \E p \in Procs : at[p] = w /\ pc[p] \notin {"idle", "dead", "creating", "inspecting"}
RepoLocked == \E p \in Procs : pc[p] \in {"creating", "inspecting", "detached"}
\* The global writer lock, shared by managed leases, exclusive in place.
WriterShared == \E p \in Procs : pc[p] \in Leasing
WriterExclusive == \E p \in Procs : pc[p] = "inplace"

Goes(p, stage) == pc' = [pc EXCEPT ![p] = stage]
Turns(p, w, stage) == Goes(p, stage) /\ at' = [at EXCEPT ![p] = w]
Forgets(p) == copy' = [copy EXCEPT ![p] = NoRecord]
Finishes(p) == Turns(p, NoTree, "idle") /\ Forgets(p)
Saves(w, record) == registry' = [registry EXCEPT ![w] = record]
\* Mutant: the record is written anew instead of updated.
Marked_Anew(record, status) == [st |-> status]

Marked(record, status) == [record EXCEPT !.st = status]

-----------------------------------------------------------------------------
(* create *)

CreateStart(p, w) ==
  /\ pc[p] = "idle" /\ bound[p] = NoTree /\ registry[w].st = "none" /\ ~RepoLocked
  /\ Saves(w, Marked(NoRecord, "creating"))
  /\ Turns(p, w, "creating")
  /\ UNCHANGED <<checkout, refs, marker, copy, bound, sup, tainted, straying, isolated>>

\* git worktree add
CreateCheckout(p) ==
  /\ pc[p] = "creating" /\ ~checkout[at[p]].there
  /\ checkout' = [checkout EXCEPT ![at[p]].there = TRUE]
  /\ UNCHANGED <<registry, refs, marker, pc, at, copy, bound, sup, tainted, straying, isolated>>

\* Whoever lists the worktrees may use it from now on: only the lock of the
\* repository is held.
CreateReady(p) ==
  /\ pc[p] = "creating" /\ checkout[at[p]].there
  /\ Saves(at[p], Marked(NoRecord, "ready"))
  /\ Goes(p, "inspecting")
  /\ UNCHANGED <<checkout, refs, marker, at, copy, bound, sup, tainted, straying, isolated>>

\* It inspects what it has made, and quarantines it, by the record in its
\* memory, if that or anything before failed.
CreateEnd(p) ==
  /\ pc[p] \in {"creating", "inspecting"}
  /\ \/ pc[p] = "inspecting" /\ UNCHANGED registry
     \/ Saves(at[p], Marked(NoRecord, "quarantined"))
  /\ Finishes(p)
  /\ UNCHANGED <<checkout, refs, marker, bound, sup, tainted, straying, isolated>>

-----------------------------------------------------------------------------
(* lease: the writer of a worktree *)

\* Mutant: the worktree's own lock is not taken.
Enterable_Shared(w) == checkout[w].there /\ ~WriterExclusive

\* inspect succeeds and no lock is busy.
Enterable(w) == checkout[w].there /\ ~TreeLocked(w) /\ ~WriterExclusive

LeaseEnter(p, w) ==
  /\ pc[p] = "idle" /\ (p \in Workers => bound[p] = w) /\ Enterable(w)
  /\ Turns(p, w, "locked")
  /\ UNCHANGED <<copy, bound, sup, tainted, straying, isolated>> /\ UNCHANGED disk

\* Mutant: only a quarantined worktree is refused.
Leasable_Stale(record) == record.st \in {"ready", "active"}

Leasable(record) == record.st = "ready"

LeaseRead(p) ==
  /\ pc[p] = "locked"
  /\ \/ /\ Leasable(registry[at[p]])
        /\ copy' = [copy EXCEPT ![p] = registry[at[p]]]
        /\ Goes(p, "read") /\ UNCHANGED at
     \/ /\ ~Leasable(registry[at[p]])
        /\ Finishes(p)
  /\ UNCHANGED <<bound, sup, tainted, straying, isolated>> /\ UNCHANGED disk

LeaseActivate(p) ==
  /\ pc[p] = "read"
  /\ Saves(at[p], Marked(copy[p], "active"))
  /\ Goes(p, "body") /\ Forgets(p)
  /\ UNCHANGED <<checkout, refs, marker, at, bound, sup, tainted, straying, isolated>>

\* The writer changes files, or commits them; a delivery also keeps its commit
\* by a ref of its own before it gives the lease up.
Edit(p) ==
  /\ pc[p] = "body"
  /\ checkout' = [checkout EXCEPT ![at[p]].dirty = TRUE]
  /\ UNCHANGED <<registry, refs, marker, bound, sup, tainted, straying, isolated>>
  /\ UNCHANGED process

Committed(c) ==
  IF c.dirty THEN [c EXCEPT !.head = @ + 1, !.dirty = FALSE] ELSE c

CommitWork(p, keep) ==
  /\ pc[p] = "body" /\ (keep => p \in Threads)
  /\ checkout[at[p]].dirty => \A w \in Trees : checkout[w].head < MaxHead
  /\ checkout' = [checkout EXCEPT ![at[p]] = Committed(@)]
  /\ refs' = IF keep THEN [refs EXCEPT ![at[p]] = checkout'[at[p]].head] ELSE refs
  /\ UNCHANGED <<registry, marker, bound, sup, tainted, straying, isolated>>
  /\ UNCHANGED process

\* The body raised: quarantine() and release, in one step: only the supervisor
\* and the creator write the record meanwhile, and they write a quarantine too.
LeaseFails(p) ==
  /\ pc[p] = "body"
  /\ Saves(at[p], Marked(registry[at[p]], "quarantined"))
  /\ tainted' = tainted \cup {at[p]}
  /\ Finishes(p)
  /\ UNCHANGED <<checkout, refs, marker, bound, sup, straying, isolated>>

LeaveRead(p) ==
  /\ pc[p] = "body"
  /\ \/ /\ registry[at[p]].st = "active"
        /\ copy' = [copy EXCEPT ![p] = registry[at[p]]]
        /\ Goes(p, "leaving") /\ UNCHANGED at
     \/ /\ registry[at[p]].st # "active"
        /\ Finishes(p)
  /\ UNCHANGED <<bound, sup, tainted, straying, isolated>> /\ UNCHANGED disk

LeaveSave(p) ==
  /\ pc[p] = "leaving"
  /\ Saves(at[p], Marked(copy[p], "ready"))
  /\ Finishes(p)
  /\ UNCHANGED <<checkout, refs, marker, bound, sup, tainted, straying, isolated>>

\* A writer of an ordinary directory excludes every managed one.
InPlaceEnter(p) ==
  /\ pc[p] = "idle" /\ p \in Workers /\ bound[p] = NoTree
  /\ ~WriterShared /\ ~WriterExclusive
  /\ Goes(p, "inplace")
  /\ UNCHANGED <<at, copy, bound, sup, tainted, straying, isolated>> /\ UNCHANGED disk

InPlaceExit(p) ==
  /\ pc[p] = "inplace" /\ Finishes(p)
  /\ UNCHANGED <<bound, sup, tainted, straying, isolated>> /\ UNCHANGED disk

-----------------------------------------------------------------------------
(* command_scope: managed commands, one at a time for the whole service user *)

\* Mutant: the marker of an earlier command is not looked at.
CommandFree_Unmarked == \A p \in Procs : pc[p] # "command"

CommandFree == marker = NoTree /\ \A p \in Procs : pc[p] # "command"

CommandStart(p) ==
  /\ pc[p] = "body" /\ CommandFree
  /\ registry[at[p]].st \in {"ready", "active"}
  /\ marker' = at[p] /\ Goes(p, "command")
  /\ UNCHANGED <<registry, checkout, refs, at, copy, bound, sup, tainted, straying, isolated>>

CommandConfirmed(p) ==
  /\ pc[p] = "command"
  /\ marker' = NoTree /\ Goes(p, "body")
  /\ UNCHANGED <<registry, checkout, refs, at, copy, bound, sup, tainted, straying, isolated>>

\* Descendants may survive: the marker stays, the worktree is quarantined, and
\* the writer goes on with an unknown result.
CommandUnconfirmed(p) ==
  /\ pc[p] = "command"
  /\ Saves(at[p], Marked(registry[at[p]], "quarantined"))
  /\ Goes(p, "body")
  /\ tainted' = tainted \cup {at[p]}
  /\ straying' \in {straying, straying \cup {at[p]}}
  /\ UNCHANGED <<checkout, refs, marker, at, copy, bound, sup, isolated>>

Stray(w) ==
  /\ w \in straying
  /\ \/ checkout' = [checkout EXCEPT ![w].dirty = TRUE] /\ UNCHANGED straying
     \/ straying' = straying \ {w} /\ UNCHANGED checkout
  /\ UNCHANGED <<registry, refs, marker, bound, sup, tainted, isolated>> /\ UNCHANGED process

-----------------------------------------------------------------------------
(* preserve and remove *)

\* commit is one that some delivery ref holds; a ref of the base adds nothing.
PreserveRead(p, w, commit) ==
  /\ pc[p] = "idle" /\ p \in Threads /\ checkout[w].there /\ ~TreeLocked(w)
  /\ registry[w].st = "ready" /\ commit \in 1 .. refs[w]
  /\ copy' = [copy EXCEPT ![p] =
       IF commit > registry[w].kept THEN [registry[w] EXCEPT !.kept = commit] ELSE registry[w]]
  /\ Turns(p, w, "preserving")
  /\ UNCHANGED <<bound, sup, tainted, straying, isolated>> /\ UNCHANGED disk

PreserveSave(p) ==
  /\ pc[p] = "preserving" /\ Saves(at[p], copy[p]) /\ Finishes(p)
  /\ UNCHANGED <<checkout, refs, marker, bound, sup, tainted, straying, isolated>>

\* Mutant: the removal trusts that the last commit was delivered.
Removable_AnyHead(w) == registry[w].st = "ready" /\ ~checkout[w].dirty

Removable(w) ==
  /\ registry[w].st = "ready" /\ ~checkout[w].dirty
  /\ checkout[w].head <= registry[w].kept

RemoveRead(p, w) ==
  /\ pc[p] = "idle" /\ p \in Threads /\ checkout[w].there /\ ~TreeLocked(w)
  /\ Removable(w)
  /\ copy' = [copy EXCEPT ![p] = registry[w]]
  /\ Turns(p, w, "removing")
  /\ UNCHANGED <<bound, sup, tainted, straying, isolated>> /\ UNCHANGED disk

\* git worktree remove, without --force: it refuses a dirty directory.
RemoveDetach(p) ==
  /\ pc[p] = "removing" /\ ~RepoLocked
  /\ \/ /\ ~checkout[at[p]].dirty
        /\ checkout' = [checkout EXCEPT ![at[p]].there = FALSE]
        /\ Goes(p, "detached") /\ UNCHANGED <<at, copy>>
     \/ UNCHANGED checkout /\ Finishes(p)
  /\ UNCHANGED <<registry, refs, marker, bound, sup, tainted, straying, isolated>>

RemoveSave(p) ==
  /\ pc[p] = "detached"
  /\ Saves(at[p], Marked(copy[p], "removed")) /\ Finishes(p)
  /\ UNCHANGED <<checkout, refs, marker, bound, sup, tainted, straying, isolated>>

-----------------------------------------------------------------------------
(* Runs and their supervisor *)

\* A run reports its binding, created by itself or by an earlier run of its
\* session, before it enters the lease.
Bind(p, w) ==
  /\ pc[p] = "idle" /\ p \in Workers /\ bound[p] = NoTree
  /\ checkout[w].there /\ registry[w].st # "creating"
  /\ bound' = [bound EXCEPT ![p] = w]
  /\ UNCHANGED <<sup, tainted, straying, isolated>> /\ UNCHANGED process /\ UNCHANGED disk

\* The worker process exits normally.
RunEnds(p) ==
  /\ pc[p] = "idle" /\ bound[p] # NoTree /\ sup.run # p
  /\ bound' = [bound EXCEPT ![p] = NoTree]
  /\ UNCHANGED <<sup, tainted, straying, isolated>> /\ UNCHANGED process /\ UNCHANGED disk

\* _quarantine(), of a run whose process is about to be killed or is gone.
QuarantineRead(p) ==
  /\ sup = NoVerdict /\ bound[p] # NoTree
  /\ sup' = [step |-> "read", run |-> p, copy |-> registry[bound[p]]]
  /\ UNCHANGED <<bound, tainted, straying, isolated>> /\ UNCHANGED process /\ UNCHANGED disk

QuarantineSave ==
  /\ sup.step = "read"
  /\ Saves(bound[sup.run], Marked(sup.copy, "quarantined"))
  /\ IF pc[sup.run] = "dead"
       THEN /\ isolated' = isolated \cup {bound[sup.run]}
            /\ bound' = [bound EXCEPT ![sup.run] = NoTree]
            /\ sup' = NoVerdict
       ELSE sup' = [sup EXCEPT !.step = "saved"] /\ UNCHANGED <<bound, isolated>>
  /\ UNCHANGED <<checkout, refs, marker, tainted, straying>> /\ UNCHANGED process

\* What the death of a process leaves behind.
Dies(p) ==
  /\ Turns(p, NoTree, "dead") /\ Forgets(p)
  /\ tainted' = IF pc[p] \in {"body", "command"} THEN tainted \cup {at[p]} ELSE tainted
  /\ IF pc[p] = "command" THEN straying' \in {straying, straying \cup {at[p]}}
                          ELSE UNCHANGED straying

\* The forced stop that follows the quarantine; the run is reaped as any other.
Kill ==
  /\ sup.step = "saved" /\ sup' = NoVerdict
  /\ IF pc[sup.run] = "dead" THEN UNCHANGED <<pc, at, copy, tainted, straying>>
                             ELSE Dies(sup.run)
  /\ UNCHANGED <<bound, isolated>> /\ UNCHANGED disk

Crash(p) ==
  /\ pc[p] # "dead" /\ Dies(p)
  /\ UNCHANGED <<bound, sup, isolated>> /\ UNCHANGED disk

\* Another process takes the place of one that is settled.
Restart(p) ==
  /\ pc[p] = "dead" /\ bound[p] = NoTree /\ Finishes(p)
  /\ UNCHANGED <<bound, sup, tainted, straying, isolated>> /\ UNCHANGED disk

-----------------------------------------------------------------------------

Create(p) == \/ \E w \in Trees : CreateStart(p, w)
             \/ CreateCheckout(p) \/ CreateReady(p) \/ CreateEnd(p)
Body(p) == \/ Edit(p) \/ \E keep \in BOOLEAN : CommitWork(p, keep)
           \/ CommandStart(p) \/ CommandConfirmed(p) \/ CommandUnconfirmed(p)
Lease(p) == \/ \E w \in Trees : LeaseEnter(p, w)
            \/ LeaseRead(p) \/ LeaseActivate(p) \/ LeaseFails(p)
            \/ LeaveRead(p) \/ LeaveSave(p)
InPlace(p) == InPlaceEnter(p) \/ InPlaceExit(p)
Preserve(p) == \/ \E w \in Trees : \E commit \in 1 .. refs[w] : PreserveRead(p, w, commit)
               \/ PreserveSave(p)
Remove(p) == (\E w \in Trees : RemoveRead(p, w)) \/ RemoveDetach(p) \/ RemoveSave(p)
Run(p) == (\E w \in Trees : Bind(p, w)) \/ RunEnds(p) \/ Crash(p) \/ Restart(p)
Supervisor == (\E p \in Procs : QuarantineRead(p)) \/ QuarantineSave \/ Kill

Next == \/ \E p \in Procs : \/ Create(p) \/ Lease(p) \/ Body(p) \/ InPlace(p)
                            \/ Preserve(p) \/ Remove(p) \/ Run(p)
        \/ Supervisor
        \/ \E w \in Trees : Stray(w)

Spec == Init /\ [][Next]_vars

-----------------------------------------------------------------------------
(* Properties *)

Writing(p) == pc[p] \in {"body", "command", "inplace"}

\* One writer per worktree, and a writer in place excludes them all
\* (managed_workspace_writer, workspace_writer).
OneWriter ==
  \A p, q \in Procs : p # q /\ Writing(p) /\ Writing(q) =>
    at[p] # at[q] /\ "inplace" \notin {pc[p], pc[q]}

\* No writer is let in after one that raised, died, or left the end of a command
\* unconfirmed, whatever the supervisor writes in between (lease, quarantine).
NeverReentered ==
  [][\A p \in Procs : pc[p] = "read" /\ pc'[p] = "body" => at[p] \notin tainted]_vars

\* No managed command runs next to another one or next to descendants of an
\* earlier one, in any worktree (command_scope).
CommandsExclusive ==
  \A p \in Procs : pc[p] = "command" =>
    straying = {} /\ \A q \in Procs \ {p} : pc[q] # "command"

\* A checkout goes only when a delivery ref holds its last commit and nothing in
\* it is uncommitted, although the record says so only afterwards (remove).
NothingLost ==
  \A w \in Trees : ~checkout[w].there =>
    checkout[w].head <= refs[w] /\ ~checkout[w].dirty

\* Once the supervisor has quarantined the worktree of a run that ended
\* abnormally, it stays quarantined (_quarantine, lease, preserve).
IsolationHolds == \A w \in isolated : registry[w].st = "quarantined"

-----------------------------------------------------------------------------
(* The inductive invariant behind all of them but IsolationHolds *)

Holding(p) == pc[p] \in Leasing \cup {"preserving", "removing", "detached"}

\* What the locks are for.
LockInv ==
  /\ \A p \in Procs : at[p] # NoTree <=> Holding(p) \/ pc[p] \in {"creating", "inspecting"}
  /\ \A p, q \in Procs : p # q =>
       /\ Holding(p) /\ Holding(q) => at[p] # at[q]
       /\ pc[p] = "inplace" => pc[q] \notin Leasing \cup {"inplace"}

\* A worktree under creation is known to nobody else.
CreatingInv(p, q) ==
  pc[p] = "creating" =>
    /\ registry[at[p]].st = "creating"
    /\ at[q] = at[p] => q = p \/ pc[q] = "locked"

\* Whoever holds a lock has found the worktree as his stage says.
StageInv(p) ==
  /\ Holding(p) => registry[at[p]].st # "none"
  /\ pc[p] = "inspecting" => registry[at[p]].st \notin {"none", "creating"}
  /\ Holding(p) /\ pc[p] # "detached" => checkout[at[p]].there
  /\ pc[p] \in {"body", "command"} => registry[at[p]].st \in {"active", "quarantined"}
  /\ pc[p] = "preserving" => copy[p].st = "ready"
  /\ bound[p] # NoTree => registry[bound[p]].st \notin {"none", "creating"}

RecordInv ==
  /\ \A p, q \in Procs : CreatingInv(p, q)
  /\ \A p \in Procs : StageInv(p)
  /\ \A w \in Trees : registry[w].st = "none" => ~checkout[w].there
  /\ sup # NoVerdict => sup.run \in Procs /\ bound[sup.run] # NoTree

\* Nobody holds a record of such a worktree that he will write back; a writer
\* that goes on after an unconfirmed command finds it quarantined.
ShutInv(w) ==
  /\ checkout[w].there
  /\ registry[w].st \in {"active", "quarantined"}
  /\ \A p \in Procs : at[p] = w =>
       pc[p] \in {"locked", "inspecting"} \/ (pc[p] = "body" /\ registry[w].st = "quarantined")

TaintInv == straying \subseteq tainted /\ \A w \in tainted : ShutInv(w)

\* What a record says is preserved is, in every copy of it.
HeldInv(w) ==
  /\ registry[w].kept <= refs[w] /\ refs[w] <= checkout[w].head
  /\ ~checkout[w].there => checkout[w].head <= refs[w] /\ ~checkout[w].dirty

CopyInv(p) ==
  IF at[p] = NoTree THEN copy[p] = NoRecord ELSE
    /\ copy[p].kept <= refs[at[p]]
    /\ pc[p] = "removing" => checkout[at[p]].head <= refs[at[p]]

KeptInv ==
  /\ \A w \in Trees : HeldInv(w)
  /\ \A p \in Procs : CopyInv(p)
  /\ sup # NoVerdict => sup.copy.kept <= refs[bound[sup.run]]

CommandInv ==
  /\ \A p, q \in Procs : pc[p] = "command" =>
       /\ marker = at[p] /\ straying = {}
       /\ pc[q] = "command" => q = p
  /\ marker = NoTree => straying = {}

Guarded == LockInv /\ RecordInv /\ TaintInv /\ KeptInv /\ CommandInv

=============================================================================
