--------------------------- MODULE SemanticMemory ---------------------------
(***************************************************************************)
(* Governed long-term memory: the rows of memory/postgres_repository.py,   *)
(* the commands of memory/command_service.py and web/memory_management.py, *)
(* and the outbox that memory/index_sync.py carries to the vector index.   *)
(*                                                                         *)
(* Every run is a process of its own, so commands and synchronizers        *)
(* interleave.  A command reads, decides, and then commits one             *)
(* transaction.  A synchronizer claims events, looks the memory up,        *)
(* changes the index and completes the event, in four steps.  All memories *)
(* are of one owner and one kind; which texts are alike is left open.      *)
(***************************************************************************)
EXTENDS Naturals, FiniteSets

CONSTANTS Memories,      \* ids of memory rows
          None,          \* no id
          Writers,       \* callers of the command service and the console
          Synchronizers, \* callers of drain()
          Limit,         \* events claimed at once
          MaxCommands,   \* bound on the commands of a behaviour
          MaxExpired,    \* bound on the memories that expire
          MaxGiven       \* bound on the memories at the start

ASSUME MemoryAssumption ==
  /\ None \notin Memories /\ Limit \in Nat \ {0}
  /\ MaxCommands \in Nat /\ MaxExpired \in Nat /\ MaxGiven \in Nat

VARIABLES
  item,                        \* memory_items, with their unverified evidence
  plan,                        \* what each writer read and is about to commit
  commands,                    \* how many commands there were
  due, processing, completed,  \* memory_index_outbox by status
  forfeited,                   \* history: claimed by a drain that ended
  index,                       \* the points of the vector index
  sync                         \* where each drain() stands

outbox == <<due, processing, completed, forfeited>>
vars == <<item, plan, commands, due, processing, completed, forfeited, index, sync>>

Statuses == {"candidate", "active", "superseded", "revoked", "rejected"}
Ended == {"superseded", "revoked", "rejected"}

(* ALLOWED_TRANSITIONS; nothing ever asks for expired.                     *)
Allowed(status) ==
  CASE status = "candidate" -> {"active", "rejected", "revoked"}
    [] status = "active"    -> {"superseded", "revoked"}
    [] OTHER                -> {}

Point == [memory : Memories, version : Nat]
Event == [memory : Memories, version : Nat, op : {"upsert", "delete"}]

\* expired: valid_until has passed; unverified: whose proposals are evidence.
Row == [status : Statuses \cup {"absent"}, version : Nat, expired : BOOLEAN,
        unverified : SUBSET Writers, prev : Memories \cup {None}]
Given(status) == [status |-> status, expired |-> FALSE, unverified |-> {},
                  version |-> IF status = "absent" THEN 0 ELSE 1, prev |-> None]
Absent == Given("absent")

Exists(m) == item[m].status # "absent"
IsActive(m) == item[m].status = "active"

(* MemoryItem.is_retrievable at the present moment.                        *)
Retrievable(m) == IsActive(m) /\ ~item[m].expired

PointOf(m) == [memory |-> m, version |-> item[m].version]

---------------------------------------------------------------------------
(* Commands: what was read.                                                *)

(* goal is the status the caller wants; an inferred source is a proposal   *)
(* of the model.                                                           *)
Plan == [op : {"create", "merge", "supersede", "transition"},
         target : Memories \cup {None}, version : Nat,
         goal : Statuses, source : {"inferred", "user"}]
NoPlan == [op |-> "none"]

Plans(w, op, m, goal, source) ==
  /\ plan[w] = NoPlan /\ commands < MaxCommands
  /\ commands' = commands + 1
  /\ plan' = [plan EXCEPT ![w] =
       [op |-> op, target |-> m, goal |-> goal, source |-> source,
        version |-> IF m = None THEN 0 ELSE item[m].version]]
  /\ UNCHANGED <<item, outbox, index, sync>>

(* propose(): merges into a candidate with the same text, or creates one.  *)
Propose(w) ==
  \/ \E m \in Memories :
       /\ item[m].status = "candidate" /\ ~item[m].expired
       /\ Plans(w, "merge", m, "candidate", "inferred")
  \/ Plans(w, "create", None, "candidate", "inferred")

(* remember(): an explicit request of the user.  The conflict service      *)
(* merges, corrects, or is uncertain, which makes a candidate.             *)
Remember(w) ==
  \/ \E m \in Memories : Retrievable(m) /\ Plans(w, "merge", m, "active", "user")
  \/ \E m \in Memories : Retrievable(m) /\ Plans(w, "create", None, "candidate", "user")
  \/ Plans(w, "create", None, "active", "user")

(* update(), which does not mind that the memory has expired, and          *)
(* remember() of what corrects a retrievable one.                          *)
Correct(w) ==
  \E m \in Memories : IsActive(m) /\ Plans(w, "supersede", m, "active", "user")

Confirm(w) ==
  \E m \in Memories :
    Exists(m) /\ ~item[m].expired /\ Plans(w, "transition", m, "active", "user")

Reject(w) ==
  \E m \in Memories : Exists(m) /\ Plans(w, "transition", m, "rejected", "user")

Revoke(w) ==
  \E m \in Memories : Exists(m) /\ Plans(w, "transition", m, "revoked", "user")

(* The person decides in a conversation, or on the page that he has in     *)
(* front of him, which asks for the same and refuses a little more.        *)
Review(w) == Confirm(w) \/ Reject(w) \/ Revoke(w)

---------------------------------------------------------------------------
(* Commands: the transaction.                                              *)

(* Under the lock of the row: it still has the version that was read.      *)
Unchanged(w) == item[plan[w].target].version = plan[w].version

NewRow(w, version, prev, expired) ==
  [status |-> plan[w].goal, version |-> version, expired |-> expired,
   unverified |-> IF plan[w].source = "inferred" THEN {w} ELSE {},
   prev |-> prev]

Moved(m, status) ==
  [item[m] EXCEPT !.status = status, !.version = item[m].version + 1]

UpsertOf(m, version) == [memory |-> m, version |-> version, op |-> "upsert"]
DeleteOf(m, version) == [memory |-> m, version |-> version, op |-> "delete"]

(* _schedule: a pending event, unless there is one already.                *)
Schedule(events) ==
  /\ due' = due \cup (events \ (processing \cup completed))
  /\ UNCHANGED <<processing, completed, forfeited>>

Done(w) ==
  /\ plan' = [plan EXCEPT ![w] = NoPlan]
  /\ UNCHANGED <<commands, index, sync>>

CommitCreate(w) ==
  /\ plan[w].op = "create"
  /\ \E m \in Memories :
       /\ ~Exists(m)
       /\ item' = [item EXCEPT ![m] = NewRow(w, 1, None, FALSE)]
       /\ Schedule(IF plan[w].goal = "active" THEN {UpsertOf(m, 1)} ELSE {})
  /\ Done(w)

\* Mutant: the version that was read is not compared.
CommitMerge_Blind(w) ==
  /\ plan[w].op = "merge"
  /\ item' = [item EXCEPT ![plan[w].target].unverified =
                @ \cup (IF plan[w].source = "inferred" THEN {w} ELSE {})]
  /\ UNCHANGED outbox
  /\ Done(w)

(* add_evidence: the version of the memory stays.                          *)
CommitMerge(w) ==
  /\ plan[w].op = "merge" /\ Unchanged(w)
  /\ item' = [item EXCEPT ![plan[w].target].unverified =
                @ \cup (IF plan[w].source = "inferred" THEN {w} ELSE {})]
  /\ UNCHANGED outbox
  /\ Done(w)

\* Mutant: the old memory is not looked at again.
CommitSupersede_Blind(w) ==
  LET old == plan[w].target IN
  /\ plan[w].op = "supersede"
  /\ \E m \in Memories, expired \in {FALSE, item[old].expired} :
       /\ ~Exists(m)
       /\ item' = [item EXCEPT ![old] = Moved(old, "superseded"),
                               ![m] = NewRow(w, plan[w].version + 1, old, expired)]
       /\ Schedule({DeleteOf(old, item[old].version + 1),
                    UpsertOf(m, plan[w].version + 1)})
  /\ Done(w)

(* supersede: the old memory, the new one and both events.  update() lets  *)
(* the new one inherit valid_until, remember() does not.                   *)
CommitSupersede(w) ==
  LET old == plan[w].target IN
  /\ plan[w].op = "supersede" /\ Unchanged(w)
  /\ "superseded" \in Allowed(item[old].status)
  /\ \E m \in Memories, expired \in {FALSE, item[old].expired} :
       /\ ~Exists(m)
       /\ item' = [item EXCEPT ![old] = Moved(old, "superseded"),
                               ![m] = NewRow(w, plan[w].version + 1, old, expired)]
       /\ Schedule({DeleteOf(old, item[old].version + 1),
                    UpsertOf(m, plan[w].version + 1)})
  /\ Done(w)

(* _transition.                                                            *)
CommitTransition(w) ==
  LET m == plan[w].target
      v == item[m].version + 1 IN
  /\ plan[w].op = "transition" /\ Unchanged(w)
  /\ plan[w].goal \in Allowed(item[m].status)
  /\ item' = [item EXCEPT ![m] = Moved(m, plan[w].goal)]
  /\ Schedule({IF plan[w].goal = "active" THEN UpsertOf(m, v) ELSE DeleteOf(m, v)})
  /\ Done(w)

(* VersionConflict or InvalidTransition.  A command whose process ends     *)
(* simply never commits.                                                   *)
Refuse(w) ==
  /\ plan[w].op \in {"merge", "supersede", "transition"}
  /\ \/ ~Unchanged(w)
     \/ /\ plan[w].op = "transition"
        /\ plan[w].goal \notin Allowed(item[plan[w].target].status)
  /\ UNCHANGED <<item, outbox>>
  /\ Done(w)

(* valid_until passes.                                                     *)
Expire(m) ==
  /\ item[m].status \in {"candidate", "active"} /\ ~item[m].expired
  /\ Cardinality({n \in Memories : item[n].expired}) < MaxExpired
  /\ item' = [item EXCEPT ![m].expired = TRUE]
  /\ UNCHANGED <<plan, commands, outbox, index, sync>>

---------------------------------------------------------------------------
(* MemoryIndexSynchronizer.drain.                                          *)

(* What is left to do, and what is being done: todo and event are the      *)
(* events that a drain has claimed and not yet given back.                 *)
Stand == [todo : SUBSET Event, stage : {"next", "apply", "complete"},
          event : Event \cup {None}, found : Nat]
Before(events) == [todo |-> events, stage |-> "next", event |-> None, found |-> 0]
Idle == Before({})
Hand(s) == sync[s].todo \cup (IF sync[s].stage = "next" THEN {} ELSE {sync[s].event})

\* Mutant: the claim does not change the status of what it claims.
Claim_Unmarked(s) ==
  /\ sync[s].stage = "next" /\ sync[s].todo = {}
  /\ \E events \in SUBSET due :
       /\ events # {} /\ Cardinality(events) <= Limit
       /\ processing' = processing \cup events
       /\ sync' = [sync EXCEPT ![s] = Before(events)]
  /\ UNCHANGED <<item, plan, commands, due, completed, forfeited, index>>

(* claim_index_events, a transaction of its own.  Which events are due is  *)
(* left open: a retry waits, and locked rows are skipped.                  *)
Claim(s) ==
  /\ sync[s].stage = "next" /\ sync[s].todo = {}
  /\ \E events \in SUBSET due :
       /\ events # {} /\ Cardinality(events) <= Limit
       /\ due' = due \ events
       /\ processing' = processing \cup events
       /\ sync' = [sync EXCEPT ![s] = Before(events)]
  /\ UNCHANGED <<item, plan, commands, completed, forfeited, index>>

\* Mutant: what the event asked for is done, whatever became of the memory.
LookUp_Unchecked(s) ==
  /\ sync[s].stage = "next"
  /\ \E e \in sync[s].todo :
       sync' = [sync EXCEPT ![s] =
         [todo |-> sync[s].todo \ {e}, stage |-> "apply", event |-> e,
          found |-> IF e.op = "upsert" THEN item[e.memory].version ELSE 0]]
  /\ UNCHANGED <<item, plan, commands, outbox, index>>

(* The memory is read and it is decided what to do: found is the version   *)
(* to write, 0 if its points have to go.                                   *)
LookUp(s) ==
  /\ sync[s].stage = "next"
  /\ \E e \in sync[s].todo :
       LET current == /\ e.op = "upsert" /\ Retrievable(e.memory)
                      /\ item[e.memory].version = e.version IN
       sync' = [sync EXCEPT ![s] =
         [todo |-> sync[s].todo \ {e}, stage |-> "apply", event |-> e,
          found |-> IF current THEN item[e.memory].version ELSE 0]]
  /\ UNCHANGED <<item, plan, commands, outbox, index>>

(* index.upsert writes the point of one version, index.delete removes the  *)
(* points of all.                                                          *)
Apply(s) ==
  LET m == sync[s].event.memory IN
  /\ sync[s].stage = "apply"
  /\ index' = IF sync[s].found # 0
              THEN index \cup {[memory |-> m, version |-> sync[s].found]}
              ELSE {p \in index : p.memory # m}
  /\ sync' = [sync EXCEPT ![s].stage = "complete"]
  /\ UNCHANGED <<item, plan, commands, outbox>>

Complete(s) ==
  /\ sync[s].stage = "complete"
  /\ processing' = processing \ {sync[s].event}
  /\ completed' = completed \cup {sync[s].event}
  /\ sync' = [sync EXCEPT ![s] = Before(sync[s].todo)]
  /\ UNCHANGED <<item, plan, commands, due, forfeited, index>>

\* Mutant: what failed is completed like the rest.
Fail_Completes(s) ==
  /\ sync[s].stage \in {"apply", "complete"}
  /\ processing' = processing \ {sync[s].event}
  /\ completed' = completed \cup {sync[s].event}
  /\ sync' = [sync EXCEPT ![s] = Before(sync[s].todo)]
  /\ UNCHANGED <<item, plan, commands, due, forfeited, index>>

(* The index or the database fails, the index perhaps after it has done    *)
(* its part: retry_index_event.                                            *)
Fail(s) ==
  /\ sync[s].stage \in {"apply", "complete"}
  /\ processing' = processing \ {sync[s].event}
  /\ due' = due \cup {sync[s].event}
  /\ sync' = [sync EXCEPT ![s] = Before(sync[s].todo)]
  /\ UNCHANGED <<item, plan, commands, completed, forfeited, index>>

(* The process ends, or the retry cannot be recorded and drain() raises:   *)
(* what it had claimed stays processing, which nobody claims again.        *)
Abandon(s) ==
  /\ sync[s] # Idle
  /\ sync' = [sync EXCEPT ![s] = Idle]
  /\ forfeited' = forfeited \cup Hand(s)
  /\ UNCHANGED <<item, plan, commands, due, processing, completed, index>>

---------------------------------------------------------------------------
(* The memories at the start were proposed or remembered before; nothing   *)
(* has been carried to the index yet.                                      *)
Init ==
  /\ \E begin \in [Memories -> {"absent", "candidate", "active"}] :
       /\ Cardinality({m \in Memories : begin[m] # "absent"}) <= MaxGiven
       /\ item = [m \in Memories |-> Given(begin[m])]
       /\ due = {UpsertOf(m, 1) : m \in {n \in Memories : begin[n] = "active"}}
  /\ plan = [w \in Writers |-> NoPlan]
  /\ commands = 0
  /\ processing = {} /\ completed = {} /\ forfeited = {}
  /\ index = {}
  /\ sync = [s \in Synchronizers |-> Idle]

Commands(w) ==
  \/ Propose(w) \/ Remember(w) \/ Correct(w) \/ Review(w)
  \/ CommitCreate(w) \/ CommitMerge(w) \/ CommitSupersede(w)
  \/ CommitTransition(w) \/ Refuse(w)

Drains(s) ==
  \/ Claim(s) \/ LookUp(s) \/ Apply(s) \/ Complete(s)
  \/ Fail(s) \/ Abandon(s)

Next ==
  \/ \E w \in Writers : Commands(w)
  \/ \E m \in Memories : Expire(m)
  \/ \E s \in Synchronizers : Drains(s)

Spec == Init /\ [][Next]_vars

---------------------------------------------------------------------------
(* The types; an event has one status.                                     *)
TypeOK ==
  /\ item \in [Memories -> Row]
  /\ plan \in [Writers -> Plan \cup {NoPlan}]
  /\ commands \in 0 .. MaxCommands
  /\ due \subseteq Event /\ processing \subseteq Event /\ completed \subseteq Event
  /\ due \cap processing = {} /\ due \cap completed = {}
  /\ processing \cap completed = {}
  /\ forfeited \subseteq Event
  /\ index \subseteq Point
  /\ sync \in [Synchronizers -> Stand]

(* A retrievable memory that the index lacks has an event that will write  *)
(* its point: one that is due, or in the hands of a drain that is still at *)
(* work.  Nothing else loses one - no failure, retry, expiry, correction   *)
(* or other drain - but the end of the drain that had claimed the event:   *)
(* it stays processing for ever, the loss that F8 of                       *)
(* docs/agent-design-review/03-memory.md:268-272 names                     *)
(* (index_sync.py:39-70, postgres_repository.py:412-434).                  *)
NothingUnindexed ==
  \A m \in Memories :
    LET event == UpsertOf(m, item[m].version) IN
    Retrievable(m) /\ event \notin forfeited =>
      \/ PointOf(m) \in index
      \/ event \in due
      \/ \E s \in Synchronizers : event \in Hand(s)

(* A point of the current version of its memory is the point of an active  *)
(* memory.  Late upserts, and points that nobody deletes any more, make    *)
(* the index stale, but never so that comparing versions would not show it *)
(* (semantic_retrieval.py:100-113, index_sync.py:44-58).                   *)
VersionTellsActive ==
  \A p \in index :
    item[p.memory].version = p.version => IsActive(p.memory)

(* A proposal of the model becomes evidence of candidates only: what a     *)
(* person has decided on gets none afterwards, although the candidate was  *)
(* looked up before (command_service.py:215-249).                          *)
EvidenceReviewed ==
  [][\A m \in Memories :
       item[m].status \notin {"absent", "candidate"}
         => item'[m].unverified = item[m].unverified]_vars

(* A superseded memory has one successor and no other memory has any,      *)
(* however many corrections of it were decided on at once                  *)
(* (postgres_repository.py:338-372).                                       *)
OneSuccessor ==
  \A m \in Memories :
    IF item[m].status = "superseded"
    THEN \E n \in Memories : {k \in Memories : item[k].prev = m} = {n}
    ELSE {k \in Memories : item[k].prev = m} = {}
=============================================================================
