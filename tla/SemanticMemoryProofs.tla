------------------------ MODULE SemanticMemoryProofs ------------------------
(***************************************************************************)
(* What SemanticMemory promises for all memories, writers, synchronizers   *)
(* and limits.  The inductive invariant Inv says what the events of the    *)
(* outbox tell of their memories (EventsTell), that every point was asked  *)
(* for by an event (PointsAskedFor), that an event is in the hands of one  *)
(* synchronizer (InOneHand), which knows what became of the memory         *)
(* (HandKnows), or forfeited (Accounted), and what a plan whose version    *)
(* still holds may rely on (PlansHold).                                    *)
(***************************************************************************)
EXTENDS SemanticMemory, TLAPS

Known == due \cup processing \cup completed

(* A row that exists has a version, one that does not is empty.            *)
RowsSound ==
  \A m \in Memories :
    IF Exists(m) THEN item[m].version >= 1 ELSE item[m] = Absent

(* An event is about a memory that is no candidate any more.  An upsert is *)
(* of the current version exactly while the memory is active, and nothing  *)
(* is deleted for a memory that is.                                        *)
Tells(e) ==
  /\ e.version <= item[e.memory].version
  /\ item[e.memory].status \in Ended \cup {"active"}
  /\ e.op = "delete" => ~IsActive(e.memory)
  /\ e.op = "upsert" => (IsActive(e.memory) <=> e.version = item[e.memory].version)

EventsTell == \A e \in Known : Tells(e)

PointsAskedFor == \A p \in index : UpsertOf(p.memory, p.version) \in Known

InOneHand ==
  /\ \A s \in Synchronizers : Hand(s) \subseteq processing
  /\ \A s \in Synchronizers : sync[s].stage # "next" =>
       sync[s].event \in Event /\ sync[s].event \notin sync[s].todo
  /\ \A s, t \in Synchronizers : s # t => Hand(s) \cap Hand(t) = {}

(* What is processing is in somebody's hand, or nobody will see it again:  *)
(* never both.                                                             *)
Accounted ==
  /\ forfeited \subseteq processing
  /\ \A s \in Synchronizers : Hand(s) \cap forfeited = {}
  /\ \A e \in processing \ forfeited : \E s \in Synchronizers : e \in Hand(s)

(* A retrievable memory has its point, or its event is not completed.      *)
Carried ==
  \A m \in Memories :
    Retrievable(m) =>
      \/ PointOf(m) \in index
      \/ UpsertOf(m, item[m].version) \in due \cup processing

(* About to delete, it is for a memory that is not retrievable; about to   *)
(* write, it is what the event asks for; and then the point is there.      *)
Knows(s) ==
  LET e == sync[s].event IN
  /\ sync[s].stage = "apply" =>
       IF sync[s].found = 0 THEN ~Retrievable(e.memory)
       ELSE e = UpsertOf(e.memory, sync[s].found)
  /\ sync[s].stage = "complete" /\ Retrievable(e.memory) => PointOf(e.memory) \in index

HandKnows == \A s \in Synchronizers : Knows(s)

(* What a command asks for, and what it read of its memory.                *)
Holds(p) ==
  /\ p.op = "create" => p.goal \in {"candidate", "active"}
  /\ p.op = "supersede" => p.goal = "active"
  /\ p.op = "transition" => p.goal \in {"active", "rejected", "revoked"}
  /\ p.op \in {"merge", "supersede", "transition"} =>
       /\ p.target \in Memories /\ Exists(p.target)
       /\ p.version <= item[p.target].version
  /\ p.op = "merge" /\ p.source = "inferred" /\ p.version = item[p.target].version =>
       item[p.target].status = "candidate"

PlansHold == \A w \in Writers : Holds(plan[w])

Inv == /\ TypeOK /\ RowsSound /\ EventsTell /\ PointsAskedFor /\ InOneHand
       /\ Accounted /\ HandKnows /\ PlansHold /\ Carried /\ OneSuccessor

---------------------------------------------------------------------------
(* What changes of a row, and what stays.                                  *)
LEMMA RowMoved ==
  ASSUME TypeOK, NEW m \in Memories, NEW status \in Statuses
  PROVE  LET q == Moved(m, status) IN
         /\ q \in Row /\ q.status = status /\ q.version = item[m].version + 1
         /\ q.expired = item[m].expired /\ q.unverified = item[m].unverified
         /\ q.prev = item[m].prev
<1>1. PICK r \in Row, v \in Nat : r = item[m] /\ v = item[m].version + 1
  BY DEF TypeOK, Row
<1>2. LET q == [r EXCEPT !.status = status, !.version = v] IN
      /\ q \in Row /\ q.status = status /\ q.version = v
      /\ q.expired = r.expired /\ q.unverified = r.unverified /\ q.prev = r.prev
  BY ONLY status \in Statuses, r \in Row, v \in Nat DEF Row
<1>3. Moved(m, status) = [r EXCEPT !.status = status, !.version = v]
  BY ONLY <1>1 DEF Moved
<1> QED BY ONLY <1>1, <1>2, <1>3

LEMMA EvidenceChanged ==
  ASSUME NEW r \in Row, NEW writers \in SUBSET Writers
  PROVE  LET q == [r EXCEPT !.unverified = writers] IN
         /\ q \in Row /\ q.status = r.status /\ q.version = r.version
         /\ q.expired = r.expired /\ q.unverified = writers /\ q.prev = r.prev
BY DEF Row

LEMMA TimePassed ==
  ASSUME NEW r \in Row
  PROVE  LET q == [r EXCEPT !.expired = TRUE] IN
         /\ q \in Row /\ q.status = r.status /\ q.version = r.version
         /\ q.expired = TRUE /\ q.unverified = r.unverified /\ q.prev = r.prev
BY DEF Row

---------------------------------------------------------------------------
(* What a transaction does to the rows.                                    *)

(* A row changes its status with its version only, and a memory that is no *)
(* candidate any more can only end.                                        *)
Advances(m) ==
  /\ item[m].expired => item'[m].expired
  /\ \/ /\ item'[m].version = item[m].version
        /\ item'[m].status = item[m].status
     \/ /\ item[m].version < item'[m].version
        /\ item'[m].status # "absent"
        /\ item[m].status \notin {"absent", "candidate"} => item'[m].status \in Ended

(* What has to be in the outbox for the memories that become active.       *)
Announced(m) ==
  Retrievable(m)' =>
    \/ Retrievable(m) /\ item'[m].version = item[m].version
    \/ UpsertOf(m, item'[m].version) \in due' \cup processing'

(* Events and points keep telling the truth, synchronizers keep knowing    *)
(* it, plans that still hold may be relied on, and nothing is forgotten,   *)
(* when rows advance and what becomes active is announced.                 *)
LEMMA RowsAdvance ==
  ASSUME Inv, TypeOK', \A m \in Memories : Advances(m) /\ Announced(m),
         \A e \in due' \ due : Tells(e)',
         due \subseteq due', UNCHANGED <<processing, completed, forfeited, index, sync>>,
         \A w \in Writers : plan'[w] = plan[w] \/ plan'[w] = NoPlan
  PROVE  /\ EventsTell' /\ PointsAskedFor' /\ InOneHand' /\ HandKnows'
         /\ Accounted' /\ PlansHold' /\ Carried'
<1> USE DEF Inv
<1>1. \A e \in Known : e \in Event /\ e.memory \in Memories
  BY DEF Known, TypeOK, Event
<1>2. \A m \in Memories : item[m] \in Row /\ item'[m] \in Row
  BY DEF TypeOK
<1>3. EventsTell'
  <2> SUFFICES ASSUME NEW e \in Known' PROVE Tells(e)'
    BY DEF EventsTell
  <2>1. CASE e \in Known
    <3>1. Tells(e) /\ e.memory \in Memories /\ e.version \in Nat
      BY <2>1, <1>1 DEF EventsTell, Event
    <3>2. Advances(e.memory)
      BY <3>1
    <3> QED BY <3>1, <3>2, <1>2 DEF Tells, Advances, IsActive, Row, Statuses, Ended
  <2>2. CASE e \notin Known
    BY <2>2 DEF Known
  <2> QED BY <2>1, <2>2
<1>4. PointsAskedFor'
  BY DEF PointsAskedFor, Known, UpsertOf
<1>5. InOneHand' /\ Accounted'
  BY DEF InOneHand, Accounted, Hand
<1>6. \A e \in Known : Retrievable(e.memory)' =>
        Retrievable(e.memory) /\ item'[e.memory].version = item[e.memory].version
  <2> SUFFICES ASSUME NEW e \in Known, Retrievable(e.memory)'
               PROVE  Retrievable(e.memory) /\ item'[e.memory].version = item[e.memory].version
    OBVIOUS
  <2>1. Tells(e) /\ e.memory \in Memories
    BY <1>1 DEF EventsTell
  <2>2. Advances(e.memory)
    BY <2>1
  <2> QED BY <2>1, <2>2, <1>2 DEF Tells, Advances, Retrievable, IsActive, Row, Statuses, Ended
<1>7. HandKnows'
  <2> SUFFICES ASSUME NEW s \in Synchronizers PROVE Knows(s)'
    BY DEF HandKnows
  <2>1. sync[s].stage # "next" => sync[s].event \in Known
    BY DEF InOneHand, Hand, Known
  <2> QED BY <2>1, <1>6 DEF HandKnows, Knows, PointOf, UpsertOf
<1>8. PlansHold'
  <2> SUFFICES ASSUME NEW w \in Writers PROVE Holds(plan[w])'
    BY DEF PlansHold
  <2>1. CASE plan'[w] = NoPlan
    BY <2>1 DEF Holds, NoPlan
  <2>2. CASE plan'[w] = plan[w] /\ plan[w] # NoPlan
    <3>1. Holds(plan[w]) /\ plan[w] \in Plan
      BY <2>2 DEF PlansHold, TypeOK
    <3>2. CASE plan[w].target \in Memories
      <4>1. Advances(plan[w].target)
        BY <3>2
      <4> QED BY <4>1, <3>1, <3>2, <2>2, <1>2 DEF Holds, Advances, Exists, Row, Plan
    <3>3. CASE plan[w].target \notin Memories
      BY <3>1, <3>3, <2>2 DEF Holds
    <3> QED BY <3>2, <3>3
  <2> QED BY <2>1, <2>2
<1>9. Carried'
  <2> SUFFICES ASSUME NEW m \in Memories, Retrievable(m)'
               PROVE  \/ PointOf(m)' \in index'
                      \/ UpsertOf(m, item'[m].version) \in due' \cup processing'
    BY DEF Carried, UpsertOf
  <2>1. Announced(m)
    OBVIOUS
  <2> QED BY <2>1 DEF Announced, Carried, PointOf
<1> QED BY <1>3, <1>4, <1>5, <1>7, <1>8, <1>9

---------------------------------------------------------------------------
(* The invariant holds at the start.                                       *)
LEMMA Starts == Init => Inv
<1> SUFFICES ASSUME Init PROVE Inv
  OBVIOUS
<1> USE MemoryAssumption
<1>1. PICK begin \in [Memories -> {"absent", "candidate", "active"}] :
        /\ item = [m \in Memories |-> Given(begin[m])]
        /\ due = {UpsertOf(m, 1) : m \in {n \in Memories : begin[n] = "active"}}
  BY DEF Init
<1>2. \A m \in Memories :
        /\ item[m] \in Row /\ item[m].status = begin[m] /\ item[m].prev = None
        /\ item[m].version = IF begin[m] = "absent" THEN 0 ELSE 1
        /\ begin[m] = "absent" => item[m] = Absent
  <2> TAKE m \in Memories
  <2>1. item[m] = Given(begin[m]) /\ begin[m] \in {"absent", "candidate", "active"}
    BY <1>1
  <2>2. begin[m] = "absent" => item[m] = Absent
    BY <2>1 DEF Absent
  <2>3. item[m] \in Row /\ item[m].status = begin[m] /\ item[m].prev = None
    BY <2>1 DEF Given, Row, Statuses
  <2>4. item[m].version = IF begin[m] = "absent" THEN 0 ELSE 1
    BY <2>1 DEF Given
  <2> QED BY <2>2, <2>3, <2>4
<1>3. \A e \in due : \E m \in Memories : begin[m] = "active" /\ e = UpsertOf(m, 1)
  BY <1>1
<1>4. due \subseteq Event
  BY <1>3 DEF UpsertOf, Event
<1>5. TypeOK
  <2>1. item \in [Memories -> Row]
    BY <1>1, <1>2
  <2>2. plan \in [Writers -> Plan \cup {NoPlan}]
    BY DEF Init
  <2>3. sync \in [Synchronizers -> Stand]
    BY DEF Init, Idle, Before, Stand
  <2> QED BY <1>4, <2>1, <2>2, <2>3 DEF TypeOK, Init
<1>6. RowsSound
  BY <1>2 DEF RowsSound, Exists
<1>7. EventsTell
  <2> SUFFICES ASSUME NEW m \in Memories, begin[m] = "active" PROVE Tells(UpsertOf(m, 1))
    BY <1>3 DEF EventsTell, Known, Init
  <2> QED BY <1>2 DEF Tells, UpsertOf, IsActive
<1>8. PointsAskedFor /\ InOneHand /\ Accounted /\ HandKnows
  BY DEF PointsAskedFor, InOneHand, Accounted, Hand, HandKnows, Knows, Init, Idle, Before
<1>9. PlansHold
  BY DEF PlansHold, Holds, NoPlan, Init
<1>10. Carried
  BY <1>1, <1>2 DEF Carried, Retrievable, IsActive
<1>11. OneSuccessor
  BY <1>2 DEF OneSuccessor
<1> QED BY <1>5, <1>6, <1>7, <1>8, <1>9, <1>10, <1>11 DEF Inv

---------------------------------------------------------------------------
(* Commands that read.                                                     *)

(* A new plan, whatever it is, concerns nothing but its writer.            *)
LEMMA PlansKeep ==
  ASSUME Inv, NEW w \in Writers, NEW op \in {"create", "merge", "supersede", "transition"},
         NEW m \in Memories \cup {None}, NEW goal \in Statuses,
         NEW source \in {"inferred", "user"}, Plans(w, op, m, goal, source),
         op = "create" => m = None /\ goal \in {"candidate", "active"},
         op # "create" => m \in Memories /\ Exists(m),
         op = "supersede" => goal = "active",
         op = "transition" => goal \in {"active", "rejected", "revoked"},
         op = "merge" /\ source = "inferred" => item[m].status = "candidate"
  PROVE  Inv'
<1> USE MemoryAssumption DEF Inv, Plans, outbox
<1>1. TypeOK'
  <2> DEFINE p == [op |-> op, target |-> m, goal |-> goal, source |-> source,
                   version |-> IF m = None THEN 0 ELSE item[m].version]
  <2>1. p \in Plan
    BY DEF Plan, TypeOK, Row
  <2>2. plan' = [plan EXCEPT ![w] = p]
    OBVIOUS
  <2>3. plan' \in [Writers -> Plan \cup {NoPlan}]
    <3> HIDE DEF p
    <3> QED BY <2>1, <2>2 DEF TypeOK
  <2>4. commands' \in 0 .. MaxCommands
    BY DEF TypeOK
  <2> QED BY <2>3, <2>4 DEF TypeOK
<1>2. RowsSound' /\ OneSuccessor'
  BY DEF RowsSound, OneSuccessor, Exists
<1>3. EventsTell' /\ PointsAskedFor'
  BY DEF EventsTell, Tells, PointsAskedFor, Known, IsActive, UpsertOf
<1>4. InOneHand' /\ Accounted' /\ HandKnows'
  BY DEF InOneHand, Accounted, Hand, HandKnows, Knows, Retrievable, IsActive, PointOf, UpsertOf
<1>5. PlansHold'
  <2> SUFFICES ASSUME NEW v \in Writers PROVE Holds(plan[v])'
    BY DEF PlansHold
  <2>1. CASE v = w
    BY <2>1 DEF Holds, Exists, TypeOK, Row
  <2>2. CASE v # w
    <3>1. plan'[v] = plan[v] /\ Holds(plan[v])
      BY <2>2 DEF TypeOK, PlansHold
    <3> QED BY <3>1 DEF Holds, Exists
  <2> QED BY <2>1, <2>2
<1>6. Carried'
  BY DEF Carried, Retrievable, IsActive, PointOf, UpsertOf
<1> QED BY <1>1, <1>2, <1>3, <1>4, <1>5, <1>6

LEMMA ReadsKeep ==
  ASSUME Inv, NEW w \in Writers, Propose(w) \/ Remember(w) \/ Correct(w) \/ Review(w)
  PROVE  Inv'
<1> USE DEF Statuses, Exists
<1>1. CASE Propose(w)
  BY <1>1, PlansKeep DEF Propose
<1>2. CASE Remember(w)
  BY <1>2, PlansKeep DEF Remember, Retrievable, IsActive
<1>3. CASE Correct(w)
  BY <1>3, PlansKeep DEF Correct, Retrievable, IsActive
<1>4. CASE Review(w)
  BY <1>4, PlansKeep DEF Review, Confirm, Reject, Revoke
<1> QED BY <1>1, <1>2, <1>3, <1>4

---------------------------------------------------------------------------
(* Commands that commit.                                                   *)

(* A transaction writes events that are not known yet.                     *)
LEMMA Scheduled ==
  ASSUME Inv, NEW events \in SUBSET Event, Schedule(events),
         \A e \in events : e \notin Known
  PROVE  /\ due' = due \cup events /\ UNCHANGED <<processing, completed, forfeited>>
         /\ due' \subseteq Event
         /\ due' \cap processing' = {} /\ due' \cap completed' = {}
BY DEF Schedule, Known, Inv, TypeOK

(* Nobody knows of a version that is still to come.                        *)
LEMMA NewsIsUnknown ==
  ASSUME Inv, NEW m \in Memories, NEW v \in Nat, NEW op \in {"upsert", "delete"},
         ~Exists(m) \/ item[m].version < v
  PROVE  [memory |-> m, version |-> v, op |-> op] \notin Known
<1> DEFINE e == [memory |-> m, version |-> v, op |-> op]
<1> SUFFICES ASSUME e \in Known PROVE FALSE
  OBVIOUS
<1>1. Tells(e)
  BY DEF Inv, EventsTell
<1>2. item[m].status \in Ended \cup {"active"} /\ v <= item[m].version
  BY <1>1 DEF Tells
<1>3. item[m].version \in Nat
  BY DEF Inv, TypeOK, Row
<1> QED BY <1>2, <1>3 DEF Exists, Ended

(* What the plan of a writer with a command is.                            *)
LEMMA PlanOf ==
  ASSUME Inv, NEW w \in Writers, plan[w].op # "none"
  PROVE  plan[w] \in Plan /\ Holds(plan[w])
BY DEF Inv, TypeOK, PlansHold, NoPlan

(* A writer is done.                                                       *)
LEMMA WriterDone ==
  ASSUME Inv, NEW w \in Writers, Done(w)
  PROVE  /\ plan' \in [Writers -> Plan \cup {NoPlan}]
         /\ \A v \in Writers : plan'[v] = plan[v] \/ plan'[v] = NoPlan
         /\ UNCHANGED <<commands, index, sync>>
BY DEF Done, Inv, TypeOK

(* A row that does not exist comes into being, and nothing else happens.   *)
LEMMA CreateKeeps ==
  ASSUME Inv, NEW w \in Writers, CommitCreate(w) PROVE Inv'
<1> USE MemoryAssumption
<1>1. PICK m \in Memories :
        /\ ~Exists(m)
        /\ item' = [item EXCEPT ![m] = NewRow(w, 1, None, FALSE)]
        /\ Schedule(IF plan[w].goal = "active" THEN {UpsertOf(m, 1)} ELSE {})
  BY DEF CommitCreate
<1> DEFINE new == NewRow(w, 1, None, FALSE)
           events == IF plan[w].goal = "active" THEN {UpsertOf(m, 1)} ELSE {}
<1>2. plan[w].goal \in {"candidate", "active"}
  BY PlanOf DEF CommitCreate, Holds
<1>3. /\ new \in Row /\ new.status = plan[w].goal /\ new.version = 1
      /\ new.expired = FALSE /\ new.prev = None
  BY <1>2 DEF NewRow, Row, Statuses
<1>4. item[m] = Absent /\ item[m].version = 0 /\ item[m].expired = FALSE
        /\ item[m].status = "absent"
  <2>1. RowsSound /\ ~Exists(m)
    BY <1>1 DEF Inv
  <2>2. item[m] = Absent
    BY <2>1 DEF RowsSound
  <2> QED BY ONLY <2>2 DEF Absent, Given
<1>5. /\ item' \in [Memories -> Row] /\ item'[m] = new
      /\ \A n \in Memories : n # m => item'[n] = item[n]
  <2> HIDE DEF new
  <2> QED BY <1>1, <1>3 DEF Inv, TypeOK, new
<1>6. events \in SUBSET Event /\ \A e \in events : e \notin Known
  <2>1. UpsertOf(m, 1) \in Event
    BY DEF UpsertOf, Event
  <2>2. UpsertOf(m, 1) \notin Known
    BY <1>1, NewsIsUnknown DEF UpsertOf
  <2> QED BY <2>1, <2>2
<1>7. /\ due' = due \cup events /\ UNCHANGED <<processing, completed, forfeited>>
      /\ due' \subseteq Event
      /\ due' \cap processing' = {} /\ due' \cap completed' = {}
  BY <1>1, <1>6, Scheduled
<1>8. /\ plan' \in [Writers -> Plan \cup {NoPlan}]
      /\ \A v \in Writers : plan'[v] = plan[v] \/ plan'[v] = NoPlan
      /\ UNCHANGED <<commands, index, sync>>
  BY WriterDone DEF CommitCreate
<1> HIDE DEF new
<1>9. TypeOK'
  BY <1>5, <1>7, <1>8 DEF Inv, TypeOK
<1>10. RowsSound'
  BY <1>2, <1>3, <1>5 DEF Inv, RowsSound, Exists
<1>11. OneSuccessor'
  <2>1. \A k \in Memories : item'[k].prev = item[k].prev
    BY <1>3, <1>4, <1>5 DEF Absent, Given
  <2>2. \A k \in Memories : item'[k].status = "superseded" <=> item[k].status = "superseded"
    BY <1>2, <1>3, <1>4, <1>5
  <2> QED BY <2>1, <2>2 DEF Inv, OneSuccessor
<1>12. \A n \in Memories : Advances(n) /\ Announced(n)
  <2> TAKE n \in Memories
  <2>1. CASE n = m
    BY <2>1, <1>2, <1>3, <1>4, <1>5, <1>7 DEF Advances, Announced, Retrievable, IsActive
  <2>2. CASE n # m
    BY <2>2, <1>5 DEF Advances, Announced, Retrievable, IsActive
  <2> QED BY <2>1, <2>2
<1>13. \A e \in due' \ due : Tells(e)'
  BY <1>3, <1>5, <1>7 DEF Tells, UpsertOf, IsActive
<1> QED BY <1>7, <1>8, <1>9, <1>10, <1>11, <1>12, <1>13, RowsAdvance DEF Inv

(* Evidence changes neither status nor version.                            *)
LEMMA MergeKeeps ==
  ASSUME Inv, NEW w \in Writers, CommitMerge(w) PROVE Inv'
<1>1. PICK m \in Memories, more \in SUBSET Writers :
        Exists(m) /\ item' = [item EXCEPT ![m] = [item[m] EXCEPT !.unverified = more]]
  <2> DEFINE more == item[plan[w].target].unverified
                       \cup (IF plan[w].source = "inferred" THEN {w} ELSE {})
  <2>1. plan[w].target \in Memories /\ Exists(plan[w].target)
    BY PlanOf DEF CommitMerge, Holds
  <2>2. more \in SUBSET Writers
    BY <2>1 DEF Inv, TypeOK, Row
  <2>3. item' = [item EXCEPT ![plan[w].target] =
                   [item[plan[w].target] EXCEPT !.unverified = more]]
    BY ONLY CommitMerge(w) DEF CommitMerge
  <2> QED BY ONLY <2>1, <2>2, <2>3
<1>2. UNCHANGED <<due, processing, completed, forfeited>>
  BY DEF CommitMerge, outbox
<1>3. /\ plan' \in [Writers -> Plan \cup {NoPlan}]
      /\ \A v \in Writers : plan'[v] = plan[v] \/ plan'[v] = NoPlan
      /\ UNCHANGED <<commands, index, sync>>
  BY WriterDone DEF CommitMerge
<1>4. PICK q \in Row :
        /\ item' = [item EXCEPT ![m] = q]
        /\ q.status = item[m].status /\ q.version = item[m].version
        /\ q.expired = item[m].expired /\ q.prev = item[m].prev
  <2>1. item[m] \in Row
    BY DEF Inv, TypeOK
  <2> QED BY ONLY <1>1, <2>1, EvidenceChanged
<1>5. /\ item' \in [Memories -> Row]
      /\ \A n \in Memories :
           /\ item'[n].status = item[n].status /\ item'[n].version = item[n].version
           /\ item'[n].expired = item[n].expired /\ item'[n].prev = item[n].prev
           /\ n # m => item'[n] = item[n]
  BY <1>4 DEF Inv, TypeOK
<1>6. TypeOK'
  BY <1>2, <1>3, <1>5 DEF Inv, TypeOK
<1>7. RowsSound'
  BY <1>1, <1>5 DEF Inv, RowsSound, Exists
<1>8. OneSuccessor'
  BY <1>5 DEF Inv, OneSuccessor
<1>9. \A n \in Memories : Advances(n) /\ Announced(n)
  BY <1>5 DEF Advances, Announced, Retrievable, IsActive
<1>10. \A e \in due' \ due : Tells(e)'
  BY <1>2
<1> QED BY <1>2, <1>3, <1>6, <1>7, <1>8, <1>9, <1>10, RowsAdvance DEF Inv

(* The old memory ends and its successor comes into being.                 *)
LEMMA SupersedeKeeps ==
  ASSUME Inv, NEW w \in Writers, CommitSupersede(w) PROVE Inv'
<1> USE MemoryAssumption
<1> DEFINE old == plan[w].target
           ended == Moved(old, "superseded")
           v == plan[w].version + 1
<1>1. PICK m \in Memories, expired \in {FALSE, item[old].expired} :
        /\ ~Exists(m) /\ "superseded" \in Allowed(item[old].status)
        /\ item' = [item EXCEPT ![old] = ended, ![m] = NewRow(w, v, old, expired)]
        /\ Schedule({DeleteOf(old, item[old].version + 1), UpsertOf(m, v)})
  BY DEF CommitSupersede
<1> DEFINE new == NewRow(w, v, old, expired)
           gone == DeleteOf(old, item[old].version + 1)
           come == UpsertOf(m, v)
<1>2. /\ old \in Memories /\ Exists(old) /\ plan[w].goal = "active"
      /\ plan[w].version \in Nat /\ v \in Nat /\ v >= 1 /\ old # m
  BY <1>1, PlanOf DEF CommitSupersede, Holds, Plan
<1>3. IsActive(old)
  BY <1>1, <1>2 DEF Allowed, IsActive, Inv, TypeOK, Row, Statuses
<1>4. /\ ended \in Row /\ ended.status = "superseded"
      /\ ended.version = item[old].version + 1 /\ item[old].version \in Nat
      /\ ended.expired = item[old].expired /\ ended.prev = item[old].prev
  <2>1. TypeOK /\ item[old] \in Row
    BY <1>2 DEF Inv, TypeOK
  <2> HIDE DEF old
  <2> QED BY <1>2, <2>1, RowMoved DEF Statuses, Row
<1>5. /\ new \in Row /\ new.status = "active" /\ new.version = v
      /\ new.prev = old
  <2>1. expired \in BOOLEAN
    BY <1>2 DEF Inv, TypeOK, Row
  <2> QED BY <1>2, <2>1 DEF NewRow, Row, Statuses
<1>6. item[m] = Absent
  BY <1>1 DEF Inv, RowsSound
<1>7. item[m].version = 0 /\ item[m].expired = FALSE /\ item[m].prev = None
        /\ item[m].status = "absent"
  BY ONLY <1>6 DEF Absent, Given
<1>8. gone \in Event /\ come \in Event
  BY <1>2, <1>4 DEF DeleteOf, UpsertOf, Event
<1>9. gone \notin Known /\ come \notin Known
  <2>1. item[old].version + 1 \in Nat /\ item[old].version < item[old].version + 1
    BY <1>4
  <2>2. gone \notin Known
    BY <1>2, <2>1, NewsIsUnknown DEF DeleteOf
  <2>3. come \notin Known
    BY <1>1, <1>2, NewsIsUnknown DEF UpsertOf
  <2> QED BY <2>2, <2>3
<1>10. /\ plan' \in [Writers -> Plan \cup {NoPlan}]
       /\ \A x \in Writers : plan'[x] = plan[x] \/ plan'[x] = NoPlan
       /\ UNCHANGED <<commands, index, sync>>
  BY WriterDone DEF CommitSupersede
<1> HIDE DEF old, ended, new, gone, come, v
<1>11. /\ due' = due \cup {gone, come} /\ UNCHANGED <<processing, completed, forfeited>>
       /\ due' \subseteq Event
       /\ due' \cap processing' = {} /\ due' \cap completed' = {}
  <2>1. Schedule({gone, come})
    BY <1>1 DEF gone, come
  <2> QED BY <1>8, <1>9, <2>1, Scheduled
<1>12. /\ item' \in [Memories -> Row] /\ item'[m] = new /\ item'[old] = ended
       /\ \A n \in Memories : n # m /\ n # old => item'[n] = item[n]
  <2>1. item' = [item EXCEPT ![old] = ended, ![m] = new]
    BY <1>1 DEF new
  <2> QED BY <2>1, <1>2, <1>4, <1>5 DEF Inv, TypeOK
<1>13. TypeOK'
  BY <1>10, <1>11, <1>12 DEF Inv, TypeOK
<1>14. RowsSound'
  BY <1>2, <1>4, <1>5, <1>12 DEF Inv, RowsSound, Exists
<1>15. OneSuccessor'
  <2>1. \A k \in Memories : k # m => item'[k].prev = item[k].prev
    BY <1>4, <1>12
  <2>2. \A k \in Memories : k # old =>
          (item'[k].status = "superseded" <=> item[k].status = "superseded")
    BY <1>5, <1>7, <1>12
  <2>3. {k \in Memories : item[k].prev = old} = {}
    BY <1>2, <1>3 DEF Inv, OneSuccessor, IsActive
  <2>4. {k \in Memories : item'[k].prev = old} = {m}
    BY <2>1, <2>3, <1>5, <1>12
  <2>5. \A n \in Memories : n # old =>
          {k \in Memories : item'[k].prev = n} = {k \in Memories : item[k].prev = n}
    BY <2>1, <1>5, <1>7, <1>12
  <2> QED BY <2>2, <2>4, <2>5, <1>2, <1>4, <1>12 DEF Inv, OneSuccessor
<1>16. \A n \in Memories : Advances(n) /\ Announced(n)
  <2> TAKE n \in Memories
  <2>1. CASE n = m
    BY <2>1, <1>2, <1>5, <1>7, <1>11, <1>12 DEF Advances, Announced, come
  <2>2. CASE n = old
    BY <2>2, <1>4, <1>12 DEF Advances, Announced, Retrievable, IsActive, Ended
  <2>3. CASE n # m /\ n # old
    BY <2>3, <1>12 DEF Advances, Announced, Retrievable, IsActive
  <2> QED BY <2>1, <2>2, <2>3
<1>17. \A e \in due' \ due : Tells(e)'
  <2> TAKE e \in due' \ due
  <2>1. CASE e = come
    <3>1. e.memory = m /\ e.version = v /\ e.op = "upsert"
      BY <2>1 DEF come, UpsertOf
    <3> QED BY <3>1, <1>2, <1>5, <1>12 DEF Tells, IsActive
  <2>2. CASE e = gone
    <3>1. e.memory = old /\ e.version = item[old].version + 1 /\ e.op = "delete"
      BY <2>2 DEF gone, DeleteOf
    <3> QED BY <3>1, <1>2, <1>4, <1>12 DEF Tells, IsActive, Ended
  <2> QED BY <2>1, <2>2, <1>11
<1> QED BY <1>10, <1>11, <1>13, <1>14, <1>15, <1>16, <1>17, RowsAdvance DEF Inv

(* One row moves on.                                                       *)
LEMMA TransitionKeeps ==
  ASSUME Inv, NEW w \in Writers, CommitTransition(w) PROVE Inv'
<1> DEFINE m == plan[w].target
           goal == plan[w].goal
           v == item[m].version + 1
           event == IF goal = "active" THEN UpsertOf(m, v) ELSE DeleteOf(m, v)
           moved == Moved(m, goal)
<1>1. /\ goal \in Allowed(item[m].status) /\ item' = [item EXCEPT ![m] = moved]
      /\ Schedule({event})
  BY DEF CommitTransition
<1>2. m \in Memories /\ Exists(m) /\ goal \in {"active", "rejected", "revoked"}
  BY PlanOf DEF CommitTransition, Holds
<1>3. item[m] \in Row /\ item[m].version \in Nat /\ v \in Nat
  BY <1>2 DEF Inv, TypeOK, Row
<1>4. /\ moved \in Row /\ moved.status = goal /\ moved.version = v
      /\ moved.expired = item[m].expired /\ moved.prev = item[m].prev
  <2>1. TypeOK /\ goal \in Statuses
    BY <1>2 DEF Inv, Statuses
  <2> HIDE DEF m, goal
  <2> QED BY <1>2, <2>1, RowMoved
<1>5. \/ item[m].status = "candidate"
      \/ item[m].status = "active" /\ goal \in Ended
  BY <1>1, <1>2, <1>3 DEF Allowed, Row, Statuses, Ended
<1>6. event \in Event /\ event \notin Known
  BY <1>2, <1>3, NewsIsUnknown DEF UpsertOf, DeleteOf, Event
<1>7. /\ plan' \in [Writers -> Plan \cup {NoPlan}]
      /\ \A x \in Writers : plan'[x] = plan[x] \/ plan'[x] = NoPlan
      /\ UNCHANGED <<commands, index, sync>>
  BY WriterDone DEF CommitTransition
<1> HIDE DEF m, goal, moved, event, v
<1>8. /\ due' = due \cup {event} /\ UNCHANGED <<processing, completed, forfeited>>
      /\ due' \subseteq Event
      /\ due' \cap processing' = {} /\ due' \cap completed' = {}
  BY <1>1, <1>6, Scheduled
<1>9. /\ item' \in [Memories -> Row] /\ item'[m] = moved
      /\ \A n \in Memories : n # m => item'[n] = item[n]
  BY <1>1, <1>2, <1>4 DEF Inv, TypeOK
<1>10. TypeOK'
  BY <1>7, <1>8, <1>9 DEF Inv, TypeOK
<1>11. RowsSound'
  BY <1>2, <1>3, <1>4, <1>9 DEF Inv, RowsSound, Exists, v
<1>12. OneSuccessor'
  <2>1. \A k \in Memories : item'[k].prev = item[k].prev
    BY <1>4, <1>9
  <2>2. \A k \in Memories : item'[k].status = "superseded" <=> item[k].status = "superseded"
    BY <1>2, <1>4, <1>5, <1>9
  <2> QED BY <2>1, <2>2 DEF Inv, OneSuccessor
<1>13. \A n \in Memories : Advances(n) /\ Announced(n)
  <2> TAKE n \in Memories
  <2>1. CASE n = m
    <3>1. Advances(n)
      BY <2>1, <1>2, <1>3, <1>4, <1>5, <1>9 DEF Advances, v
    <3>2. Announced(n)
      BY <2>1, <1>4, <1>8, <1>9 DEF Announced, Retrievable, IsActive, event
    <3> QED BY <3>1, <3>2
  <2>2. CASE n # m
    BY <2>2, <1>9 DEF Advances, Announced, Retrievable, IsActive
  <2> QED BY <2>1, <2>2
<1>14. \A e \in due' \ due : Tells(e)'
  <2> TAKE e \in due' \ due
  <2>1. /\ e.memory = m /\ e.version = v
        /\ e.op = IF goal = "active" THEN "upsert" ELSE "delete"
    BY <1>8 DEF event, UpsertOf, DeleteOf
  <2> QED BY <2>1, <1>2, <1>3, <1>4, <1>9 DEF Tells, IsActive, Ended
<1> QED BY <1>7, <1>8, <1>10, <1>11, <1>12, <1>13, <1>14, RowsAdvance DEF Inv

LEMMA RefuseKeeps ==
  ASSUME Inv, NEW w \in Writers, Refuse(w) PROVE Inv'
<1>1. UNCHANGED <<item, due, processing, completed, forfeited>>
  BY DEF Refuse, outbox
<1>2. /\ plan' \in [Writers -> Plan \cup {NoPlan}]
      /\ \A v \in Writers : plan'[v] = plan[v] \/ plan'[v] = NoPlan
      /\ UNCHANGED <<commands, index, sync>>
  BY WriterDone DEF Refuse
<1>3. TypeOK' /\ RowsSound' /\ OneSuccessor'
  BY <1>1, <1>2 DEF Inv, TypeOK, RowsSound, OneSuccessor, Exists
<1>4. \A n \in Memories : Advances(n) /\ Announced(n)
  BY <1>1 DEF Advances, Announced, Retrievable, IsActive
<1>5. \A e \in due' \ due : Tells(e)'
  BY <1>1
<1> QED BY <1>1, <1>2, <1>3, <1>4, <1>5, RowsAdvance DEF Inv

LEMMA ExpireKeeps ==
  ASSUME Inv, NEW m \in Memories, Expire(m) PROVE Inv'
<1>1. UNCHANGED <<plan, commands, due, processing, completed, forfeited, index, sync>>
  BY DEF Expire, outbox
<1>2. PICK q \in Row :
        /\ item' = [item EXCEPT ![m] = q]
        /\ q.status = item[m].status /\ q.version = item[m].version
        /\ q.expired = TRUE /\ q.prev = item[m].prev
  <2>1. item' = [item EXCEPT ![m] = [item[m] EXCEPT !.expired = TRUE]]
    BY ONLY Expire(m) DEF Expire
  <2>2. item[m] \in Row
    BY DEF Inv, TypeOK
  <2> QED BY ONLY <2>1, <2>2, TimePassed
<1>3. /\ item' \in [Memories -> Row]
      /\ \A n \in Memories :
           /\ item'[n].status = item[n].status /\ item'[n].version = item[n].version
           /\ item[n].expired => item'[n].expired
           /\ item'[n].prev = item[n].prev /\ (n # m => item'[n] = item[n])
  BY <1>2 DEF Inv, TypeOK, Row
<1>4. item[m].status # "absent"
  BY DEF Expire
<1>5. TypeOK'
  BY <1>1, <1>3 DEF Inv, TypeOK
<1>6. RowsSound' /\ OneSuccessor'
  BY <1>3, <1>4 DEF Inv, RowsSound, Exists, OneSuccessor
<1>7. \A n \in Memories : Advances(n) /\ Announced(n)
  BY <1>3 DEF Advances, Announced, Retrievable, IsActive
<1>8. \A e \in due' \ due : Tells(e)'
  BY <1>1
<1> QED BY <1>1, <1>5, <1>6, <1>7, <1>8, RowsAdvance DEF Inv

---------------------------------------------------------------------------
(* drain().                                                                *)

(* What one synchronizer does leaves the rows and the plans alone, and the *)
(* hands of the others.                                                    *)
LEMMA OthersKeep ==
  ASSUME Inv, UNCHANGED <<item, plan, commands>>,
         NEW s \in Synchronizers,
         NEW state \in Stand,
         sync' = [sync EXCEPT ![s] = state]
  PROVE  /\ RowsSound' /\ OneSuccessor' /\ PlansHold'
         /\ sync' \in [Synchronizers -> Stand]
         /\ sync'[s] = state
         /\ \A t \in Synchronizers : t # s => sync'[t] = sync[t] /\ Hand(t)' = Hand(t)
<1> USE DEF Inv
<1>1. RowsSound' /\ OneSuccessor'
  BY DEF RowsSound, OneSuccessor, Exists
<1>2. PlansHold'
  BY DEF PlansHold, Holds, Exists
<1>3. \A t \in Synchronizers : t # s => sync'[t] = sync[t]
  BY DEF TypeOK
<1>4. \A t \in Synchronizers : t # s => Hand(t)' = Hand(t)
  BY <1>3 DEF Hand
<1> QED BY <1>1, <1>2, <1>3, <1>4 DEF TypeOK

(* Everything known stays known.                                           *)
LEMMA KnownKeeps ==
  ASSUME Inv, UNCHANGED item, Known' = Known
  PROVE  EventsTell' /\ (index' \subseteq index => PointsAskedFor')
<1>1. EventsTell'
  BY DEF Inv, EventsTell, Tells, IsActive
<1>2. index' \subseteq index => PointsAskedFor'
  BY DEF Inv, PointsAskedFor, UpsertOf
<1> QED BY <1>1, <1>2

LEMMA ClaimKeeps ==
  ASSUME Inv, NEW s \in Synchronizers, Claim(s) PROVE Inv'
<1>1. PICK events \in SUBSET due :
        /\ due' = due \ events /\ processing' = processing \cup events
        /\ sync' = [sync EXCEPT ![s] = Before(events)]
  BY DEF Claim
<1> DEFINE state == Before(events)
<1>2. /\ state.todo = events /\ state.stage = "next" /\ state \in Stand
  BY DEF Before, Stand, Inv, TypeOK
<1>3. UNCHANGED <<item, plan, commands, completed, forfeited, index>>
  BY DEF Claim
<1>5. /\ RowsSound' /\ OneSuccessor' /\ PlansHold'
      /\ sync' \in [Synchronizers -> Stand]
      /\ sync'[s] = state
      /\ \A t \in Synchronizers : t # s => sync'[t] = sync[t] /\ Hand(t)' = Hand(t)
  <2> HIDE DEF state
  <2> QED BY <1>1, <1>2, <1>3, OthersKeep DEF state
<1>6. TypeOK'
  BY <1>1, <1>3, <1>5 DEF Inv, TypeOK
<1>7. Known' = Known
  BY <1>1, <1>3 DEF Known
<1>8. EventsTell' /\ PointsAskedFor'
  BY <1>3, <1>7, KnownKeeps
<1>9. InOneHand' /\ Accounted'
  <2>1. Hand(s)' = events /\ Hand(s) = {}
    BY <1>2, <1>5 DEF Hand, Claim
  <2>2. \A t \in Synchronizers : Hand(t) \cap events = {}
    BY DEF Inv, InOneHand, TypeOK
  <2>3. \A t \in Synchronizers : Hand(t)' \subseteq processing'
    BY <2>1, <1>1, <1>5 DEF Inv, InOneHand
  <2>4. \A t, u \in Synchronizers : t # u => Hand(t)' \cap Hand(u)' = {}
    BY <2>1, <2>2, <1>5 DEF Inv, InOneHand
  <2>5. \A t \in Synchronizers : sync'[t].stage # "next" =>
          sync'[t].event \in Event /\ sync'[t].event \notin sync'[t].todo
    BY <1>2, <1>5 DEF Inv, InOneHand
  <2>6. Accounted'
    <3>1. events \cap forfeited = {}
      BY DEF Inv, Accounted, TypeOK
    <3>2. \A e \in processing' \ forfeited : \E t \in Synchronizers : e \in Hand(t)'
      BY <2>1, <1>1, <1>5 DEF Inv, Accounted
    <3> QED BY <3>1, <3>2, <2>1, <1>1, <1>3, <1>5 DEF Inv, Accounted
  <2> QED BY <2>3, <2>4, <2>5, <2>6 DEF InOneHand
<1>10. HandKnows'
  BY <1>2, <1>3, <1>5 DEF Inv, HandKnows, Knows, Retrievable, IsActive, PointOf, UpsertOf
<1>11. Carried'
  BY <1>1, <1>3 DEF Inv, Carried, Retrievable, IsActive, PointOf, UpsertOf
<1> QED BY <1>5, <1>6, <1>8, <1>9, <1>10, <1>11 DEF Inv

LEMMA LookUpKeeps ==
  ASSUME Inv, NEW s \in Synchronizers, LookUp(s) PROVE Inv'
<1>1. PICK e \in sync[s].todo, found \in Nat :
        /\ sync' = [sync EXCEPT ![s] = [todo |-> sync[s].todo \ {e}, stage |-> "apply",
                                       event |-> e, found |-> found]]
        /\ found = 0 => ~(/\ e.op = "upsert" /\ Retrievable(e.memory)
                          /\ item[e.memory].version = e.version)
        /\ found # 0 => /\ e.op = "upsert" /\ found = e.version
  <2>1. PICK e \in sync[s].todo :
          sync' = [sync EXCEPT ![s] =
            [todo |-> sync[s].todo \ {e}, stage |-> "apply", event |-> e,
             found |-> IF /\ e.op = "upsert" /\ Retrievable(e.memory)
                          /\ item[e.memory].version = e.version
                       THEN item[e.memory].version ELSE 0]]
    BY DEF LookUp
  <2>2. e \in Event /\ item[e.memory] \in Row /\ RowsSound
    BY DEF Inv, InOneHand, Hand, TypeOK, Event
  <2>3. item[e.memory].version \in Nat
          /\ (Retrievable(e.memory) => item[e.memory].version >= 1)
    BY <2>2 DEF RowsSound, Retrievable, IsActive, Exists, Event, Row
  <2> DEFINE current == /\ e.op = "upsert" /\ Retrievable(e.memory)
                        /\ item[e.memory].version = e.version
             found == IF current THEN item[e.memory].version ELSE 0
  <2>4. found \in Nat /\ (found = 0 <=> ~current) /\ (found # 0 => found = e.version)
    BY <2>3
  <2>5. sync' = [sync EXCEPT ![s] = [todo |-> sync[s].todo \ {e}, stage |-> "apply",
                                     event |-> e, found |-> found]]
    BY <2>1
  <2> HIDE DEF found
  <2> QED BY <2>4, <2>5
<1> DEFINE state == [todo |-> sync[s].todo \ {e}, stage |-> "apply", event |-> e, found |-> found]
<1>2. UNCHANGED <<item, plan, commands, due, processing, completed, forfeited, index>>
  BY DEF LookUp, outbox
<1>3. sync[s].todo \subseteq processing /\ sync[s].stage = "next" /\ e \in Event
        /\ e.memory \in Memories
  BY DEF Inv, InOneHand, Hand, TypeOK, LookUp, Event
<1>4. state \in Stand
  BY <1>3 DEF Stand, Inv, TypeOK
<1>5. /\ state.todo = sync[s].todo \ {e} /\ state.stage = "apply"
      /\ state.event = e /\ state.found = found
  OBVIOUS
<1> HIDE DEF state
<1>6. /\ RowsSound' /\ OneSuccessor' /\ PlansHold'
      /\ sync' \in [Synchronizers -> Stand] /\ sync'[s] = state
      /\ \A t \in Synchronizers : t # s => sync'[t] = sync[t] /\ Hand(t)' = Hand(t)
  BY <1>1, <1>2, <1>4, OthersKeep DEF state
<1>7. TypeOK'
  BY <1>2, <1>6 DEF Inv, TypeOK
<1>8. EventsTell' /\ PointsAskedFor'
  BY <1>2, KnownKeeps DEF Known
<1>9. InOneHand' /\ Accounted'
  <2>1. Hand(s)' = Hand(s)
    BY <1>3, <1>5, <1>6 DEF Hand
  <2>2. \A t \in Synchronizers : Hand(t)' = Hand(t)
    BY <2>1, <1>6
  <2>3. \A t \in Synchronizers : sync'[t].stage # "next" =>
          sync'[t].event \in Event /\ sync'[t].event \notin sync'[t].todo
    BY <1>3, <1>5, <1>6 DEF Inv, InOneHand
  <2> QED BY <2>2, <2>3, <1>2 DEF Inv, InOneHand, Accounted
<1>10. HandKnows'
  <2>1. found = 0 => ~Retrievable(e.memory)
    <3>1. Tells(e)
      BY <1>3 DEF Inv, EventsTell, Known
    <3> QED BY <3>1, <1>1, <1>3 DEF Tells, Retrievable, Event
  <2>2. found # 0 => e = UpsertOf(e.memory, found)
    BY <1>1, <1>3 DEF UpsertOf, Event
  <2>3. \A m \in Memories : Retrievable(m)' <=> Retrievable(m)
    BY <1>2 DEF Retrievable, IsActive
  <2> QED BY <2>1, <2>2, <2>3, <1>2, <1>3, <1>5, <1>6
      DEF Inv, HandKnows, Knows, Retrievable, IsActive, PointOf, UpsertOf
<1>11. Carried'
  BY <1>2 DEF Inv, Carried, Retrievable, IsActive, PointOf, UpsertOf
<1> QED BY <1>6, <1>7, <1>8, <1>9, <1>10, <1>11 DEF Inv

(* The event a synchronizer is at, and its memory.                         *)
LEMMA AtEvent ==
  ASSUME Inv, NEW s \in Synchronizers, sync[s].stage # "next"
  PROVE  /\ sync[s].event \in Event /\ sync[s].event \in processing
         /\ sync[s].event.memory \in Memories /\ sync[s] \in Stand
         /\ sync[s].event \notin sync[s].todo /\ sync[s].todo \subseteq processing
BY DEF Inv, InOneHand, Hand, TypeOK, Event

LEMMA ApplyKeeps ==
  ASSUME Inv, NEW s \in Synchronizers, Apply(s) PROVE Inv'
<1> DEFINE e == sync[s].event
           found == sync[s].found
<1>1. /\ sync[s].stage = "apply"
      /\ index' = IF found # 0 THEN index \cup {[memory |-> e.memory, version |-> found]}
                  ELSE {p \in index : p.memory # e.memory}
      /\ UNCHANGED <<item, plan, commands, due, processing, completed, forfeited>>
  BY DEF Apply, outbox
<1>2. e \in Event /\ e \in processing /\ e.memory \in Memories /\ found \in Nat
        /\ e \notin sync[s].todo
  BY <1>1, AtEvent DEF Stand
<1>3. PICK state \in Stand :
        /\ sync' = [sync EXCEPT ![s] = state]
        /\ state.todo = sync[s].todo /\ state.stage = "complete"
        /\ state.event = e /\ state.found = found
  <2>1. PICK old \in Stand : old = sync[s]
    BY <1>1, AtEvent
  <2>2. sync' = [sync EXCEPT ![s] = [old EXCEPT !.stage = "complete"]]
    BY ONLY <2>1, Apply(s) DEF Apply
  <2>3. LET q == [old EXCEPT !.stage = "complete"] IN
        /\ q \in Stand /\ q.todo = old.todo /\ q.stage = "complete"
        /\ q.event = old.event /\ q.found = old.found
    BY ONLY old \in Stand DEF Stand
  <2> QED BY ONLY <2>1, <2>2, <2>3
<1>4. /\ found = 0 => ~Retrievable(e.memory)
      /\ found # 0 => e = UpsertOf(e.memory, found)
  BY <1>1 DEF Inv, HandKnows, Knows
<1>5. found # 0 => e.version = found
  BY <1>2, <1>4 DEF UpsertOf
<1> HIDE DEF e, found
<1>6. /\ RowsSound' /\ OneSuccessor' /\ PlansHold'
      /\ sync' \in [Synchronizers -> Stand] /\ sync'[s] = state
      /\ \A t \in Synchronizers : t # s => sync'[t] = sync[t] /\ Hand(t)' = Hand(t)
  BY <1>1, <1>3, OthersKeep
<1>7. TypeOK'
  <2>1. index' \subseteq Point
    BY <1>1, <1>2 DEF Inv, TypeOK, Point
  <2> QED BY <2>1, <1>1, <1>6 DEF Inv, TypeOK
<1>8. EventsTell'
  BY <1>1, KnownKeeps DEF Known
<1>9. PointsAskedFor'
  <2> SUFFICES ASSUME NEW p \in index' PROVE UpsertOf(p.memory, p.version) \in Known'
    BY DEF PointsAskedFor, UpsertOf
  <2>1. Known' = Known
    BY <1>1 DEF Known
  <2>2. CASE p \in index
    BY <2>1, <2>2 DEF Inv, PointsAskedFor
  <2>3. CASE p \notin index
    <3>1. found # 0 /\ p = [memory |-> e.memory, version |-> found]
      BY <2>3, <1>1
    <3>2. UpsertOf(p.memory, p.version) = e
      BY <3>1, <1>4
    <3> QED BY <3>2, <2>1, <1>2 DEF Known
  <2> QED BY <2>2, <2>3
<1>10. InOneHand' /\ Accounted'
  <2>1. Hand(s)' = Hand(s)
    BY <1>1, <1>3, <1>6 DEF Hand, e
  <2>2. \A t \in Synchronizers : Hand(t)' = Hand(t)
    BY <2>1, <1>6
  <2>3. \A t \in Synchronizers : sync'[t].stage # "next" =>
          sync'[t].event \in Event /\ sync'[t].event \notin sync'[t].todo
    BY <1>2, <1>3, <1>6 DEF Inv, InOneHand
  <2> QED BY <2>2, <2>3, <1>1 DEF Inv, InOneHand, Accounted
<1>11. \A m \in Memories : Retrievable(m) /\ PointOf(m) \in index => PointOf(m) \in index'
  BY <1>1, <1>4 DEF PointOf
<1>12. \A m \in Memories : (Retrievable(m)' <=> Retrievable(m)) /\ PointOf(m)' = PointOf(m)
  BY <1>1 DEF Retrievable, IsActive, PointOf
<1>13. Retrievable(e.memory) => PointOf(e.memory) \in index'
  <2> SUFFICES ASSUME Retrievable(e.memory) PROVE PointOf(e.memory) \in index'
    OBVIOUS
  <2>1. found # 0 /\ e.op = "upsert" /\ e.version = found
    BY <1>4, <1>5 DEF UpsertOf
  <2>2. Tells(e)
    BY <1>2 DEF Inv, EventsTell, Known
  <2>3. item[e.memory].version = found
    BY <2>1, <2>2 DEF Tells, Retrievable
  <2> QED BY <2>1, <2>3, <1>1 DEF PointOf
<1>14. HandKnows'
  <2> SUFFICES ASSUME NEW t \in Synchronizers PROVE Knows(t)'
    BY DEF HandKnows
  <2>1. CASE t = s
    BY <2>1, <1>2, <1>3, <1>6, <1>12, <1>13 DEF Knows
  <2>2. CASE t # s
    <3>1. sync'[t] = sync[t] /\ (sync[t].stage # "next" => sync[t].event.memory \in Memories)
      BY <2>2, <1>6, AtEvent
    <3>2. Knows(t)
      BY DEF Inv, HandKnows
    <3> QED BY <3>1, <3>2, <1>11, <1>12 DEF Knows, Inv, TypeOK, Stand, UpsertOf
  <2> QED BY <2>1, <2>2
<1>15. Carried'
  BY <1>1, <1>11, <1>12 DEF Inv, Carried, UpsertOf
<1> QED BY <1>6, <1>7, <1>8, <1>9, <1>10, <1>14, <1>15 DEF Inv

(* A synchronizer gives an event out of its hand, or all of them.          *)
LEMMA HandsOpen ==
  ASSUME Inv, NEW s \in Synchronizers, NEW kept \in SUBSET sync[s].todo,
         sync' = [sync EXCEPT ![s] = Before(kept)],
         \/ UNCHANGED processing /\ forfeited' = forfeited \cup Hand(s) /\ kept = {}
         \/ /\ sync[s].stage # "next" /\ processing' = processing \ {sync[s].event}
            /\ UNCHANGED forfeited /\ kept = sync[s].todo,
         UNCHANGED <<item, plan, commands, index>>
  PROVE  /\ RowsSound' /\ OneSuccessor' /\ PlansHold'
         /\ InOneHand' /\ Accounted' /\ HandKnows'
         /\ sync' \in [Synchronizers -> Stand]
<1> DEFINE state == Before(kept)
<1>1. state.todo = kept /\ state.stage = "next" /\ state \in Stand
  BY DEF Before, Stand, Inv, TypeOK
<1> HIDE DEF state
<1>2. /\ RowsSound' /\ OneSuccessor' /\ PlansHold'
      /\ sync' \in [Synchronizers -> Stand] /\ sync'[s] = state
      /\ \A t \in Synchronizers : t # s => sync'[t] = sync[t] /\ Hand(t)' = Hand(t)
  BY <1>1, OthersKeep DEF state
<1>3. InOneHand'
  <2>1. Hand(s)' = kept
    BY <1>1, <1>2 DEF Hand
  <2>2. \A t \in Synchronizers : Hand(t)' \subseteq Hand(t)
    BY <2>1, <1>2 DEF Hand
  <2>3. \A t \in Synchronizers : Hand(t)' \subseteq processing'
    <3> TAKE t \in Synchronizers
    <3>1. CASE UNCHANGED processing
      BY <3>1, <2>2 DEF Inv, InOneHand
    <3>2. CASE sync[s].stage # "next" /\ processing' = processing \ {sync[s].event}
      <4>1. sync[s].event \in Hand(s)
        BY <3>2 DEF Hand
      <4>2. sync[s].event \notin Hand(t)'
        BY <4>1, <3>2, <2>1, <2>2 DEF Inv, InOneHand
      <4> QED BY <4>2, <3>2, <2>2 DEF Inv, InOneHand
    <3> QED BY <3>1, <3>2
  <2>4. \A t, u \in Synchronizers : t # u => Hand(t)' \cap Hand(u)' = {}
    BY <2>2 DEF Inv, InOneHand
  <2>5. \A t \in Synchronizers : sync'[t].stage # "next" =>
          sync'[t].event \in Event /\ sync'[t].event \notin sync'[t].todo
    BY <1>1, <1>2 DEF Inv, InOneHand
  <2> QED BY <2>3, <2>4, <2>5 DEF InOneHand
<1>4. HandKnows'
  BY <1>1, <1>2 DEF Inv, HandKnows, Knows, Retrievable, IsActive, PointOf, UpsertOf
<1>5. Accounted'
  <2>1. Hand(s)' = kept
    BY <1>1, <1>2 DEF Hand
  <2>2. CASE UNCHANGED processing /\ forfeited' = forfeited \cup Hand(s) /\ kept = {}
    BY <2>1, <2>2, <1>2 DEF Inv, Accounted, InOneHand
  <2>3. CASE /\ sync[s].stage # "next" /\ processing' = processing \ {sync[s].event}
             /\ UNCHANGED forfeited /\ kept = sync[s].todo
    <3>1. Hand(s) = kept \cup {sync[s].event}
      BY <2>3 DEF Hand
    <3> QED BY <3>1, <2>1, <2>3, <1>2 DEF Inv, Accounted, InOneHand
  <2> QED BY <2>2, <2>3
<1> QED BY <1>2, <1>3, <1>4, <1>5

LEMMA CompleteKeeps ==
  ASSUME Inv, NEW s \in Synchronizers, Complete(s) PROVE Inv'
<1> DEFINE e == sync[s].event
<1>1. /\ sync[s].stage = "complete" /\ processing' = processing \ {e}
      /\ completed' = completed \cup {e}
      /\ sync' = [sync EXCEPT ![s] = Before(sync[s].todo)]
      /\ UNCHANGED <<item, plan, commands, due, forfeited, index>>
  BY DEF Complete
<1>2. e \in Event /\ e \in processing
  BY <1>1, AtEvent
<1>3. /\ RowsSound' /\ OneSuccessor' /\ PlansHold'
      /\ InOneHand' /\ Accounted' /\ HandKnows'
      /\ sync' \in [Synchronizers -> Stand]
  BY <1>1, HandsOpen
<1>4. Retrievable(e.memory) => PointOf(e.memory) \in index
  BY <1>1 DEF Inv, HandKnows, Knows
<1> HIDE DEF e
<1>5. TypeOK'
  BY <1>1, <1>2, <1>3 DEF Inv, TypeOK
<1>6. Known' = Known
  BY <1>1, <1>2 DEF Known
<1>7. EventsTell' /\ PointsAskedFor'
  BY <1>1, <1>6, KnownKeeps
<1>8. Carried'
  <2> SUFFICES ASSUME NEW m \in Memories, Retrievable(m)
               PROVE  \/ PointOf(m) \in index
                      \/ UpsertOf(m, item[m].version) \in due' \cup processing'
    BY <1>1 DEF Carried, Retrievable, IsActive, PointOf, UpsertOf
  <2>1. CASE UpsertOf(m, item[m].version) = e
    BY <2>1, <1>4 DEF UpsertOf
  <2>2. CASE UpsertOf(m, item[m].version) # e
    BY <2>2, <1>1 DEF Inv, Carried
  <2> QED BY <2>1, <2>2
<1> QED BY <1>3, <1>5, <1>7, <1>8 DEF Inv

LEMMA FailKeeps ==
  ASSUME Inv, NEW s \in Synchronizers, Fail(s) PROVE Inv'
<1> DEFINE e == sync[s].event
<1>1. /\ sync[s].stage # "next" /\ processing' = processing \ {e}
      /\ due' = due \cup {e}
      /\ sync' = [sync EXCEPT ![s] = Before(sync[s].todo)]
      /\ UNCHANGED <<item, plan, commands, completed, forfeited, index>>
  BY DEF Fail
<1>2. e \in Event /\ e \in processing
  BY <1>1, AtEvent
<1>3. /\ RowsSound' /\ OneSuccessor' /\ PlansHold'
      /\ InOneHand' /\ Accounted' /\ HandKnows'
      /\ sync' \in [Synchronizers -> Stand]
  BY <1>1, HandsOpen
<1> HIDE DEF e
<1>4. TypeOK'
  BY <1>1, <1>2, <1>3 DEF Inv, TypeOK
<1>5. Known' = Known
  BY <1>1, <1>2 DEF Known
<1>6. EventsTell' /\ PointsAskedFor'
  BY <1>1, <1>5, KnownKeeps
<1>7. Carried'
  BY <1>1 DEF Inv, Carried, Retrievable, IsActive, PointOf, UpsertOf
<1> QED BY <1>3, <1>4, <1>6, <1>7 DEF Inv

LEMMA AbandonKeeps ==
  ASSUME Inv, NEW s \in Synchronizers, Abandon(s) PROVE Inv'
<1>1. /\ UNCHANGED <<item, plan, commands, due, processing, completed, index>>
      /\ sync' = [sync EXCEPT ![s] = Before({})]
      /\ forfeited' = forfeited \cup Hand(s)
  BY DEF Abandon, Idle
<1>2. /\ RowsSound' /\ OneSuccessor' /\ PlansHold'
      /\ InOneHand' /\ Accounted' /\ HandKnows'
      /\ sync' \in [Synchronizers -> Stand]
  BY <1>1, HandsOpen
<1>3. TypeOK'
  <2>1. Hand(s) \subseteq Event
    BY DEF Inv, TypeOK, InOneHand
  <2> QED BY <1>1, <1>2, <2>1 DEF Inv, TypeOK
<1>4. EventsTell' /\ PointsAskedFor'
  BY <1>1, KnownKeeps DEF Known
<1>5. Carried'
  BY <1>1 DEF Inv, Carried, Retrievable, IsActive, PointOf, UpsertOf
<1> QED BY <1>2, <1>3, <1>4, <1>5 DEF Inv

(* A step that changes nothing.                                            *)
LEMMA StutterKeeps ==
  ASSUME Inv, UNCHANGED vars PROVE Inv'
<1>1. /\ UNCHANGED <<item, plan, commands, index, sync>>
      /\ UNCHANGED <<due, processing, completed, forfeited>>
  BY DEF vars, outbox
<1>2. TypeOK' /\ RowsSound' /\ OneSuccessor'
  BY <1>1 DEF Inv, TypeOK, RowsSound, OneSuccessor, Exists
<1>3. \A n \in Memories : Advances(n) /\ Announced(n)
  BY <1>1 DEF Advances, Announced, Retrievable, IsActive
<1>4. \A e \in due' \ due : Tells(e)'
  BY <1>1
<1> QED BY <1>1, <1>2, <1>3, <1>4, RowsAdvance DEF Inv

---------------------------------------------------------------------------
(* The invariant, and what follows.                                        *)

(* Every step keeps it.                                                    *)
LEMMA StepsKeep == Inv /\ [Next]_vars => Inv'
<1> SUFFICES ASSUME Inv, [Next]_vars PROVE Inv'
  OBVIOUS
<1>1. ASSUME NEW w \in Writers, Commands(w) PROVE Inv'
  BY <1>1, ReadsKeep, CreateKeeps, MergeKeeps, SupersedeKeeps, TransitionKeeps, RefuseKeeps
  DEF Commands
<1>2. ASSUME NEW m \in Memories, Expire(m) PROVE Inv'
  BY <1>2, ExpireKeeps
<1>3. ASSUME NEW s \in Synchronizers, Drains(s) PROVE Inv'
  BY <1>3, ClaimKeeps, LookUpKeeps, ApplyKeeps, CompleteKeeps, FailKeeps, AbandonKeeps
  DEF Drains
<1>4. CASE UNCHANGED vars
  BY <1>4, StutterKeeps
<1> QED BY <1>1, <1>2, <1>3, <1>4 DEF Next

(* The inductive invariant holds.                                          *)
THEOREM Invariant == Spec => []Inv
BY Starts, StepsKeep, PTL DEF Spec

(* The types, and an event has one status                                  *)
(* (postgres_repository.py: the rows and the outbox).                      *)
THEOREM MemoriesTyped == Spec => []TypeOK
<1>1. Inv => TypeOK
  BY DEF Inv
<1> QED BY <1>1, Invariant, PTL

(* A retrievable memory has its point, or an event that is due or in the   *)
(* hands of a drain at work, unless the drain that had claimed the event   *)
(* ended with it: what is processing is in one hand, or is forfeited       *)
(* (index_sync.py, drain).                                                 *)
THEOREM MemoriesFound == Spec => []NothingUnindexed
<1>1. Inv => NothingUnindexed
  <2> SUFFICES ASSUME Inv, NEW m \in Memories, Retrievable(m),
                      UpsertOf(m, item[m].version) \notin forfeited,
                      UpsertOf(m, item[m].version) \in processing
               PROVE  \E s \in Synchronizers : UpsertOf(m, item[m].version) \in Hand(s)
    BY DEF NothingUnindexed, Inv, Carried
  <2> QED BY DEF Inv, Accounted
<1> QED BY <1>1, Invariant, PTL

(* A point whose version is that of its memory is never one of a memory    *)
(* that has ended: every point was asked for by an upsert, and an upsert   *)
(* of the current version means that the memory is active                  *)
(* (semantic_retrieval.py, the check of the hits).                         *)
THEOREM StaleIsSeen == Spec => []VersionTellsActive
<1>1. Inv => VersionTellsActive
  <2> SUFFICES ASSUME Inv, NEW p \in index, item[p.memory].version = p.version
               PROVE  IsActive(p.memory)
    BY DEF VersionTellsActive
  <2>1. Tells(UpsertOf(p.memory, p.version))
    BY DEF Inv, PointsAskedFor, EventsTell
  <2> QED BY <2>1 DEF Tells, UpsertOf
<1> QED BY <1>1, Invariant, PTL

(* The memories whose point passes the comparison of versions.             *)
Found == {p.memory : p \in {q \in index : item[q.memory].version = q.version}}

(* When nothing is left in the outbox, not even what drains that ended    *)
(* left processing, a search that drops what its version tells to be stale *)
(* has every retrievable memory before it, and of the others at most       *)
(* active ones that have expired: dead memories do not come back by a late *)
(* upsert, and no failure that was retried has cost one                    *)
(* (index_sync.py, drain, and the check of the hits in                     *)
(* semantic_retrieval.py).                                                 *)
SettledIndex ==
  due = {} /\ processing = {} =>
    \A m \in Memories : /\ Retrievable(m) => m \in Found
                        /\ m \in Found => Retrievable(m) \/ item[m].expired

(* With an empty outbox the index shows what the rows say.                 *)
THEOREM SearchesSettle == Spec => []SettledIndex
<1>1. Inv /\ VersionTellsActive => SettledIndex
  <2> SUFFICES ASSUME Inv, VersionTellsActive, due = {}, processing = {},
                      NEW m \in Memories
               PROVE  /\ Retrievable(m) => m \in Found
                      /\ m \in Found => Retrievable(m) \/ item[m].expired
    BY DEF SettledIndex
  <2>1. ASSUME Retrievable(m) PROVE m \in Found
    <3>1. PointOf(m) \in index
      BY <2>1 DEF Inv, Carried
    <3>2. PointOf(m).memory = m /\ PointOf(m).version = item[m].version
      BY DEF PointOf
    <3> QED BY <3>1, <3>2 DEF Found
  <2>2. ASSUME m \in Found PROVE IsActive(m)
    BY <2>2 DEF Found, VersionTellsActive
  <2> QED BY <2>1, <2>2 DEF Retrievable
<1> QED BY <1>1, Invariant, StaleIsSeen, PTL

(* Corrections of one memory never fork its history                        *)
(* (postgres_repository.py, supersede).                                    *)
THEOREM HistoryIsALine == Spec => []OneSuccessor
<1>1. Inv => OneSuccessor
  BY DEF Inv
<1> QED BY <1>1, Invariant, PTL

(* A proposal of the model that was decided on a candidate finds the       *)
(* candidate, or the version it read is gone.                              *)
LEMMA EvidenceStays ==
  ASSUME Inv, [Next]_vars, NEW m \in Memories,
         item[m].status \notin {"absent", "candidate"}
  PROVE  item'[m].unverified = item[m].unverified
<1>0. item[m] \in Row
  BY DEF Inv, TypeOK
<1>1. ASSUME NEW w \in Writers, CommitCreate(w)
      PROVE  item'[m].unverified = item[m].unverified
  <2>1. PICK n \in Memories, new \in {NewRow(w, 1, None, FALSE)} :
          ~Exists(n) /\ item' = [item EXCEPT ![n] = new]
    BY <1>1 DEF CommitCreate
  <2> QED BY <2>1 DEF Inv, TypeOK, Exists
<1>2. ASSUME NEW w \in Writers, CommitMerge(w)
      PROVE  item'[m].unverified = item[m].unverified
  <2>1. plan[w] \in Plan /\ Holds(plan[w]) /\ plan[w].op = "merge" /\ Unchanged(w)
    BY <1>2, PlanOf DEF CommitMerge
  <2>2. plan[w].target \in Memories
          /\ item' = [item EXCEPT ![plan[w].target] = item'[plan[w].target]]
    BY <1>2, <2>1 DEF CommitMerge, Holds, Inv, TypeOK
  <2>3. CASE plan[w].target # m
    BY <2>2, <2>3 DEF Inv, TypeOK
  <2>4. CASE plan[w].target = m
    <3>1. plan[w].source # "inferred"
      BY <2>1, <2>4 DEF Holds, Unchanged
    <3>2. item' = [item EXCEPT ![m] =
                     [item[m] EXCEPT !.unverified = item[m].unverified \cup {}]]
      BY ONLY <1>2, <2>4, <3>1 DEF CommitMerge
    <3>3. item'[m] = [item[m] EXCEPT !.unverified = item[m].unverified \cup {}]
      BY ONLY <3>2, m \in Memories, Inv DEF Inv, TypeOK
    <3>4. item[m].unverified \cup {} = item[m].unverified
      OBVIOUS
    <3>5. item[m].unverified \in SUBSET Writers
      BY <1>0 DEF Row
    <3> QED BY ONLY <1>0, <3>3, <3>4, <3>5, EvidenceChanged
  <2> QED BY <2>3, <2>4
<1>3. ASSUME NEW w \in Writers, CommitSupersede(w)
      PROVE  item'[m].unverified = item[m].unverified
  <2>1. PICK n \in Memories, old \in {plan[w].target},
              new \in {NewRow(w, plan[w].version + 1, plan[w].target, expired) :
                          expired \in {FALSE, item[plan[w].target].expired}} :
          ~Exists(n) /\ item' = [item EXCEPT ![old] = Moved(old, "superseded"), ![n] = new]
    BY <1>3 DEF CommitSupersede
  <2>2. old \in Memories /\ n # m
    BY <1>3, <2>1, PlanOf DEF CommitSupersede, Holds, Exists
  <2>3. CASE old # m
    BY <2>1, <2>2, <2>3 DEF Inv, TypeOK
  <2>4. CASE old = m
    <3>1. item'[m] = Moved(m, "superseded")
      BY <2>1, <2>2, <2>4 DEF Inv, TypeOK
    <3> QED BY <3>1, RowMoved DEF Inv, Statuses
  <2> QED BY <2>3, <2>4
<1>4. ASSUME NEW w \in Writers, CommitTransition(w)
      PROVE  item'[m].unverified = item[m].unverified
  <2>1. PICK n \in Memories, goal \in Statuses : item' = [item EXCEPT ![n] = Moved(n, goal)]
    BY <1>4, PlanOf DEF CommitTransition, Holds, Statuses
  <2>2. CASE n # m
    BY <2>1, <2>2 DEF Inv, TypeOK
  <2>3. CASE n = m
    <3>1. item'[m] = Moved(m, goal)
      BY <2>1, <2>3 DEF Inv, TypeOK
    <3> QED BY <3>1, RowMoved DEF Inv
  <2> QED BY <2>2, <2>3
<1>5. ASSUME NEW n \in Memories, Expire(n)
      PROVE  item'[m].unverified = item[m].unverified
  <2>1. item' = [item EXCEPT ![n] = [item[n] EXCEPT !.expired = TRUE]]
    BY ONLY <1>5 DEF Expire
  <2>2. CASE n # m
    BY <2>1, <2>2 DEF Inv, TypeOK
  <2>3. CASE n = m
    <3>1. item'[m] = [item[m] EXCEPT !.expired = TRUE]
      BY ONLY <2>1, <2>3, m \in Memories, Inv DEF Inv, TypeOK
    <3> QED BY ONLY <1>0, <3>1, TimePassed
  <2> QED BY <2>2, <2>3
<1>6. ASSUME NEW w \in Writers,
             Propose(w) \/ Remember(w) \/ Correct(w) \/ Review(w) \/ Refuse(w)
      PROVE  item'[m].unverified = item[m].unverified
  BY <1>6 DEF Propose, Remember, Correct, Review, Confirm, Reject, Revoke, Refuse, Plans
<1>7. ASSUME NEW s \in Synchronizers, Drains(s)
      PROVE  item'[m].unverified = item[m].unverified
  BY <1>7 DEF Drains, Claim, LookUp, Apply, Complete, Fail, Abandon
<1>8. CASE UNCHANGED vars
  BY <1>8 DEF vars
<1> QED BY <1>1, <1>2, <1>3, <1>4, <1>5, <1>6, <1>7, <1>8 DEF Next, Commands

(* What a person has decided on gets no evidence of the model afterwards   *)
(* (command_service.py, _create_or_merge).                                 *)
THEOREM DecidedStaysDecided == Spec => EvidenceReviewed
<1>1. Inv /\ [Next]_vars =>
        [\A m \in Memories : item[m].status \notin {"absent", "candidate"}
           => item'[m].unverified = item[m].unverified]_vars
  BY EvidenceStays
<1> QED BY <1>1, Invariant, PTL DEF Spec, EvidenceReviewed
=============================================================================
