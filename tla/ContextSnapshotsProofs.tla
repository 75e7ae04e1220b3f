----------------------- MODULE ContextSnapshotsProofs -----------------------
(***************************************************************************)
(* What ContextSnapshots promises for sessions of every length and any     *)
(* number of faults.  The inductive invariant says what the tables hold    *)
(* (Kept), how memory follows them while a session is loaded (Follows),    *)
(* and what is in hand at each place of a compaction (InHand).             *)
(***************************************************************************)
EXTENDS ContextSnapshots, WellFoundedInduction, TLAPS

(* Every call has its result in the log, at or after it.                   *)
Answered(events, texts) ==
  \A s \in DOMAIN events :
    events[s] # 0 /\ texts[events[s]] = "call"
      => \E r \in s .. Len(events) : events[r] = events[s] + 1

Live(rows) == {i \in DOMAIN rows : rows[i].st # "prepared"}

(* a is the newest activated row, and the one active row; 0 if there is    *)
(* none.                                                                   *)
Points(rows, a) ==
  /\ a \in {0} \cup Live(rows)
  /\ \A i \in Live(rows) : i <= a
  /\ \A i \in DOMAIN rows : (rows[i].st = "active") = (i = a)

Linked(rows) ==
  \A i \in Live(rows) : rows[i].prev = Greatest({0} \cup {j \in Live(rows) : j < i})

Fits(rows, n) ==
  \A i \in DOMAIN rows : rows[i].covers # {} /\ rows[i].covers \subseteq 1 .. n

(* The tables.                                                             *)
Kept ==
  /\ Mirrors(saved.log, saved.messages) /\ Answered(saved.log, saved.messages)
  /\ Fits(saved.snaps, Len(saved.log))
  /\ Points(saved.snaps, ActiveRow(saved.snaps))
  /\ Linked(saved.snaps)

(* Memory while the session is loaded.                                     *)
Follows ==
  Up => /\ snaps = saved.snaps /\ active = ActiveRow(saved.snaps)
        /\ Len(saved.log) <= Len(log)
        /\ Mirrors(log, messages) /\ Answered(log, messages)
        /\ boundary <= Len(log)
        /\ RestartArchivesNothing

(* The places of a turn.                                                   *)
Built == {"build", "compact", "prepared", "activated"}

InHand ==
  /\ at \notin {"down", "idle"} => turn \in 1 .. Len(messages)
  /\ at \in Built => /\ saved.messages = messages
                     /\ Len(log) > 0 /\ log[Len(log)] = 0
  /\ at \in Built \ {"build"} => kept > 0 /\ EventsBefore(kept) # {}
  /\ at = "prepared" => Len(snaps) > 0 /\ snaps[Len(snaps)] = Draft
  /\ at = "activated" => /\ active = Len(snaps) /\ active > 0
                         /\ snaps[active].covers = EventsBefore(kept)
                         /\ ~snaps[active].archived

Inv == TypeOK /\ Kept /\ Follows /\ InHand

---------------------------------------------------------------------------
(* The greatest element of a set of numbers.                               *)

(* A bounded nonempty set of naturals has the greatest element that        *)
(* Greatest chooses.                                                       *)
LEMMA GreatestIs ==
  ASSUME NEW S \in SUBSET Nat, S # {}, NEW n \in Nat, \A s \in S : s <= n
  PROVE  Greatest(S) \in S /\ \A s \in S : s <= Greatest(S)
<1> DEFINE B == {b \in Nat : \A s \in S : s <= b}
<1>1. IsWellFoundedOn(OpToRel(<, Nat), Nat)
  BY NatLessThanWellFounded
<1>2. PICK b \in B : \A c \in B : <<c, b>> \notin OpToRel(<, Nat)
  <2>1. B \subseteq Nat /\ B # {}
    OBVIOUS
  <2> HIDE DEF B
  <2> QED BY <1>1, <2>1, WFMin
<1>3. \A c \in B : ~(c < b)
  BY <1>2 DEF OpToRel
<1>4. b \in S
  <2> SUFFICES ASSUME b \notin S PROVE FALSE
    OBVIOUS
  <2>1. b \in Nat /\ \A s \in S : s < b
    OBVIOUS
  <2>2. b - 1 \in Nat
    <3>1. PICK s \in S : TRUE
      OBVIOUS
    <3>2. s \in Nat /\ s < b
      BY <3>1, <2>1
    <3> QED BY <3>2, <2>1
  <2>3. \A s \in S : s <= b - 1
    BY <2>1
  <2>4. b - 1 \in B
    BY <2>2, <2>3
  <2>5. ~(b - 1 < b)
    BY <2>4, <1>3
  <2> QED BY <2>1, <2>5
<1> QED BY <1>4 DEF Greatest

(* A bound that belongs to the set is its greatest element.                *)
LEMMA GreatestOf ==
  ASSUME NEW S \in SUBSET Nat, NEW n \in S, \A s \in S : s <= n
  PROVE  Greatest(S) = n
<1>1. n \in Nat /\ S # {}
  OBVIOUS
<1>2. Greatest(S) \in S /\ \A s \in S : s <= Greatest(S)
  BY <1>1, GreatestIs
<1>3. Greatest(S) <= n /\ n <= Greatest(S) /\ Greatest(S) \in Nat
  BY <1>2
<1> QED BY <1>1, <1>3

(* The last event of a row of a log of n events.                           *)
LEMMA LastIs ==
  ASSUME NEW rows \in Seq(Snapshots), NEW n \in Nat, Fits(rows, n),
         NEW i \in DOMAIN rows
  PROVE  Last(rows[i]) \in rows[i].covers /\ Last(rows[i]) \in 1 .. n
<1>1. rows[i].covers # {} /\ rows[i].covers \subseteq 1 .. n
  BY DEF Fits
<1>2. rows[i].covers \in SUBSET Nat /\ \A s \in rows[i].covers : s <= n
  BY <1>1
<1>3. Greatest(rows[i].covers) \in rows[i].covers
  BY <1>1, <1>2, GreatestIs
<1> QED BY <1>1, <1>3 DEF Last

(* The pointer of rows that have one active row.                           *)
LEMMA PointerIs ==
  ASSUME NEW rows \in Seq(Snapshots), NEW a \in Nat, Points(rows, a)
  PROVE  ActiveRow(rows) = a
<1> DEFINE live == {i \in DOMAIN rows : rows[i].st = "active"}
<1>1. ActiveRow(rows) = IF live = {} THEN 0 ELSE Greatest(live)
  BY DEF ActiveRow
<1>2. live \in SUBSET Nat /\ DOMAIN rows \subseteq Nat \ {0}
  OBVIOUS
<1>3. CASE a = 0
  <2>1. live = {}
    BY <1>2, <1>3 DEF Points
  <2> QED BY <1>1, <1>3, <2>1
<1>4. CASE a # 0
  <2>1. a \in DOMAIN rows /\ live = {a}
    BY <1>4 DEF Points, Live
  <2>2. a \in live /\ \A s \in live : s <= a
    BY <2>1
  <2>3. Greatest(live) = a
    BY <1>2, <2>2, GreatestOf
  <2> QED BY <1>1, <2>2, <2>3
<1> QED BY <1>3, <1>4

(* What the rows restore: the events of the pointed row if it is archived. *)
LEMMA RestoredIs ==
  ASSUME NEW rows \in Seq(Snapshots), NEW n \in Nat, Fits(rows, n),
         NEW a \in Nat, Points(rows, a)
  PROVE  RestoredBoundary(rows) =
           IF a # 0 /\ rows[a].archived THEN Last(rows[a]) ELSE 0
<1> DEFINE done == {j \in DOMAIN rows : rows[j].st = "active" /\ rows[j].archived}
           ends == {0} \cup {Last(rows[i]) : i \in done}
<1>1. RestoredBoundary(rows) = Greatest(ends)
  BY DEF RestoredBoundary
<1>2. DOMAIN rows \subseteq Nat \ {0}
  OBVIOUS
<1>3. CASE a # 0 /\ rows[a].archived
  <2>1. a \in DOMAIN rows /\ done = {a}
    BY <1>3 DEF Points, Live
  <2>2. Last(rows[a]) \in 1 .. n
    BY <2>1, LastIs
  <2>3. ends = {0, Last(rows[a])}
    BY <2>1
  <2> HIDE DEF done, ends
  <2>4. ends \in SUBSET Nat /\ Last(rows[a]) \in ends
        /\ \A s \in ends : s <= Last(rows[a])
    BY <2>2, <2>3
  <2>5. Greatest(ends) = Last(rows[a])
    BY <2>4, GreatestOf
  <2> QED BY <1>1, <1>3, <2>5
<1>4. CASE ~(a # 0 /\ rows[a].archived)
  <2>1. done = {}
    BY <1>2, <1>4 DEF Points
  <2>2. ends = {0}
    BY <2>1
  <2> HIDE DEF done, ends
  <2>3. ends \in SUBSET Nat /\ 0 \in ends /\ \A s \in ends : s <= 0
    BY <2>2
  <2>4. Greatest(ends) = 0
    BY <2>3, GreatestOf
  <2> QED BY <1>1, <1>4, <2>4
<1> QED BY <1>3, <1>4

(* The boundary is safe where it was asked for when every call has its     *)
(* result within the log and the log ends there.                           *)
LEMMA BoundarySafe ==
  ASSUME log \in Seq(Nat), Answered(log, messages)
  PROVE  SafeBoundary(Len(log)) = Len(log)
<1> DEFINE S == {b \in 0 .. Len(log) :
                   \A s \in 1 .. b : log[s] # 0 /\ messages[log[s]] = "call"
                                       => \E r \in s .. b : log[r] = log[s] + 1}
<1>1. S \in SUBSET Nat /\ \A s \in S : s <= Len(log)
  OBVIOUS
<1>2. Len(log) \in S
  BY DEF Answered
<1>3. Greatest(S) = Len(log)
  BY <1>1, <1>2, GreatestOf
<1> QED BY <1>3 DEF SafeBoundary

---------------------------------------------------------------------------
(* The log grows with the messages.                                        *)

(* An event without a message.                                             *)
LEMMA CheckpointMirrors ==
  ASSUME NEW l \in Seq(Nat), NEW t \in Seq(Kinds), Mirrors(l, t), Answered(l, t)
  PROVE  Mirrors(Append(l, 0), t) /\ Answered(Append(l, 0), t)
<1> DEFINE e == Append(l, 0)
<1>1. e \in Seq(Nat) /\ Len(e) = Len(l) + 1 /\ e[Len(l) + 1] = 0
      /\ \A s \in 1 .. Len(l) : e[s] = l[s]
  OBVIOUS
<1>2. DOMAIN l = 1 .. Len(l) /\ DOMAIN e = 1 .. Len(l) + 1 /\ Len(l) \in Nat
  BY <1>1
<1> HIDE DEF e
<1>3. Mirrors(e, t)
  <2>1. \A m \in DOMAIN t : \E s \in DOMAIN e : e[s] = m
    BY <1>1, <1>2 DEF Mirrors
  <2>2. \A s, q \in DOMAIN e : e[s] = e[q] /\ s # q => e[s] = 0
    BY <1>1, <1>2 DEF Mirrors
  <2>3. \A s \in DOMAIN e : e[s] \in 0 .. Len(t)
    <3>1. 0 \in 0 .. Len(t)
      OBVIOUS
    <3> QED BY <1>1, <1>2, <3>1 DEF Mirrors
  <2> QED BY <2>1, <2>2, <2>3 DEF Mirrors
<1>4. Answered(e, t)
  <2> SUFFICES ASSUME NEW s \in DOMAIN e, e[s] # 0, t[e[s]] = "call"
               PROVE \E r \in s .. Len(e) : e[r] = e[s] + 1
    BY DEF Answered
  <2>1. s \in 1 .. Len(l) /\ e[s] = l[s]
    BY <1>1, <1>2
  <2>2. PICK r \in s .. Len(l) : l[r] = l[s] + 1
    BY <1>2, <2>1 DEF Answered
  <2> QED BY <1>1, <1>2, <2>1, <2>2
<1> QED BY <1>3, <1>4 DEF e

(* A message and its event.                                                *)
LEMMA MessageMirrors ==
  ASSUME NEW l \in Seq(Nat), NEW t \in Seq(Kinds), Mirrors(l, t), NEW k \in Kinds
  PROVE  Mirrors(Append(l, Len(t) + 1), Append(t, k))
<1> DEFINE e == Append(l, Len(t) + 1)
           u == Append(t, k)
<1>1. e \in Seq(Nat) /\ Len(e) = Len(l) + 1 /\ e[Len(l) + 1] = Len(t) + 1
      /\ \A s \in 1 .. Len(l) : e[s] = l[s]
  OBVIOUS
<1>2. DOMAIN l = 1 .. Len(l) /\ DOMAIN e = 1 .. Len(l) + 1 /\ Len(l) \in Nat
  BY <1>1
<1>3. Len(u) = Len(t) + 1 /\ DOMAIN u = 1 .. Len(t) + 1 /\ DOMAIN t = 1 .. Len(t)
      /\ Len(t) \in Nat
  OBVIOUS
<1> HIDE DEF e, u
<1>4. \A s \in 1 .. Len(l) : l[s] \in 0 .. Len(t)
  BY <1>2 DEF Mirrors
<1>5. \A m \in DOMAIN u : \E s \in DOMAIN e : e[s] = m
  <2> SUFFICES ASSUME NEW m \in DOMAIN u PROVE \E s \in DOMAIN e : e[s] = m
    OBVIOUS
  <2>1. CASE m = Len(t) + 1
    <3>1. Len(l) + 1 \in DOMAIN e
      BY <1>2
    <3> QED BY <1>1, <2>1, <3>1
  <2>2. CASE m # Len(t) + 1
    <3>1. m \in DOMAIN t
      BY <1>3, <2>2
    <3>2. PICK s \in DOMAIN l : l[s] = m
      BY <3>1 DEF Mirrors
    <3> QED BY <1>1, <1>2, <3>2
  <2> QED BY <2>1, <2>2
<1>6. \A s, q \in DOMAIN e : e[s] = e[q] /\ s # q => e[s] = 0
  <2> SUFFICES ASSUME NEW s \in DOMAIN e, NEW q \in DOMAIN e, e[s] = e[q], s # q
               PROVE e[s] = 0
    OBVIOUS
  <2>1. \A r \in 1 .. Len(l) : e[r] # Len(t) + 1
    <3> SUFFICES ASSUME NEW r \in 1 .. Len(l) PROVE l[r] # Len(t) + 1
      BY <1>1
    <3>1. l[r] \in 0 .. Len(t)
      BY <1>4
    <3> QED BY <1>3, <3>1
  <2>2. \A r \in DOMAIN e : r \in 1 .. Len(l) \/ r = Len(l) + 1
    BY <1>2
  <2>3. s \in 1 .. Len(l) /\ q \in 1 .. Len(l)
    BY <1>1, <2>1, <2>2
  <2> QED BY <1>1, <1>2, <2>3 DEF Mirrors
<1>7. \A s \in DOMAIN e : e[s] \in 0 .. Len(u)
  <2> SUFFICES ASSUME NEW s \in DOMAIN e PROVE e[s] \in 0 .. Len(u)
    OBVIOUS
  <2>1. CASE s = Len(l) + 1
    BY <1>1, <1>3, <2>1
  <2>2. CASE s # Len(l) + 1
    <3>1. s \in 1 .. Len(l)
      BY <1>2, <2>2
    <3>2. e[s] = l[s] /\ l[s] \in 0 .. Len(t)
      BY <1>1, <1>4, <3>1
    <3> QED BY <1>3, <3>2
  <2> QED BY <2>1, <2>2
<1>8. Mirrors(e, u)
  BY <1>5, <1>6, <1>7 DEF Mirrors
<1> QED BY <1>8 DEF e, u

(* Unless it is a call, nothing has to follow it.                          *)
LEMMA MessageAnswered ==
  ASSUME NEW l \in Seq(Nat), NEW t \in Seq(Kinds), Mirrors(l, t), Answered(l, t),
         NEW k \in Kinds \ {"call"}
  PROVE  Answered(Append(l, Len(t) + 1), Append(t, k))
<1> DEFINE e == Append(l, Len(t) + 1)
           u == Append(t, k)
<1>1. Len(e) = Len(l) + 1 /\ e[Len(l) + 1] = Len(t) + 1
      /\ \A s \in 1 .. Len(l) : e[s] = l[s]
  OBVIOUS
<1>2. DOMAIN l = 1 .. Len(l) /\ DOMAIN e = 1 .. Len(l) + 1 /\ Len(l) \in Nat
  OBVIOUS
<1>3. u[Len(t) + 1] = k /\ \A m \in 1 .. Len(t) : u[m] = t[m]
  OBVIOUS
<1>4. \A s \in 1 .. Len(l) : l[s] \in 0 .. Len(t)
  BY <1>2 DEF Mirrors
<1> HIDE DEF e, u
<1> SUFFICES ASSUME NEW s \in DOMAIN e, e[s] # 0, u[e[s]] = "call"
             PROVE \E r \in s .. Len(e) : e[r] = e[s] + 1
  BY DEF Answered, e, u
<1>5. s \in 1 .. Len(l)
  BY <1>1, <1>2, <1>3
<1>6. l[s] # 0 /\ t[l[s]] = "call"
  <2>1. l[s] \in 1 .. Len(t)
    BY <1>1, <1>4, <1>5
  <2> QED BY <1>1, <1>3, <1>5, <2>1
<1>7. PICK r \in s .. Len(l) : l[r] = l[s] + 1
  BY <1>2, <1>5, <1>6 DEF Answered
<1> QED BY <1>1, <1>2, <1>5, <1>7

(* A tool transaction: the call's result comes right after it.             *)
LEMMA CallAnswered ==
  ASSUME NEW l \in Seq(Nat), NEW t \in Seq(Kinds), Mirrors(l, t), Answered(l, t)
  PROVE  Answered(Append(Append(l, Len(t) + 1), Len(t) + 2),
                  Append(Append(t, "call"), "result"))
<1> DEFINE e == Append(Append(l, Len(t) + 1), Len(t) + 2)
           u == Append(Append(t, "call"), "result")
<1>1. Len(e) = Len(l) + 2 /\ e[Len(l) + 1] = Len(t) + 1 /\ e[Len(l) + 2] = Len(t) + 2
      /\ \A s \in 1 .. Len(l) : e[s] = l[s]
  <2>1. Append(l, Len(t) + 1) \in Seq(Nat)
        /\ Len(Append(l, Len(t) + 1)) = Len(l) + 1
        /\ Append(l, Len(t) + 1)[Len(l) + 1] = Len(t) + 1
        /\ \A s \in 1 .. Len(l) : Append(l, Len(t) + 1)[s] = l[s]
    OBVIOUS
  <2> QED BY <2>1
<1>2. DOMAIN l = 1 .. Len(l) /\ DOMAIN e = 1 .. Len(l) + 2 /\ Len(l) \in Nat
      /\ Len(t) \in Nat
  <2>1. e \in Seq(Nat)
    OBVIOUS
  <2> QED BY <1>1, <2>1
<1>3. u[Len(t) + 2] = "result" /\ \A m \in 1 .. Len(t) : u[m] = t[m]
  <2>1. Append(t, "call") \in Seq(Kinds) /\ Len(Append(t, "call")) = Len(t) + 1
        /\ \A m \in 1 .. Len(t) : Append(t, "call")[m] = t[m]
    BY DEF Kinds
  <2> QED BY <2>1
<1>4. \A s \in 1 .. Len(l) : l[s] \in 0 .. Len(t)
  BY <1>2 DEF Mirrors
<1> HIDE DEF e, u
<1> SUFFICES ASSUME NEW s \in DOMAIN e, e[s] # 0, u[e[s]] = "call"
             PROVE \E r \in s .. Len(e) : e[r] = e[s] + 1
  BY DEF Answered, e, u
<1>5. CASE s \in 1 .. Len(l)
  <2>1. l[s] \in 1 .. Len(t)
    BY <1>1, <1>4, <1>5
  <2>2. l[s] # 0 /\ t[l[s]] = "call"
    BY <1>1, <1>3, <1>5, <2>1
  <2>3. PICK r \in s .. Len(l) : l[r] = l[s] + 1
    BY <1>2, <1>5, <2>2 DEF Answered
  <2> QED BY <1>1, <1>2, <1>5, <2>3
<1>6. CASE s = Len(l) + 1
  <2>1. Len(l) + 2 \in s .. Len(e) /\ e[Len(l) + 2] = e[s] + 1
    BY <1>1, <1>2, <1>6
  <2> QED BY <2>1
<1>7. s # Len(l) + 2
  BY <1>1, <1>3
<1> QED BY <1>2, <1>5, <1>6, <1>7

(* A call, its result and the end of the turn, whose event comes first.    *)
LEMMA StoppedToolsFit ==
  ASSUME NEW l \in Seq(Nat), NEW t \in Seq(Kinds), Mirrors(l, t), Answered(l, t)
  PROVE  LET e == l \o <<Len(t) + 3, Len(t) + 1, Len(t) + 2>>
             u == t \o <<"call", "result", "text">>
         IN /\ e \in Seq(Nat) /\ u \in Seq(Kinds)
            /\ Len(e) = Len(l) + 3 /\ Len(u) = Len(t) + 3
            /\ Mirrors(e, u) /\ Answered(e, u)
<1> DEFINE n == Len(t)
           k == Len(l)
           e == l \o <<n + 3, n + 1, n + 2>>
           u == t \o <<"call", "result", "text">>
<1>1. n \in Nat /\ k \in Nat
  OBVIOUS
<1>2. /\ e \in Seq(Nat) /\ Len(e) = k + 3 /\ DOMAIN e = 1 .. k + 3
      /\ e[k + 1] = n + 3 /\ e[k + 2] = n + 1 /\ e[k + 3] = n + 2
      /\ \A s \in 1 .. k : e[s] = l[s]
  BY <1>1
<1>3. /\ u \in Seq(Kinds) /\ Len(u) = n + 3 /\ DOMAIN u = 1 .. n + 3
      /\ u[n + 2] = "result" /\ u[n + 3] = "text"
      /\ \A m \in 1 .. n : u[m] = t[m]
  <2>1. <<"call", "result", "text">> \in Seq(Kinds)
    BY DEF Kinds
  <2> QED BY <1>1, <2>1
<1>4. DOMAIN l = 1 .. k /\ DOMAIN t = 1 .. n /\ \A s \in 1 .. k : l[s] \in 0 .. n
  BY DEF Mirrors
<1> HIDE DEF e, u, n, k
<1>5. \A m \in DOMAIN u : \E s \in DOMAIN e : e[s] = m
  <2> SUFFICES ASSUME NEW m \in 1 .. n + 3 PROVE \E s \in 1 .. k + 3 : e[s] = m
    BY <1>2, <1>3
  <2>1. CASE m \in 1 .. n
    <3>1. PICK s \in 1 .. k : l[s] = m
      BY <1>4, <2>1 DEF Mirrors
    <3> QED BY <1>1, <1>2, <3>1
  <2>2. CASE m \in {n + 1, n + 2, n + 3}
    BY <1>1, <1>2, <2>2
  <2> QED BY <1>1, <2>1, <2>2
<1>6. \A s, q \in DOMAIN e : e[s] = e[q] /\ s # q => e[s] = 0
  <2> SUFFICES ASSUME NEW s \in 1 .. k + 3, NEW q \in 1 .. k + 3, e[s] = e[q], s # q
               PROVE  e[s] = 0
    BY <1>2
  <2>1. \A r \in 1 .. k : e[r] \in 0 .. n
    BY <1>2, <1>4
  <2>2. \A r \in 1 .. k + 3 : r \notin 1 .. k => r \in {k + 1, k + 2, k + 3}
    BY <1>1
  <2>3. \A r \in {k + 1, k + 2, k + 3} : e[r] \in {n + 1, n + 2, n + 3}
    BY <1>2
  <2>4. CASE s \in 1 .. k /\ q \in 1 .. k
    BY <1>2, <1>4, <2>4 DEF Mirrors
  <2>5. CASE s \in 1 .. k /\ q \notin 1 .. k
    <3>1. e[s] \in 0 .. n /\ e[q] \in {n + 1, n + 2, n + 3}
      BY <2>1, <2>2, <2>3, <2>5
    <3> QED BY <1>1, <3>1
  <2>6. CASE s \notin 1 .. k /\ q \in 1 .. k
    <3>1. e[q] \in 0 .. n /\ e[s] \in {n + 1, n + 2, n + 3}
      BY <2>1, <2>2, <2>3, <2>6
    <3> QED BY <1>1, <3>1
  <2>7. CASE s \notin 1 .. k /\ q \notin 1 .. k
    <3>1. s \in {k + 1, k + 2, k + 3} /\ q \in {k + 1, k + 2, k + 3}
      BY <2>2, <2>7
    <3>2. n + 1 # n + 2 /\ n + 1 # n + 3 /\ n + 2 # n + 3
      BY <1>1
    <3>3. e[k + 1] # e[k + 2] /\ e[k + 1] # e[k + 3] /\ e[k + 2] # e[k + 3]
      BY <1>2, <3>2
    <3> QED BY <3>1, <3>3
  <2> QED BY <2>4, <2>5, <2>6, <2>7
<1>7. \A s \in DOMAIN e : e[s] \in 0 .. Len(u)
  <2> SUFFICES ASSUME NEW s \in 1 .. k + 3 PROVE e[s] \in 0 .. n + 3
    BY <1>2, <1>3
  <2>1. CASE s \in 1 .. k
    <3>1. e[s] = l[s] /\ l[s] \in 0 .. n
      BY <1>2, <1>4, <2>1
    <3> QED BY <1>1, <3>1
  <2>2. CASE s \in {k + 1, k + 2, k + 3}
    <3>1. n + 1 \in 0 .. n + 3 /\ n + 2 \in 0 .. n + 3 /\ n + 3 \in 0 .. n + 3
      BY <1>1
    <3> QED BY <1>2, <2>2, <3>1
  <2>3. s \in 1 .. k \/ s \in {k + 1, k + 2, k + 3}
    BY <1>1
  <2> QED BY <2>1, <2>2, <2>3
<1>8. Answered(e, u)
  <2> SUFFICES ASSUME NEW s \in 1 .. k + 3, e[s] # 0, u[e[s]] = "call"
               PROVE  \E r \in s .. k + 3 : e[r] = e[s] + 1
    BY <1>2 DEF Answered
  <2>1. CASE s \in 1 .. k
    <3>1. l[s] \in 1 .. n /\ t[l[s]] = "call"
      <4>1. e[s] = l[s] /\ l[s] \in 0 .. n
        BY <1>2, <1>4, <2>1
      <4>2. l[s] \in 1 .. n
        BY <1>1, <4>1
      <4>3. \A m \in 1 .. n : u[m] = t[m]
        BY <1>3
      <4> QED BY <4>1, <4>2, <4>3
    <3>2. PICK r \in s .. k : l[r] = l[s] + 1
      BY <1>4, <2>1, <3>1 DEF Answered, k
    <3> QED BY <1>1, <1>2, <2>1, <3>2
  <2>2. CASE s = k + 2
    <3>1. k + 3 \in s .. k + 3 /\ e[k + 3] = e[s] + 1
      BY <1>1, <1>2, <2>2
    <3> QED BY <3>1
  <2>3. s \notin {k + 1, k + 3}
    BY <1>2, <1>3
  <2> QED BY <1>1, <2>1, <2>2, <2>3
<1>9. Mirrors(e, u)
  BY <1>5, <1>6, <1>7 DEF Mirrors
<1> QED BY <1>2, <1>3, <1>8, <1>9 DEF e, u, n, k

(* The same log, written as the action writes it.                          *)
LEMMA StoppedLog ==
  ASSUME NEW l \in Seq(Nat), NEW a \in Nat, NEW b \in Nat, NEW c \in Nat
  PROVE  Append(l, a) \o <<b, c>> = l \o <<a, b, c>>
<1> DEFINE p == Append(l, a) \o <<b, c>>
           q == l \o <<a, b, c>>
           k == Len(l)
<1>1. k \in Nat
  OBVIOUS
<1>2. /\ p \in Seq(Nat) /\ Len(p) = k + 3
      /\ p[k + 1] = a /\ p[k + 2] = b /\ p[k + 3] = c
      /\ \A i \in 1 .. k : p[i] = l[i]
  <2>1. Append(l, a) \in Seq(Nat) /\ Len(Append(l, a)) = k + 1
        /\ Append(l, a)[k + 1] = a /\ \A i \in 1 .. k : Append(l, a)[i] = l[i]
    BY <1>1
  <2> QED BY <1>1, <2>1
<1>3. /\ q \in Seq(Nat) /\ Len(q) = k + 3
      /\ q[k + 1] = a /\ q[k + 2] = b /\ q[k + 3] = c
      /\ \A i \in 1 .. k : q[i] = l[i]
  BY <1>1
<1> HIDE DEF p, q, k
<1>4. \A i \in 1 .. k + 3 : p[i] = q[i]
  <2> SUFFICES ASSUME NEW i \in 1 .. k + 3 PROVE p[i] = q[i]
    OBVIOUS
  <2>1. i \in 1 .. k \/ i \in {k + 1, k + 2, k + 3}
    BY <1>1
  <2> QED BY <1>2, <1>3, <2>1
<1>5. p = q
  BY <1>2, <1>3, <1>4
<1> QED BY <1>5 DEF p, q

(* The end of the log is what was appended.                                *)
LEMMA BackfillIs ==
  ASSUME NEW l \in Seq(Nat), messages \in Seq(Kinds)
  PROVE  /\ l \o Backfill(Len(messages) + 1) = Append(l, Len(messages) + 1)
         /\ l \o Backfill(Len(messages) + 2)
              = Append(Append(l, Len(messages) + 1), Len(messages) + 2)
<1> DEFINE n == Len(messages)
<1>1. n \in Nat
  OBVIOUS
<1> HIDE DEF n
<1>2. Backfill(n + 1) = <<n + 1>>
  <2>1. Backfill(n + 1) = [k \in 1 .. 1 |-> n + k]
    BY <1>1 DEF Backfill, n
  <2> QED BY <1>1, <2>1
<1>3. Backfill(n + 2) = <<n + 1, n + 2>>
  <2>1. Backfill(n + 2) = [k \in 1 .. 2 |-> n + k]
    BY <1>1 DEF Backfill, n
  <2> QED BY <1>1, <2>1
<1>4. l \o <<n + 1>> = Append(l, n + 1)
      /\ l \o <<n + 1, n + 2>> = Append(Append(l, n + 1), n + 2)
  BY <1>1
<1> QED BY <1>2, <1>3, <1>4 DEF n

---------------------------------------------------------------------------
(* Steps that only let the log and the messages grow.                      *)

(* What the tables and the boundary restore does not change with the log.  *)
LEMMA GrownFollows ==
  ASSUME Inv, Up, UNCHANGED <<snaps, active, boundary>>,
         messages' \in Seq(Kinds), log' \in Seq(Nat),
         Mirrors(log', messages'), Answered(log', messages'),
         Len(log) <= Len(log'),
         \/ saved' = saved
         \/ saved' = [saved EXCEPT !.messages = messages', !.log = log']
  PROVE  Kept' /\ Follows'
<1> USE DEF Inv
<1>1. Len(saved.log) \in Nat /\ Len(log) \in Nat /\ Len(log') \in Nat
      /\ boundary \in Nat
  BY DEF TypeOK
<1>2. saved'.snaps = saved.snaps
      /\ \/ saved'.log = saved.log /\ saved'.messages = saved.messages
         \/ saved'.log = log' /\ saved'.messages = messages'
  BY DEF TypeOK
<1>3. Len(saved.log) <= Len(saved'.log) /\ Len(saved'.log) <= Len(log')
  BY <1>1, <1>2 DEF Follows
<1>4. Len(saved'.log) \in Nat
  BY <1>1, <1>2
<1>5. Kept'
  <2>1. Mirrors(saved'.log, saved'.messages) /\ Answered(saved'.log, saved'.messages)
    BY <1>2 DEF Kept
  <2>2. Fits(saved'.snaps, Len(saved'.log))
    <3>1. 1 .. Len(saved.log) \subseteq 1 .. Len(saved'.log)
      BY <1>1, <1>3, <1>4
    <3> QED BY <1>2, <3>1 DEF Kept, Fits
  <2>3. Points(saved'.snaps, ActiveRow(saved'.snaps)) /\ Linked(saved'.snaps)
    BY <1>2 DEF Kept
  <2> QED BY <2>1, <2>2, <2>3 DEF Kept
<1>6. RestartArchivesNothing'
  BY <1>2 DEF RestartArchivesNothing, Follows, RestoredBoundary
<1>7. Follows'
  BY <1>1, <1>2, <1>3, <1>6 DEF Follows
<1> QED BY <1>5, <1>7

(* A save of a longer log: it succeeds and the turn goes on, or it fails   *)
(* and the run ends.                                                       *)
LEMMA SavesKeeps ==
  ASSUME Inv, Up, NEW texts \in Seq(Kinds), NEW events \in Seq(Nat),
         Mirrors(events, texts), Answered(events, texts), Len(log) <= Len(events),
         NEW next \in {"idle", "step", "build"}, Saves(texts, events, next),
         UNCHANGED <<snaps, active, boundary, kept, prompt>>,
         turn' \in Nat,
         next # "idle" => turn' \in 1 .. Len(texts),
         next = "build" => Len(events) > 0 /\ events[Len(events)] = 0
  PROVE  Inv'
<1>0. messages' = texts /\ log' = events /\ at' \in {"idle", "step", "build"}
  BY DEF Saves
<1>1. saved' = saved \/ saved' = [saved EXCEPT !.messages = messages', !.log = log']
  BY DEF Saves
<1>2. Kept' /\ Follows'
  BY <1>0, <1>1, GrownFollows
<1>3. saved' \in [messages : Seq(Kinds), log : Seq(Nat), snaps : Seq(Snapshots)]
  BY <1>0, <1>1 DEF Inv, TypeOK
<1>4. faults' \in 0 .. MaxFaults
  BY BoundsAssumption DEF Saves, Inv, TypeOK
<1>5. TypeOK'
  BY <1>0, <1>3, <1>4 DEF Inv, TypeOK, Places
<1>6. at' = "build" => saved'.messages = messages'
  BY <1>0 DEF Saves, Inv, TypeOK
<1>7. at' # "idle" => at' = next
  BY DEF Saves
<1>8. InHand'
  BY <1>0, <1>6, <1>7 DEF InHand, Built
<1> QED BY <1>2, <1>5, <1>8 DEF Inv

(* The log with a checkpoint appended.                                     *)
LEMMA CheckpointKeeps ==
  ASSUME Inv, Up
  PROVE  /\ Append(log, 0) \in Seq(Nat) /\ Len(Append(log, 0)) = Len(log) + 1
         /\ Append(log, 0)[Len(Append(log, 0))] = 0
         /\ Mirrors(Append(log, 0), messages) /\ Answered(Append(log, 0), messages)
         /\ Len(log) \in Nat /\ Len(messages) \in Nat
<1>1. log \in Seq(Nat) /\ messages \in Seq(Kinds)
      /\ Mirrors(log, messages) /\ Answered(log, messages)
  BY DEF Inv, TypeOK, Follows
<1>2. Mirrors(Append(log, 0), messages) /\ Answered(Append(log, 0), messages)
  BY <1>1, CheckpointMirrors
<1> QED BY <1>1, <1>2

LEMMA StartTurnKeeps == Inv /\ StartTurn => Inv'
<1> SUFFICES ASSUME Inv, StartTurn PROVE Inv'
  OBVIOUS
<1> DEFINE n == Len(messages)
           e == Append(log, n + 1)
           u == Append(messages, "user")
<1>0. Up /\ log \in Seq(Nat) /\ messages \in Seq(Kinds) /\ n \in Nat
      /\ Mirrors(log, messages) /\ Answered(log, messages)
  BY DEF StartTurn, Up, Inv, TypeOK, Follows
<1>1. "user" \in Kinds \ {"call"} /\ "note" \in Kinds \ {"call"}
  BY DEF Kinds, Asked
<1>2. Mirrors(e, u) /\ Answered(e, u)
  BY <1>0, <1>1, MessageMirrors, MessageAnswered
<1>3. e \in Seq(Nat) /\ u \in Seq(Kinds) /\ Len(u) = n + 1 /\ Len(e) = Len(log) + 1
  BY <1>0, <1>1
<1>4. Mirrors(Append(e, Len(u) + 1), Append(u, "note"))
      /\ Answered(Append(e, Len(u) + 1), Append(u, "note"))
  BY <1>1, <1>2, <1>3, MessageMirrors, MessageAnswered
<1>5. messages \o <<"user", "note">> = Append(u, "note")
  BY <1>0, <1>1
<1>6. log \o <<n + 1, n + 2>> = Append(e, Len(u) + 1)
  BY <1>0, <1>3
<1>7. Append(e, Len(u) + 1) \in Seq(Nat) /\ Append(u, "note") \in Seq(Kinds)
      /\ Len(Append(u, "note")) = n + 2 /\ Len(log) <= Len(Append(e, Len(u) + 1))
  BY <1>0, <1>1, <1>3
<1>8. Saves(Append(u, "note"), Append(e, Len(u) + 1), "step")
  BY <1>5, <1>6 DEF StartTurn
<1>9. turn' = n + 1 /\ turn' \in Nat /\ turn' \in 1 .. Len(Append(u, "note"))
  BY <1>0, <1>7 DEF StartTurn
<1>10. UNCHANGED <<snaps, active, boundary, kept, prompt>>
  BY DEF StartTurn
<1> HIDE DEF n, e, u
<1> QED BY <1>0, <1>4, <1>7, <1>8, <1>9, <1>10, SavesKeeps

LEMMA StartStepKeeps == Inv /\ StartStep => Inv'
<1> SUFFICES ASSUME Inv, StartStep PROVE Inv'
  OBVIOUS
<1>1. Up /\ messages \in Seq(Kinds) /\ turn \in 1 .. Len(messages) /\ turn \in Nat
  BY DEF StartStep, Up, Inv, TypeOK, InHand
<1>2. Len(log) <= Len(Append(log, 0)) /\ Len(Append(log, 0)) > 0
  BY <1>1, CheckpointKeeps
<1> QED BY <1>1, <1>2, CheckpointKeeps, SavesKeeps DEF StartStep

(* The turn ends without a message.                                        *)
LEMMA ModelErrorKeeps == Inv /\ ModelError => Inv'
<1> SUFFICES ASSUME Inv, ModelError PROVE Inv'
  OBVIOUS
<1>1. Up /\ messages \in Seq(Kinds) /\ turn \in Nat
  BY DEF ModelError, Up, Inv, TypeOK
<1>2. Len(log) <= Len(Append(log, 0))
  BY <1>1, CheckpointKeeps
<1> QED BY <1>1, <1>2, CheckpointKeeps, SavesKeeps DEF ModelError

(* It ends with one.                                                       *)
LEMMA StopTurnKeeps == Inv /\ StopTurn => Inv'
<1> SUFFICES ASSUME Inv, StopTurn PROVE Inv'
  OBVIOUS
<1>1. Up /\ messages \in Seq(Kinds) /\ log \in Seq(Nat) /\ turn \in Nat
      /\ Mirrors(log, messages) /\ Answered(log, messages)
  BY DEF StopTurn, Up, Inv, TypeOK, Follows
<1>2. "text" \in Kinds \ {"call"}
  BY DEF Kinds, Asked
<1>3. Mirrors(Append(log, Len(messages) + 1), Append(messages, "text"))
      /\ Answered(Append(log, Len(messages) + 1), Append(messages, "text"))
  BY <1>1, <1>2, MessageMirrors, MessageAnswered
<1>4. Append(log, Len(messages) + 1) \in Seq(Nat) /\ Append(messages, "text") \in Seq(Kinds)
      /\ Len(log) <= Len(Append(log, Len(messages) + 1))
  BY <1>1, <1>2
<1> QED BY <1>1, <1>3, <1>4, SavesKeeps DEF StopTurn

LEMMA AnswerKeeps == Inv /\ Answer => Inv'
<1> SUFFICES ASSUME Inv, Answer PROVE Inv'
  OBVIOUS
<1> DEFINE l == Append(log, 0)
           n == Len(messages)
<1>1. Up /\ messages \in Seq(Kinds) /\ turn \in Nat
  BY DEF Answer, Up, Inv, TypeOK
<1>2. l \in Seq(Nat) /\ Len(l) = Len(log) + 1 /\ Len(log) \in Nat /\ n \in Nat
      /\ Mirrors(l, messages) /\ Answered(l, messages)
  BY <1>1, CheckpointKeeps
<1> HIDE DEF l
<1>3. "text" \in Kinds \ {"call"}
  BY DEF Kinds, Asked
<1>4. Mirrors(Append(l, n + 1), Append(messages, "text"))
      /\ Answered(Append(l, n + 1), Append(messages, "text"))
  BY <1>1, <1>2, <1>3, MessageMirrors, MessageAnswered
<1>5. Append(l, n + 1) \in Seq(Nat) /\ Append(messages, "text") \in Seq(Kinds)
      /\ Len(log) <= Len(Append(l, n + 1))
  BY <1>1, <1>2, <1>3
<1>6. Saves(Append(messages, "text"), Append(l, n + 1), "idle")
  BY <1>1, <1>2, BackfillIs DEF Answer, l
<1> QED BY <1>1, <1>4, <1>5, <1>6, SavesKeeps DEF Answer

LEMMA CallToolKeeps == Inv /\ CallTool => Inv'
<1> SUFFICES ASSUME Inv, CallTool PROVE Inv'
  OBVIOUS
<1> DEFINE l == Append(log, 0)
           n == Len(messages)
           e == Append(l, n + 1)
           u == Append(messages, "call")
<1>1. Up /\ messages \in Seq(Kinds) /\ turn \in Nat /\ turn \in 1 .. n
  BY DEF CallTool, Up, Inv, TypeOK, InHand
<1>2. l \in Seq(Nat) /\ Len(l) = Len(log) + 1 /\ Len(log) \in Nat /\ n \in Nat
      /\ Mirrors(l, messages) /\ Answered(l, messages)
  BY <1>1, CheckpointKeeps
<1> HIDE DEF l
<1>3. "call" \in Kinds /\ "result" \in Kinds
  BY DEF Kinds
<1>4. e \in Seq(Nat) /\ Len(e) = Len(l) + 1 /\ u \in Seq(Kinds) /\ Len(u) = n + 1
      /\ Mirrors(e, u)
  BY <1>1, <1>2, <1>3, MessageMirrors
<1>5. Mirrors(Append(e, Len(u) + 1), Append(u, "result"))
  BY <1>3, <1>4, MessageMirrors
<1>6. Answered(Append(e, n + 2), Append(u, "result"))
  BY <1>1, <1>2, CallAnswered
<1>7. Append(e, n + 2) \in Seq(Nat) /\ Append(u, "result") \in Seq(Kinds)
      /\ Len(Append(u, "result")) = n + 2 /\ Len(log) <= Len(Append(e, n + 2))
      /\ Len(u) + 1 = n + 2
  BY <1>2, <1>3, <1>4
<1>8. messages \o <<"call", "result">> = Append(u, "result")
  BY <1>1, <1>3
<1>9. Saves(Append(u, "result"), Append(e, n + 2), "step")
  BY <1>1, <1>2, <1>8, BackfillIs DEF CallTool, l
<1>10. UNCHANGED <<snaps, active, boundary, turn, kept, prompt>>
  BY DEF CallTool
<1>11. turn' \in Nat /\ turn' \in 1 .. Len(Append(u, "result"))
  BY <1>1, <1>2, <1>7, <1>10
<1> HIDE DEF n, e, u
<1> QED BY <1>1, <1>5, <1>6, <1>7, <1>9, <1>10, <1>11, SavesKeeps

LEMMA StopToolsKeeps == Inv /\ StopTools => Inv'
<1> SUFFICES ASSUME Inv, StopTools PROVE Inv'
  OBVIOUS
<1> DEFINE n == Len(messages)
           e == log \o <<n + 3, n + 1, n + 2>>
           u == messages \o <<"call", "result", "text">>
<1>1. Up /\ messages \in Seq(Kinds) /\ log \in Seq(Nat) /\ turn \in Nat
      /\ Mirrors(log, messages) /\ Answered(log, messages)
      /\ Len(log) \in Nat /\ n \in Nat
  BY DEF StopTools, Up, Inv, TypeOK, Follows
<1>2. e \in Seq(Nat) /\ u \in Seq(Kinds) /\ Len(log) <= Len(e)
      /\ Mirrors(e, u) /\ Answered(e, u)
  BY <1>1, StoppedToolsFit
<1>3. Append(log, n + 3) \o Backfill(n + 2) = e
  <2>1. Backfill(n + 2) = <<n + 1, n + 2>>
    <3>1. Backfill(n + 2) = [k \in 1 .. 2 |-> n + k]
      BY <1>1 DEF Backfill
    <3> QED BY <1>1, <3>1
  <2>2. log \in Seq(Nat) /\ n + 1 \in Nat /\ n + 2 \in Nat /\ n + 3 \in Nat
    BY <1>1
  <2>3. Append(log, n + 3) \o <<n + 1, n + 2>> = log \o <<n + 3, n + 1, n + 2>>
    BY <2>2, StoppedLog
  <2> QED BY <2>1, <2>3
<1>4. Saves(u, e, "idle") /\ UNCHANGED <<snaps, active, boundary, turn, kept, prompt>>
  BY <1>3 DEF StopTools
<1> HIDE DEF n, e, u
<1> QED BY <1>1, <1>2, <1>4, SavesKeeps

LEMMA RetryKeeps == Inv /\ Retry => Inv'
<1> SUFFICES ASSUME Inv, Retry PROVE Inv'
  OBVIOUS
<1> DEFINE l == Append(log, 0)
<1>1. Up /\ messages \in Seq(Kinds) /\ Len(messages) \in Nat /\ Len(log) \in Nat
  BY DEF Retry, Up, Inv, TypeOK
<1>2. l \in Seq(Nat) /\ Len(l) = Len(log) + 1
      /\ Mirrors(l, messages) /\ Answered(l, messages)
  BY <1>1, CheckpointKeeps
<1>3. /\ messages' = Append(messages, "retry") /\ log' = Append(l, Len(messages) + 1)
      /\ saved' = [saved EXCEPT !.messages = messages, !.log = l] /\ at' = "step"
      /\ UNCHANGED <<snaps, active, boundary, turn, kept, prompt, faults>>
  BY DEF Retry
<1> HIDE DEF l
<1>4. "retry" \in Kinds \ {"call"}
  BY DEF Kinds, Asked
<1>5. Mirrors(log', messages') /\ Answered(log', messages')
  BY <1>1, <1>2, <1>3, <1>4, MessageMirrors, MessageAnswered
<1>6. log' \in Seq(Nat) /\ messages' \in Seq(Kinds) /\ Len(log') = Len(l) + 1
      /\ Len(messages') = Len(messages) + 1
  BY <1>1, <1>2, <1>3, <1>4
<1>7. /\ saved'.log = l /\ saved'.messages = messages /\ saved'.snaps = saved.snaps
      /\ saved' \in [messages : Seq(Kinds), log : Seq(Nat), snaps : Seq(Snapshots)]
  BY <1>1, <1>2, <1>3 DEF Inv, TypeOK
<1>8. Kept'
  <2>1. Fits(saved.snaps, Len(l))
    <3>1. 1 .. Len(saved.log) \subseteq 1 .. Len(l)
      BY <1>1, <1>2 DEF Inv, TypeOK, Follows
    <3> QED BY <3>1 DEF Inv, Kept, Fits
  <2> QED BY <1>2, <1>7, <2>1 DEF Inv, Kept
<1>9. Follows'
  <2>1. RestartArchivesNothing'
    BY <1>1, <1>3, <1>7 DEF RestartArchivesNothing, Inv, Follows, RestoredBoundary
  <2>2. boundary \in Nat /\ boundary <= Len(log') /\ Len(l) <= Len(log')
    BY <1>1, <1>2, <1>6 DEF Inv, TypeOK, Follows
  <2> QED BY <1>1, <1>3, <1>5, <1>7, <2>1, <2>2 DEF Inv, Follows
<1>10. TypeOK'
  BY <1>3, <1>6, <1>7 DEF Inv, TypeOK, Places
<1>11. InHand'
  BY <1>1, <1>3, <1>6 DEF Retry, Inv, InHand, Built
<1> QED BY <1>8, <1>9, <1>10, <1>11 DEF Inv

---------------------------------------------------------------------------
(* A prompt, and a compaction that is given up.                            *)

(* The tail begins behind every message of the archived events.            *)
LEMMA TailIs ==
  ASSUME Inv, Up
  PROVE  /\ TailStart \in Nat /\ turn <= TailStart
         /\ active # 0 => \A s \in 1 .. boundary : log[s] # 0 => log[s] < TailStart
<1> DEFINE S == {turn} \cup {log[s] + 1 : s \in {q \in 1 .. boundary : log[q] # 0}}
           n == turn + Len(messages) + 1
<1>1. turn \in Nat /\ boundary \in Nat /\ messages \in Seq(Kinds) /\ log \in Seq(Nat)
  BY DEF Inv, TypeOK
<1>2. Len(messages) \in Nat /\ n \in Nat
  BY <1>1
<1>3. \A s \in 1 .. boundary : log[s] \in 0 .. Len(messages)
  <2>1. boundary <= Len(log) /\ Mirrors(log, messages)
    BY DEF Inv, Follows
  <2>2. DOMAIN log = 1 .. Len(log) /\ Len(log) \in Nat
    BY <1>1
  <2> QED BY <1>1, <2>1, <2>2 DEF Mirrors
<1>4. S \in SUBSET Nat /\ S # {} /\ \A s \in S : s <= n
  <2>1. \A s \in 1 .. boundary : log[s] + 1 \in Nat /\ log[s] + 1 <= n
    BY <1>1, <1>2, <1>3
  <2>2. turn <= n
    BY <1>1, <1>2
  <2> QED BY <1>1, <2>1, <2>2
<1>5. turn \in S /\ \A s \in 1 .. boundary : log[s] # 0 => log[s] + 1 \in S
  OBVIOUS
<1>6. TailStart = IF active = 0 THEN turn ELSE Greatest(S)
  BY DEF TailStart
<1> HIDE DEF S, n
<1>7. Greatest(S) \in S /\ \A s \in S : s <= Greatest(S)
  BY <1>2, <1>4, GreatestIs
<1>8. Greatest(S) \in Nat /\ turn <= Greatest(S)
  BY <1>4, <1>5, <1>7
<1>9. \A s \in 1 .. boundary : log[s] # 0 => log[s] < Greatest(S)
  <2> SUFFICES ASSUME NEW s \in 1 .. boundary, log[s] # 0 PROVE log[s] < Greatest(S)
    OBVIOUS
  <2>1. log[s] \in Nat /\ log[s] + 1 <= Greatest(S)
    BY <1>2, <1>3, <1>5, <1>7
  <2> QED BY <1>8, <2>1
<1> QED BY <1>1, <1>6, <1>8, <1>9

LEMMA WholeTailTyped ==
  ASSUME Inv, Up PROVE WholeTail \subseteq Nat
<1>1. TailStart \in Nat /\ turn \in Nat /\ Len(messages) \in Nat
  BY TailIs DEF Inv, TypeOK
<1> QED BY <1>1 DEF WholeTail

LEMMA BuildPromptKeeps == Inv /\ BuildPrompt => Inv'
<1> SUFFICES ASSUME Inv, BuildPrompt PROVE Inv'
  OBVIOUS
<1> USE DEF BuildPrompt, memory
<1>1. Up
  BY DEF Up
<1>2. TypeOK'
  BY <1>1, WholeTailTyped DEF Inv, TypeOK, Places
<1>3. Kept' /\ Follows'
  BY <1>1 DEF Inv, Kept, Follows, RestartArchivesNothing, Up
<1>4. InHand'
  BY DEF Inv, InHand, Built
<1> QED BY <1>2, <1>3, <1>4 DEF Inv

LEMMA BeginCompactionKeeps ==
  ASSUME Inv, NEW first \in 1 .. MaxMessages, BeginCompaction(first) PROVE Inv'
<1> USE DEF BeginCompaction, memory
<1>1. Up /\ first \in Nat /\ first > 0
  BY BoundsAssumption DEF Up
<1>2. TypeOK'
  BY <1>1 DEF Inv, TypeOK, Places
<1>3. Kept' /\ Follows'
  BY <1>1 DEF Inv, Kept, Follows, RestartArchivesNothing, Up
<1>4. EventsBefore(kept)' = EventsBefore(first)
  BY DEF EventsBefore
<1>5. InHand'
  BY <1>1, <1>4 DEF Inv, InHand, Built
<1> QED BY <1>2, <1>3, <1>5 DEF Inv

LEMMA GivesUpKeeps ==
  ASSUME Inv, Up, at # "idle", GivesUp, UNCHANGED <<snaps, active, boundary>>,
         faults' \in 0 .. MaxFaults
  PROVE  Inv'
<1> USE DEF GivesUp
<1>1. messages \in Seq(Kinds) /\ Len(log) <= Len(Append(log, 0))
  BY CheckpointKeeps DEF Inv, TypeOK
<1>2. Kept' /\ Follows'
  BY <1>1, CheckpointKeeps, GrownFollows
<1>3. TypeOK'
  BY CheckpointKeeps, WholeTailTyped DEF Inv, TypeOK, Places
<1>4. InHand'
  BY DEF Inv, InHand, Built, Up
<1> QED BY <1>2, <1>3, <1>4 DEF Inv

LEMMA RefusalKeeps == Inv /\ (RefuseSummary \/ PrepareFails \/ ActivateFails) => Inv'
<1> SUFFICES ASSUME Inv, RefuseSummary \/ PrepareFails \/ ActivateFails PROVE Inv'
  OBVIOUS
<1>1. faults' \in 0 .. MaxFaults
  BY BoundsAssumption DEF RefuseSummary, PrepareFails, ActivateFails, Inv, TypeOK
<1> QED BY <1>1, GivesUpKeeps DEF RefuseSummary, PrepareFails, ActivateFails, Up

---------------------------------------------------------------------------
(* The three transactions of a compaction.                                 *)

(* What is covered is a set of events of the log.                          *)
LEMMA EventsTyped ==
  ASSUME Inv, Up
  PROVE  /\ EventsBefore(kept) \in SUBSET Nat
         /\ EventsBefore(kept) \subseteq boundary + 1 .. Len(log)
         /\ EventsBefore(kept) \subseteq 1 .. Len(log)
<1>1. boundary \in Nat /\ Len(log) \in Nat
  BY DEF Inv, TypeOK
<1> QED BY <1>1 DEF EventsBefore

(* A prepared row changes nothing but the number of rows.                  *)
LEMMA PrepareKeeps == Inv /\ Prepare => Inv'
<1> SUFFICES ASSUME Inv, Prepare PROVE Inv'
  OBVIOUS
<1> DEFINE rows == Append(snaps, Draft)
<1>0. at = "compact" /\ Up /\ at' = "prepared" /\ snaps' = rows
      /\ UNCHANGED <<messages, log, active, boundary, turn, kept, prompt, faults>>
  BY DEF Prepare, Up
<1>1. snaps \in Seq(Snapshots) /\ log \in Seq(Nat) /\ messages \in Seq(Kinds)
      /\ active \in Nat /\ boundary \in Nat
      /\ saved \in [messages : Seq(Kinds), log : Seq(Nat), snaps : Seq(Snapshots)]
      /\ snaps = saved.snaps /\ active = ActiveRow(snaps)
      /\ saved.messages = messages
  BY <1>0 DEF Inv, TypeOK, Follows, InHand, Built
<1>2. EventsBefore(kept) # {} /\ EventsBefore(kept) \subseteq 1 .. Len(log)
      /\ EventsBefore(kept) \in SUBSET Nat /\ kept > 0
  BY <1>0, EventsTyped DEF Inv, InHand, Built
<1>3. Draft \in Snapshots /\ Draft.st = "prepared" /\ ~Draft.archived
  BY <1>1, <1>2 DEF Draft, Snapshots, Statuses
<1>4. rows \in Seq(Snapshots) /\ Len(rows) = Len(snaps) + 1 /\ rows[Len(snaps) + 1] = Draft
      /\ Len(snaps) \in Nat /\ DOMAIN snaps = 1 .. Len(snaps)
      /\ DOMAIN rows = 1 .. Len(snaps) + 1
      /\ \A i \in 1 .. Len(snaps) : rows[i] = snaps[i]
  BY <1>1, <1>3
<1>5. saved' = [messages |-> messages, log |-> log, snaps |-> rows]
  BY <1>0, <1>1 DEF Prepare
<1> HIDE DEF rows
<1>6. Live(rows) = Live(snaps)
  BY <1>3, <1>4 DEF Live
<1>7. Fits(snaps, Len(log)) /\ Points(snaps, active) /\ Linked(snaps)
  <2>1. Len(saved.log) <= Len(log) /\ Len(saved.log) \in Nat /\ Len(log) \in Nat
    BY <1>0, <1>1 DEF Inv, Follows
  <2>2. 1 .. Len(saved.log) \subseteq 1 .. Len(log)
    BY <2>1
  <2> QED BY <1>1, <2>2 DEF Inv, Kept, Fits
<1>8. Fits(rows, Len(log))
  BY <1>2, <1>4, <1>7 DEF Fits, Draft
<1>9. Points(rows, active)
  <2>1. \A i \in DOMAIN rows : i \in DOMAIN snaps \/ i = Len(snaps) + 1
    BY <1>4
  <2>2. active # Len(snaps) + 1
    BY <1>4, <1>7 DEF Points, Live
  <2>3. \A i \in DOMAIN rows : (rows[i].st = "active") = (i = active)
    BY <1>3, <1>4, <1>7, <2>1, <2>2 DEF Points
  <2> QED BY <1>6, <1>7, <2>3 DEF Points
<1>10. Linked(rows)
  BY <1>4, <1>6, <1>7 DEF Linked, Live
<1>11. ActiveRow(rows) = active
  BY <1>1, <1>4, <1>9, PointerIs
<1>12. RestoredBoundary(rows) = RestoredBoundary(snaps)
  <2>1. active # 0 => active \in 1 .. Len(snaps)
    BY <1>4, <1>7 DEF Points, Live
  <2>2. active # 0 => rows[active] = snaps[active]
    BY <1>4, <2>1
  <2>3. Len(log) \in Nat
    BY <1>1
  <2>4. RestoredBoundary(rows) =
          IF active # 0 /\ rows[active].archived THEN Last(rows[active]) ELSE 0
    BY <1>1, <1>4, <1>8, <1>9, <2>3, RestoredIs
  <2>5. RestoredBoundary(snaps) =
          IF active # 0 /\ snaps[active].archived THEN Last(snaps[active]) ELSE 0
    BY <1>1, <1>7, <2>3, RestoredIs
  <2> QED BY <2>2, <2>4, <2>5
<1>13. Kept'
  BY <1>0, <1>5, <1>8, <1>9, <1>10, <1>11 DEF Kept, Inv, Follows
<1>14. RestartArchivesNothing'
  <2>1. active # 0 => rows[active] = snaps[active]
    BY <1>4, <1>7 DEF Points, Live
  <2> QED BY <1>0, <1>1, <1>5, <1>12, <2>1 DEF RestartArchivesNothing, Inv, Follows
<1>15. Follows'
  BY <1>0, <1>1, <1>5, <1>11, <1>14 DEF Inv, Follows
<1>16. TypeOK'
  BY <1>0, <1>1, <1>4, <1>5 DEF Inv, TypeOK, Places
<1>17. InHand'
  <2>1. EventsBefore(kept)' = EventsBefore(kept) /\ Draft' = Draft
    BY <1>0 DEF EventsBefore, Draft
  <2> QED BY <1>0, <1>1, <1>2, <1>4, <1>5, <2>1 DEF Inv, InHand, Built
<1> QED BY <1>13, <1>15, <1>16, <1>17 DEF Inv

(* The prepared row becomes the active one: the newest of the lineage, and *)
(* the next in it.                                                         *)
LEMMA ActivateKeeps == Inv /\ Activate => Inv'
<1> SUFFICES ASSUME Inv, Activate PROVE Inv'
  OBVIOUS
<1> DEFINE n == Len(snaps)
           rows == Switched(snaps, n)
<1>0. at = "prepared" /\ Up /\ at' = "activated" /\ snaps' = rows /\ active' = n
      /\ UNCHANGED <<messages, log, boundary, turn, kept, prompt, faults>>
  BY DEF Activate, Up
<1>1. snaps \in Seq(Snapshots) /\ log \in Seq(Nat) /\ messages \in Seq(Kinds)
      /\ active \in Nat /\ boundary \in Nat
      /\ saved \in [messages : Seq(Kinds), log : Seq(Nat), snaps : Seq(Snapshots)]
      /\ snaps = saved.snaps /\ active = ActiveRow(snaps)
      /\ saved.messages = messages
  BY <1>0 DEF Inv, TypeOK, Follows, InHand, Built
<1>2. EventsBefore(kept) # {} /\ EventsBefore(kept) \subseteq boundary + 1 .. Len(log)
      /\ EventsBefore(kept) \in SUBSET Nat /\ kept > 0
  BY <1>0, EventsTyped DEF Inv, InHand, Built
<1>3. n \in Nat /\ n > 0 /\ DOMAIN snaps = 1 .. n /\ n \in 1 .. n
      /\ snaps[n].covers = EventsBefore(kept) /\ snaps[n].prev = active
      /\ snaps[n].st = "prepared" /\ ~snaps[n].archived
  BY <1>0, <1>1 DEF Inv, InHand, Draft
<1>4. DOMAIN rows = 1 .. n /\ Len(rows) = n
      /\ \A i \in 1 .. n :
           /\ rows[i].covers = snaps[i].covers /\ rows[i].prev = snaps[i].prev
           /\ rows[i].archived = snaps[i].archived
           /\ rows[i].st = IF i = n THEN "active"
                           ELSE IF snaps[i].st = "active" THEN "superseded"
                           ELSE snaps[i].st
  <2>1. DOMAIN rows = 1 .. n /\ Len(rows) = n
    BY <1>3 DEF Switched
  <2>2. ASSUME NEW i \in 1 .. n
        PROVE /\ rows[i].covers = snaps[i].covers /\ rows[i].prev = snaps[i].prev
              /\ rows[i].archived = snaps[i].archived
              /\ rows[i].st = IF i = n THEN "active"
                              ELSE IF snaps[i].st = "active" THEN "superseded"
                              ELSE snaps[i].st
    <3>1. snaps[i] \in Snapshots
      BY <1>1, <1>3
    <3>2. rows[i] = IF i = n THEN [snaps[i] EXCEPT !.st = "active"]
                    ELSE IF snaps[i].st = "active" THEN [snaps[i] EXCEPT !.st = "superseded"]
                    ELSE snaps[i]
      BY <1>3 DEF Switched
    <3> QED BY <3>1, <3>2 DEF Snapshots
  <2> QED BY <2>1, <2>2
<1>5. rows \in Seq(Snapshots)
  <2>1. ASSUME NEW i \in 1 .. n PROVE rows[i] \in Snapshots
    <3>1. snaps[i] \in Snapshots
      BY <1>1, <1>3
    <3>2. rows[i] = IF i = n THEN [snaps[i] EXCEPT !.st = "active"]
                    ELSE IF snaps[i].st = "active" THEN [snaps[i] EXCEPT !.st = "superseded"]
                    ELSE snaps[i]
      BY <1>3 DEF Switched
    <3> QED BY <3>1, <3>2 DEF Snapshots, Statuses
  <2>2. rows \in [1 .. n -> Snapshots]
    BY <1>3, <2>1 DEF Switched
  <2> QED BY <1>3, <2>2
<1>6. saved' = [messages |-> messages, log |-> log, snaps |-> rows]
  BY <1>0, <1>1 DEF Activate
<1> HIDE DEF n, rows
<1>7. Live(rows) = Live(snaps) \cup {n} /\ n \notin Live(snaps)
      /\ Live(snaps) \subseteq 1 .. n
  BY <1>3, <1>4 DEF Live
<1>8. Fits(snaps, Len(log)) /\ Points(snaps, active) /\ Linked(snaps)
  <2>1. Len(saved.log) <= Len(log) /\ Len(saved.log) \in Nat /\ Len(log) \in Nat
    BY <1>0, <1>1 DEF Inv, Follows
  <2>2. 1 .. Len(saved.log) \subseteq 1 .. Len(log)
    BY <2>1
  <2> QED BY <1>1, <2>2 DEF Inv, Kept, Fits
<1>9. Fits(rows, Len(log))
  BY <1>3, <1>4, <1>8 DEF Fits
<1>10. Points(rows, n)
  <2>1. \A i \in Live(rows) : i <= n
    BY <1>3, <1>7
  <2>2. \A i \in DOMAIN rows : (rows[i].st = "active") = (i = n)
    BY <1>4
  <2> QED BY <1>7, <2>1, <2>2 DEF Points
<1>11. ActiveRow(rows) = n
  BY <1>3, <1>5, <1>10, PointerIs
<1>12. Linked(rows)
  <2>1. ASSUME NEW i \in Live(snaps)
        PROVE  rows[i].prev = Greatest({0} \cup {j \in Live(rows) : j < i})
    <3>1. i \in 1 .. n /\ i <= n
      BY <1>3, <1>7
    <3>2. {j \in Live(rows) : j < i} = {j \in Live(snaps) : j < i}
      BY <1>3, <1>7, <3>1
    <3>3. snaps[i].prev = Greatest({0} \cup {j \in Live(snaps) : j < i})
      BY <1>8 DEF Linked
    <3> QED BY <1>4, <3>1, <3>2, <3>3
  <2>2. rows[n].prev = Greatest({0} \cup {j \in Live(rows) : j < n})
    <3>1. {j \in Live(rows) : j < n} = Live(snaps)
      BY <1>3, <1>7
    <3>2. ({0} \cup Live(snaps)) \in SUBSET Nat /\ active \in {0} \cup Live(snaps)
          /\ \A s \in {0} \cup Live(snaps) : s <= active
      BY <1>1, <1>3, <1>7, <1>8 DEF Points
    <3>3. Greatest({0} \cup Live(snaps)) = active
      BY <3>2, GreatestOf
    <3> QED BY <1>3, <1>4, <3>1, <3>3
  <2> QED BY <1>7, <2>1, <2>2 DEF Linked
<1>13. Kept'
  <2>1. Mirrors(log, messages) /\ Answered(log, messages)
    BY <1>0 DEF Inv, Follows
  <2> QED BY <1>6, <1>9, <1>10, <1>11, <1>12, <2>1 DEF Kept
<1>14. RestartArchivesNothing'
  <2>1. RestoredBoundary(rows) = 0
    <3>1. ~rows[n].archived /\ Len(log) \in Nat
      BY <1>1, <1>3, <1>4
    <3> QED BY <1>3, <1>5, <1>9, <1>10, <3>1, RestoredIs
  <2>2. Last(rows[n]) \in boundary + 1 .. Len(log)
    <3>1. Last(rows[n]) \in rows[n].covers
      BY <1>1, <1>3, <1>4, <1>5, <1>9, LastIs
    <3> QED BY <1>2, <1>3, <1>4, <3>1
  <2>3. boundary <= Last(rows[n]) /\ n # 0
    BY <1>1, <1>3, <2>2
  <2> QED BY <1>0, <1>1, <1>6, <2>1, <2>3 DEF RestartArchivesNothing
<1>15. Follows'
  BY <1>0, <1>1, <1>6, <1>11, <1>14 DEF Inv, Follows, n
<1>16. TypeOK'
  BY <1>0, <1>1, <1>3, <1>5, <1>6 DEF Inv, TypeOK, Places, n
<1>17. InHand'
  <2>1. EventsBefore(kept)' = EventsBefore(kept)
    BY <1>0 DEF EventsBefore
  <2> QED BY <1>0, <1>1, <1>2, <1>3, <1>4, <1>6, <2>1 DEF Inv, InHand, Built, n
<1> QED BY <1>13, <1>15, <1>16, <1>17 DEF Inv

(* The active row covers everything up to the end of the log: the last     *)
(* event is a checkpoint, which no message keeps.  This is why the         *)
(* boundary moves behind the whole log.                                    *)
LEMMA CoversAll ==
  ASSUME Inv, at = "activated"
  PROVE  Last(snaps[active]) = Len(log) /\ SafeBoundary(Last(snaps[active])) = Len(log)
<1>1. log \in Seq(Nat) /\ messages \in Seq(Kinds) /\ boundary \in Nat /\ Len(log) \in Nat
      /\ kept \in Nat
  BY DEF Inv, TypeOK
<1>2. snaps[active].covers = EventsBefore(kept) /\ kept > 0 /\ EventsBefore(kept) # {}
      /\ Len(log) > 0 /\ log[Len(log)] = 0
  BY DEF Inv, InHand, Built
<1>3. EventsBefore(kept) \in SUBSET Nat /\ \A s \in EventsBefore(kept) : s <= Len(log)
  BY <1>1 DEF EventsBefore
<1>4. Len(log) \in EventsBefore(kept)
  <2>1. boundary + 1 <= Len(log)
    BY <1>1, <1>2 DEF EventsBefore
  <2> QED BY <1>1, <1>2, <2>1 DEF EventsBefore
<1>5. Last(snaps[active]) = Len(log)
  BY <1>2, <1>3, <1>4, GreatestOf DEF Last
<1>6. Answered(log, messages)
  BY DEF Inv, Follows, Up
<1> QED BY <1>1, <1>5, <1>6, BoundarySafe

(* A row that is marked as archived keeps its place in the lineage.        *)
LEMMA MarkedTyped ==
  ASSUME NEW r \in Snapshots
  PROVE  LET q == [r EXCEPT !.archived = TRUE]
         IN  q \in Snapshots /\ q.archived /\ q.covers = r.covers /\ q.prev = r.prev
             /\ q.st = r.st
BY DEF Snapshots

(* The boundary moves and the row is marked.                               *)
LEMMA ArchiveKeeps == Inv /\ Archive => Inv'
<1> SUFFICES ASSUME Inv, Archive PROVE Inv'
  OBVIOUS
<1> DEFINE rows == Archived(snaps)
<1>0. at = "activated" /\ Up /\ at' = "model" /\ snaps' = rows
      /\ UNCHANGED <<messages, log, active, turn, kept, faults>>
  BY DEF Archive, Up
<1>1. snaps \in Seq(Snapshots) /\ log \in Seq(Nat) /\ messages \in Seq(Kinds)
      /\ active \in Nat
      /\ saved \in [messages : Seq(Kinds), log : Seq(Nat), snaps : Seq(Snapshots)]
      /\ snaps = saved.snaps /\ active = ActiveRow(snaps)
      /\ saved.messages = messages
  BY <1>0 DEF Inv, TypeOK, Follows, InHand, Built
<1>2. boundary' = Len(log) /\ Last(snaps[active]) = Len(log) /\ Len(log) \in Nat
  BY <1>0, <1>1, CoversAll DEF Archive
<1>3. active \in 1 .. Len(snaps) /\ DOMAIN snaps = 1 .. Len(snaps)
  BY <1>0, <1>1 DEF Inv, InHand
<1>4. rows \in Seq(Snapshots) /\ DOMAIN rows = DOMAIN snaps
      /\ rows[active].archived
      /\ \A i \in DOMAIN snaps : /\ rows[i].covers = snaps[i].covers
                                 /\ rows[i].prev = snaps[i].prev
                                 /\ rows[i].st = snaps[i].st
  <2>0. PICK r \in Snapshots : r = snaps[active]
    BY <1>1, <1>3
  <2>1. PICK q \in Snapshots : q = [r EXCEPT !.archived = TRUE]
    BY MarkedTyped
  <2>2. rows \in Seq(Snapshots) /\ DOMAIN rows = DOMAIN snaps
        /\ rows[active] = q
        /\ \A i \in DOMAIN snaps : i # active => rows[i] = snaps[i]
    <3>1. rows = [snaps EXCEPT ![active] = q]
      BY <2>0, <2>1 DEF Archived
    <3> QED BY <1>1, <1>3, <3>1
  <2>3. rows[active].archived /\ rows[active].covers = snaps[active].covers
        /\ rows[active].prev = snaps[active].prev /\ rows[active].st = snaps[active].st
    BY <2>0, <2>1, <2>2, MarkedTyped
  <2> QED BY <2>2, <2>3
<1>5. saved' = [messages |-> messages, log |-> log, snaps |-> rows]
  BY <1>0, <1>1 DEF Archive
<1> HIDE DEF rows
<1>6. Live(rows) = Live(snaps)
  BY <1>4 DEF Live
<1>7. Fits(snaps, Len(log)) /\ Points(snaps, active) /\ Linked(snaps)
  <2>1. Len(saved.log) <= Len(log) /\ Len(saved.log) \in Nat /\ Len(log) \in Nat
    BY <1>0, <1>1 DEF Inv, Follows
  <2>2. 1 .. Len(saved.log) \subseteq 1 .. Len(log)
    BY <2>1
  <2> QED BY <1>1, <2>2 DEF Inv, Kept, Fits
<1>8. Fits(rows, Len(log)) /\ Points(rows, active)
  BY <1>4, <1>6, <1>7 DEF Fits, Points
<1>9. Linked(rows)
  BY <1>4, <1>6, <1>7 DEF Linked, Live
<1>10. ActiveRow(rows) = active
  BY <1>1, <1>4, <1>8, PointerIs
<1>11. Kept'
  <2>1. Mirrors(log, messages) /\ Answered(log, messages)
    BY <1>0 DEF Inv, Follows
  <2> QED BY <1>5, <1>8, <1>9, <1>10, <2>1 DEF Kept
<1>12. RestartArchivesNothing'
  <2>1. Last(rows[active]) = Len(log)
    BY <1>2, <1>3, <1>4 DEF Last
  <2>2. RestoredBoundary(rows) = Last(rows[active])
    BY <1>1, <1>2, <1>3, <1>4, <1>8, RestoredIs
  <2>3. active # 0
    BY <1>3
  <2> QED BY <1>0, <1>2, <1>5, <2>1, <2>2, <2>3 DEF RestartArchivesNothing
<1>13. Follows'
  BY <1>0, <1>1, <1>2, <1>5, <1>10, <1>12 DEF Inv, Follows
<1>14. prompt' \subseteq Nat
  <2>1. kept \in Nat /\ turn \in Nat
    BY DEF Inv, TypeOK
  <2> QED BY <1>1, <2>1 DEF Archive
<1>15. TypeOK'
  BY <1>0, <1>1, <1>2, <1>4, <1>5, <1>14 DEF Inv, TypeOK, Places
<1>16. InHand'
  BY <1>0 DEF Inv, InHand, Built
<1> QED BY <1>11, <1>13, <1>15, <1>16 DEF Inv

(* The boundary in memory moves, the row stays unmarked.                   *)
LEMMA ArchiveFailsKeeps == Inv /\ ArchiveFails => Inv'
<1> SUFFICES ASSUME Inv, ArchiveFails PROVE Inv'
  OBVIOUS
<1> USE DEF ArchiveFails, GivesUp
<1>0. Up
  BY DEF Up
<1>1. snaps \in Seq(Snapshots) /\ log \in Seq(Nat) /\ active \in Nat /\ Len(log) \in Nat
      /\ snaps = saved.snaps /\ active = ActiveRow(snaps)
  BY <1>0 DEF Inv, TypeOK, Follows
<1>2. boundary' = Len(log) /\ Last(snaps[active]) = Len(log)
  BY CoversAll
<1>3. active > 0 /\ ~snaps[active].archived
  BY DEF Inv, InHand
<1>4. RestoredBoundary(saved.snaps) = 0
  <2>1. Len(saved.log) \in Nat /\ Fits(snaps, Len(saved.log)) /\ Points(snaps, active)
    BY <1>1 DEF Inv, TypeOK, Kept
  <2> QED BY <1>1, <1>3, <2>1, RestoredIs
<1>5. RestartArchivesNothing'
  BY <1>1, <1>2, <1>3, <1>4 DEF RestartArchivesNothing, RestoredBoundary
<1>6. Kept'
  BY DEF Inv, Kept
<1>7. Follows'
  <2>1. Len(saved.log) <= Len(log) /\ Len(saved.log) \in Nat
    BY <1>0 DEF Inv, TypeOK, Follows
  <2>2. saved' = saved /\ Len(log') = Len(log) + 1
    BY <1>0, CheckpointKeeps
  <2>3. Len(saved'.log) <= Len(log') /\ boundary' <= Len(log')
    BY <1>1, <1>2, <2>1, <2>2
  <2>4. Mirrors(log', messages') /\ Answered(log', messages')
    BY <1>0, CheckpointKeeps
  <2>5. snaps' = saved'.snaps /\ active' = ActiveRow(saved'.snaps)
    BY <1>1
  <2> QED BY <1>5, <2>3, <2>4, <2>5 DEF Follows
<1>8. TypeOK'
  <2>1. faults' \in 0 .. MaxFaults
    BY BoundsAssumption DEF Inv, TypeOK
  <2> QED BY <1>0, <1>1, <1>2, <2>1, CheckpointKeeps, WholeTailTyped DEF Inv, TypeOK, Places
<1>9. InHand'
  BY DEF Inv, InHand, Built
<1> QED BY <1>6, <1>7, <1>8, <1>9 DEF Inv

---------------------------------------------------------------------------
(* Starting and dying.                                                     *)

(* Memory is what the tables say.                                          *)
LEMMA LoadKeeps == Inv /\ Load => Inv'
<1> SUFFICES ASSUME Inv, Load PROVE Inv'
  OBVIOUS
<1> DEFINE rows == saved.snaps
           a == ActiveRow(saved.snaps)
           n == Len(saved.log)
<1>0. messages' = saved.messages /\ log' = saved.log /\ snaps' = rows /\ active' = a
      /\ boundary' = RestoredBoundary(rows) /\ saved' = saved /\ at' = "idle"
      /\ UNCHANGED <<turn, kept, prompt, faults>>
  BY DEF Load
<1>1. rows \in Seq(Snapshots) /\ n \in Nat /\ saved.log \in Seq(Nat)
      /\ saved.messages \in Seq(Kinds) /\ DOMAIN rows \subseteq Nat
  BY DEF Inv, TypeOK
<1>2. Fits(rows, n) /\ Points(rows, a)
  BY DEF Inv, Kept
<1>3. a \in Nat /\ (a # 0 => a \in DOMAIN rows)
  BY <1>1, <1>2 DEF Points, Live
<1>4. RestoredBoundary(rows) = IF a # 0 /\ rows[a].archived THEN Last(rows[a]) ELSE 0
  BY <1>1, <1>2, <1>3, RestoredIs
<1>5. a # 0 => Last(rows[a]) \in 1 .. n
  BY <1>1, <1>2, <1>3, LastIs
<1>6. RestoredBoundary(rows) \in Nat /\ RestoredBoundary(rows) <= n
      /\ (RestoredBoundary(rows) > 0 => a # 0 /\ RestoredBoundary(rows) <= Last(rows[a]))
  BY <1>1, <1>4, <1>5
<1>7. RestartArchivesNothing'
  BY <1>0, <1>6 DEF RestartArchivesNothing
<1>8. Kept'
  BY <1>0 DEF Inv, Kept
<1>9. Follows'
  BY <1>0, <1>1, <1>6, <1>7 DEF Inv, Kept, Follows
<1>10. TypeOK'
  BY <1>0, <1>1, <1>3, <1>6 DEF Inv, TypeOK, Places
<1>11. InHand'
  BY <1>0 DEF InHand, Built
<1> QED BY <1>8, <1>9, <1>10, <1>11 DEF Inv

(* Memory is gone.                                                         *)
LEMMA CrashKeeps == Inv /\ Crash => Inv'
<1> SUFFICES ASSUME Inv, Crash PROVE Inv'
  OBVIOUS
<1> USE DEF Crash
<1>1. TypeOK'
  BY BoundsAssumption DEF Inv, TypeOK, Places, NoSnapshots
<1>2. Kept' /\ Follows' /\ InHand'
  BY DEF Inv, Kept, Follows, InHand, Up, Built
<1> QED BY <1>1, <1>2 DEF Inv

LEMMA Starts == Init => Inv
<1> SUFFICES ASSUME Init PROVE Inv
  OBVIOUS
<1> USE DEF Init
<1>1. TypeOK
  BY BoundsAssumption DEF TypeOK, Places, NoSnapshots
<1>2. Kept
  <2>1. Points(saved.snaps, 0)
    BY DEF Points, Live, NoSnapshots
  <2>2. ActiveRow(saved.snaps) = 0
    BY <1>1, <2>1, PointerIs DEF TypeOK
  <2>3. Linked(saved.snaps) /\ Fits(saved.snaps, Len(saved.log))
    BY DEF Linked, Live, Fits, NoSnapshots
  <2>4. Mirrors(saved.log, saved.messages) /\ Answered(saved.log, saved.messages)
    BY DEF Mirrors, Answered
  <2> QED BY <2>1, <2>2, <2>3, <2>4 DEF Kept
<1>3. Follows /\ InHand
  BY DEF Follows, InHand, Up, Built
<1> QED BY <1>1, <1>2, <1>3 DEF Inv

LEMMA StepsKeep == Inv /\ [Next]_vars => Inv'
<1> SUFFICES ASSUME Inv, [Next]_vars PROVE Inv'
  OBVIOUS
<1>1. ASSUME UNCHANGED vars PROVE Inv'
  BY <1>1 DEF vars, memory, Inv, TypeOK, Kept, Follows, InHand, Up, RestartArchivesNothing,
              EventsBefore, Draft
<1> QED BY <1>1, LoadKeeps, StartTurnKeeps, StartStepKeeps, BuildPromptKeeps,
           BeginCompactionKeeps, PrepareKeeps, ActivateKeeps, ArchiveKeeps, RefusalKeeps,
           ArchiveFailsKeeps, CallToolKeeps, StopToolsKeeps, AnswerKeeps,
           RetryKeeps, StopTurnKeeps, ModelErrorKeeps, CrashKeeps DEF Next

---------------------------------------------------------------------------
(* The theorems.                                                           *)

(* The strengthened invariant holds always.                                *)
THEOREM SessionsSound == Spec => []Inv
BY Starts, StepsKeep, PTL DEF Spec

(* The types of the variables (session.py:37-58).                          *)
THEOREM SessionsTyped == Spec => []TypeOK
<1>1. Inv => TypeOK
  BY DEF Inv
<1> QED BY <1>1, SessionsSound, PTL

(* Memory and the tables have the same snapshots, at most one of them      *)
(* active and named by the pointer, whatever transaction fails and         *)
(* whenever the process dies (snapshots.py:342-459).                       *)
THEOREM SnapshotsAlwaysAgree == Spec => []SnapshotsAgree
<1>1. Inv => SnapshotsAgree
  BY DEF Inv, SnapshotsAgree, Follows, Kept, Points
<1> QED BY <1>1, SessionsSound, PTL

(* Every activated snapshot continues the activated one before it          *)
(* (snapshots.py:354-357 and 418-421).                                     *)
THEOREM LineageIsTheHistory == Spec => []LineageIsHistory
<1>1. Inv => LineageIsHistory
  <2> SUFFICES ASSUME Inv, Up, NEW i \in Activated
               PROVE snaps[i].prev = Greatest({0} \cup {j \in Activated : j < i})
    BY DEF LineageIsHistory
  <2>1. Activated = Live(saved.snaps) /\ snaps = saved.snaps
    BY DEF Inv, Follows, Activated, Live
  <2> QED BY <2>1 DEF Inv, Kept, Linked
<1> QED BY <1>1, SessionsSound, PTL

(* No restart archives more than memory had archived, and only the active  *)
(* snapshot's events are ever archived (session_store.py:811-828).         *)
THEOREM RestartsArchiveNothing == Spec => []RestartArchivesNothing
<1>1. Inv => RestartArchivesNothing
  BY DEF Inv, Follows, RestartArchivesNothing
<1> QED BY <1>1, SessionsSound, PTL

(* Every message has its event, once, on disk and in memory                *)
(* (session.py:75-113 and 166-188).                                        *)
THEOREM EventsMirror == Spec => []EventsMirrorMessages
<1>1. Inv => EventsMirrorMessages
  BY DEF Inv, Kept, Follows, EventsMirrorMessages
<1> QED BY <1>1, SessionsSound, PTL

(* Whatever the selection kept, a message of the tail is in the prompt or  *)
(* in a summary when the compaction ends (context_state.py:206-222).       *)
THEOREM CompactionsDropNothing == Spec => CompactionDropsNothing
<1> DEFINE Whole == at = "activated" /\ at' = "model"
                      => WholeTail \subseteq prompt' \cup Summarised'
<1>1. Inv /\ [Next]_vars => Whole
  <2> SUFFICES ASSUME Inv, Next, at = "activated", at' = "model",
                      NEW m \in WholeTail, m \notin prompt'
               PROVE m \in Summarised'
    BY DEF vars
  <2>1. Archive \/ ArchiveFails
    BY DEF Next, Load, StartTurn, StartStep, BuildPrompt, BeginCompaction, Prepare,
           Activate, RefuseSummary, PrepareFails, ActivateFails, CallTool, StopTools,
           Answer, Retry, StopTurn, ModelError, Crash
  <2>2. Archive
    BY <2>1 DEF ArchiveFails, GivesUp
  <2>3. Up /\ active = Len(snaps) /\ active > 0
        /\ snaps[active].covers = EventsBefore(kept)
        /\ turn \in 1 .. Len(messages)
    BY DEF Up, Inv, InHand
  <2>4. messages \in Seq(Kinds) /\ log \in Seq(Nat) /\ snaps \in Seq(Snapshots)
        /\ kept \in Nat /\ boundary \in Nat /\ turn \in Nat /\ Len(messages) \in Nat
    BY DEF Inv, TypeOK
  <2>5. m \in TailStart .. Len(messages) /\ m < kept
    <3>1. m # turn /\ m \in TailStart .. Len(messages) /\ ~(m \in kept .. Len(messages))
      BY <2>2 DEF WholeTail, Archive
    <3>2. TailStart \in Nat
      BY <2>3, TailIs
    <3> QED BY <2>4, <3>1, <3>2
  <2>6. m \in DOMAIN messages /\ m \in Nat /\ m > 0 /\ TailStart <= m
    <3>1. TailStart \in Nat /\ turn <= TailStart
      BY <2>3, TailIs
    <3> QED BY <2>3, <2>4, <2>5, <3>1
  <2>7. PICK s \in DOMAIN log : log[s] = m
    BY <2>3, <2>6 DEF Inv, Follows, Mirrors
  <2>8. s \in 1 .. Len(log) /\ Len(log) \in Nat
    BY <2>4
  <2>9. ~(s <= boundary)
    <3> SUFFICES ASSUME s <= boundary PROVE FALSE
      OBVIOUS
    <3>1. s \in 1 .. boundary /\ log[s] # 0
      BY <2>4, <2>6, <2>7, <2>8
    <3>2. log[s] < TailStart /\ TailStart \in Nat
      BY <2>3, <3>1, TailIs
    <3> QED BY <2>6, <2>7, <3>2
  <2>10. s \in EventsBefore(kept)
    <3>1. s \in boundary + 1 .. Len(log)
      BY <2>4, <2>8, <2>9
    <3> QED BY <2>5, <2>7, <3>1 DEF EventsBefore
  <2>11. s \in Covered'
    <3>1. active \in DOMAIN snaps /\ snaps[active].st = "active"
      <4>1. active \in DOMAIN snaps
        BY <2>3, <2>4
      <4>2. Points(snaps, active)
        BY <2>3 DEF Inv, Follows, Kept
      <4> QED BY <4>1, <4>2 DEF Points
    <3>2. snaps[active] \in Snapshots
      BY <2>4, <3>1
    <3>3. snaps' = [snaps EXCEPT ![active].archived = TRUE]
      BY <2>2 DEF Archive, Archived
    <3>4. active \in DOMAIN snaps' /\ snaps'[active].st = "active"
          /\ snaps'[active].covers = EventsBefore(kept)
      BY <2>3, <3>1, <3>2, <3>3 DEF Snapshots
    <3>5. active \in Activated'
      BY <3>4 DEF Activated
    <3> QED BY <2>10, <3>4, <3>5 DEF Covered
  <2>12. log' = log
    BY <2>2 DEF Archive
  <2> QED BY <2>7, <2>11, <2>12 DEF Summarised
<1>2. Inv /\ [Next]_vars => [Whole]_vars
  BY <1>1
<1> QED BY <1>2, SessionsSound, PTL DEF Spec, CompactionDropsNothing

=============================================================================
