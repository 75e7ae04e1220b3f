--------------------------- MODULE DeliveryPromise ---------------------------
(***************************************************************************)
(* What the delivery of a task promises its user, whoever crashes and when: *)
(* the branch that becomes public holds a candidate that has passed its     *)
(* verification, of which nothing has changed since, and it becomes public  *)
(* only while the target branch is where the candidate was merged from.     *)
(* This is the abstract specification that WorktreeDelivery implements.     *)
(***************************************************************************)
CONSTANTS Deliveries, Commits, NoCommit

VARIABLES
  target,   \* commit of the user's target branch
  base,     \* the target commit that a candidate was merged into
  intact,   \* deliveries whose checkout is the candidate and nothing else
  passed,   \* deliveries with a verification that passed
  public    \* deliveries whose branch exists

vars == <<target, base, intact, passed, public>>

Init ==
  /\ target \in Commits
  /\ base = [d \in Deliveries |-> NoCommit]
  /\ intact = {} /\ passed = {} /\ public = {}

\* The user's target is moved by the user, never by a delivery.
MoveTarget ==
  /\ target' \in Commits
  /\ UNCHANGED <<base, intact, passed, public>>

Fix(d) ==
  /\ base[d] = NoCommit
  /\ \E c \in Commits : base' = [base EXCEPT ![d] = c]
  /\ UNCHANGED <<target, intact, passed, public>>

Merge(d) ==
  /\ base[d] # NoCommit /\ intact' = intact \cup {d}
  /\ UNCHANGED <<target, base, passed, public>>

Disturb(d) ==
  /\ d \notin passed /\ intact' = intact \ {d}
  /\ UNCHANGED <<target, base, passed, public>>

Pass(d) ==
  /\ d \in intact /\ passed' = passed \cup {d}
  /\ UNCHANGED <<target, base, intact, public>>

\* Another verification begins: what the last one said counts no more.
Withdraw(d) ==
  /\ passed' = passed \ {d}
  /\ UNCHANGED <<target, base, intact, public>>

Expose(d) ==
  /\ d \in passed /\ base[d] = target
  /\ public' = public \cup {d}
  /\ UNCHANGED <<target, base, intact, passed>>

Next ==
  \/ MoveTarget
  \/ \E d \in Deliveries :
       Fix(d) \/ Merge(d) \/ Disturb(d) \/ Pass(d) \/ Withdraw(d) \/ Expose(d)

Spec == Init /\ [][Next]_vars

=============================================================================
