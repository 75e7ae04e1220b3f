----------------------------- MODULE RunLifecycle -----------------------------
(***************************************************************************)
(* What the run supervisor promises of each run, whatever crashes: the run  *)
(* is accepted once, executed at most once, and reaches one final status    *)
(* that never changes.  A cancelled run does not complete, and a run whose  *)
(* execution began while its start was not yet on record ends interrupted.  *)
(* This is the abstract specification that AgentSupervisor implements; its  *)
(* variables are the durable status of a run and whether a process was      *)
(* ever started for it.                                                     *)
(***************************************************************************)
CONSTANT Runs

VARIABLES life, executed

vars == <<life, executed>>

Statuses == {"absent", "queued", "running", "cancelling",
             "completed", "stopped", "failed", "interrupted"}
Unfinished == {"queued", "running", "cancelling"}
Final == {"completed", "stopped", "failed", "interrupted"}

TypeOK ==
  /\ life \in [Runs -> Statuses]
  /\ executed \in [Runs -> BOOLEAN]

Init ==
  /\ life = [r \in Runs |-> "absent"]
  /\ executed = [r \in Runs |-> FALSE]

Become(r, st) == life' = [life EXCEPT ![r] = st]

Accept(r) == life[r] = "absent" /\ Become(r, "queued") /\ UNCHANGED executed

\* The process starts before its start is recorded.
Execute(r) ==
  /\ life[r] = "queued" /\ ~executed[r]
  /\ executed' = [executed EXCEPT ![r] = TRUE]
  /\ Become(r, "running") \/ UNCHANGED life

Cancel(r) == life[r] = "running" /\ Become(r, "cancelling") /\ UNCHANGED executed

Interrupt(r) ==
  life[r] \in Unfinished /\ Become(r, "interrupted") /\ UNCHANGED executed

End(r, st) ==
  /\ \/ life[r] = "queued" /\ ~executed[r]
     \/ life[r] \in {"running", "cancelling"}
  /\ Become(r, st) /\ UNCHANGED executed

Complete(r) == life[r] = "running" /\ Become(r, "completed") /\ UNCHANGED executed

Next == \E r \in Runs :
  \/ Accept(r) \/ Execute(r) \/ Cancel(r) \/ Interrupt(r) \/ Complete(r)
  \/ \E st \in {"stopped", "failed"} : End(r, st)

Spec == Init /\ [][Next]_vars

=============================================================================
