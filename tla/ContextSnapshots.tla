------------------------- MODULE ContextSnapshots -------------------------
(***************************************************************************)
(* The session of one coding task and the two-phase snapshots that compact *)
(* its prompt: runtime/sessions/session.py and session_store.py,           *)
(* runtime/context/snapshots.py, applications/coding/context_state.py, and *)
(* the calls the reasoning loop and the coding runner make on them.        *)
(*                                                                         *)
(* A session keeps its messages and, next to them, an event log; a message *)
(* has one event, and a run_checkpoint or runtime_error event has no       *)
(* message.  Before every model call the loop builds a prompt from the     *)
(* messages after the archive boundary.  Under pressure it keeps the       *)
(* newest groups verbatim and covers the events before them by a snapshot: *)
(* the snapshot is prepared, activated and archived in three transactions, *)
(* and only the last one moves the boundary.  A save or a transaction may  *)
(* fail, and the process may die between any two steps.                    *)
(*                                                                         *)
(* A message is its kind: "user" is the request, "note" and "retry" are    *)
(* messages the host writes in the user's role, "call" and "result" a tool *)
(* transaction, "text" an answer.  Which groups are kept depends on token  *)
(* counts: any choice the selection rules allow is possible.               *)
(***************************************************************************)
EXTENDS Integers, Sequences, FiniteSets

CONSTANTS MaxMessages,  \* bound on the messages of the session
          MaxFaults     \* bound on failed writes and crashes together

ASSUME BoundsAssumption == MaxMessages \in Nat /\ MaxFaults \in Nat

VARIABLES
  messages,   \* session.messages: the kinds, in order
  log,        \* session.event_log: at each seq the index of the event's
              \* message, 0 for an event without one
  snaps,      \* session.context_snapshots, by generation
  active,     \* session.active_snapshot_id, 0 for ""
  boundary,   \* session.archive_boundary_seq
  saved,      \* the rows of the database: messages, log, snaps
  at,         \* where the process stands
  turn,       \* index of the request the run answers (active_turn_start_index)
  kept,       \* first message the compaction under way keeps verbatim
  prompt,     \* the messages the last prompt holds verbatim
  faults      \* failed writes and crashes so far

memory == <<messages, log, snaps, active, boundary>>
vars == <<messages, log, snaps, active, boundary, saved, at, turn, kept,
          prompt, faults>>

Asked == {"user", "note", "retry"}      \* role "user"
Kinds == Asked \cup {"call", "result", "text"}
Statuses == {"prepared", "active", "superseded"}
Places == {"down", "idle", "step", "build", "compact", "prepared", "activated",
           "model"}

Snapshots == [covers : SUBSET Nat, prev : Nat, st : Statuses, archived : BOOLEAN]

Greatest(S) == CHOOSE x \in S : \A y \in S : y <= x

(* covered_event_end_seq: the last covered event.                          *)
Last(s) == Greatest(s.covers)

---------------------------------------------------------------------------
(* The session and its store.                                              *)

\* Mutant: only a row whose archiving was recorded is taken up again.
ActiveRow_Archived(rows) ==
  LET live == {i \in DOMAIN rows : rows[i].st = "active" /\ rows[i].archived}
  IN IF live = {} THEN 0 ELSE Greatest(live)

(* load_session: the active pointer is the newest row whose status is      *)
(* active.                                                                 *)
ActiveRow(rows) ==
  LET live == {i \in DOMAIN rows : rows[i].st = "active"}
  IN IF live = {} THEN 0 ELSE Greatest(live)

\* Mutant: an active row restores the boundary, archived or not.
RestoredBoundary_Active(rows) ==
  Greatest({0} \cup {Last(rows[i]) : i \in {j \in DOMAIN rows : rows[j].st = "active"}})

(* _restored_archive_boundary: an active row restores the boundary once    *)
(* its archiving was recorded.                                             *)
RestoredBoundary(rows) ==
  Greatest({0} \cup {Last(rows[i]) : i \in {j \in DOMAIN rows :
                        rows[j].st = "active" /\ rows[j].archived}})

(* _safe_archive_boundary: the boundary steps back before a tool call      *)
(* whose result lies beyond it.                                            *)
SafeBoundary(requested) ==
  Greatest({b \in 0 .. requested :
      \A s \in 1 .. b : log[s] # 0 /\ messages[log[s]] = "call"
                           => \E r \in s .. b : log[r] = log[s] + 1})

(* Session.append_event and save_session: memory gets the new messages and *)
(* events, and one transaction writes what the tables do not have yet; if  *)
(* it fails the caller raises: the run ends and memory stays as it is.     *)
Saves(texts, events, next) ==
  /\ messages' = texts /\ log' = events
  /\ \/ saved' = [saved EXCEPT !.messages = texts, !.log = events]
        /\ at' = next /\ UNCHANGED faults
     \/ faults < MaxFaults /\ faults' = faults + 1
        /\ at' = "idle" /\ UNCHANGED saved

---------------------------------------------------------------------------
(* The prompt of a coding run.                                             *)

(* _message_tail_after_archive and the tail start of                       *)
(* build_coding_context_view.                                              *)
TailStart ==
  IF active = 0 THEN turn
  ELSE Greatest({turn} \cup {log[s] + 1 : s \in {q \in 1 .. boundary : log[q] # 0}})

(* group_messages: a call opens a group with its result, a message in the  *)
(* user's role one with the answer that follows it.                        *)
GroupStarts ==
  {i \in TailStart .. Len(messages) :
     \/ i = TailStart
     \/ messages[i] \in Asked \cup {"call"}
     \/ messages[i] = "text" /\ messages[i - 1] \notin Asked}

(* _select_recent_groups and _first_selected_index: the newest groups are  *)
(* kept, at least one; the group of the request is always selected, so the *)
(* kept suffix does not start right after it.                              *)
KeptChoices ==
  {g \in GroupStarts : \E h \in GroupStarts : turn < h /\ h < g}

\* Mutant: the message right before the kept ones is left out.
EventsBefore_Short(first) ==
  {s \in boundary + 1 .. Len(log) : log[s] < first - 1}

(* _events_before_message_index: what the compaction covers of the window. *)
EventsBefore(first) == {s \in boundary + 1 .. Len(log) : log[s] < first}

(* The view when nothing is compacted: the whole tail and the request.     *)
WholeTail == (TailStart .. Len(messages)) \cup {turn}

---------------------------------------------------------------------------
NoSnapshots == <<>>

Init ==
  /\ messages = <<>> /\ log = <<>> /\ snaps = NoSnapshots
  /\ active = 0 /\ boundary = 0
  /\ saved = [messages |-> <<>>, log |-> <<>>, snaps |-> NoSnapshots]
  /\ at = "down" /\ turn = 0 /\ kept = 0 /\ prompt = {} /\ faults = 0

(* SessionManager.get_or_create.                                           *)
Load ==
  /\ at = "down"
  /\ at' = "idle"
  /\ messages' = saved.messages /\ log' = saved.log /\ snaps' = saved.snaps
  /\ active' = ActiveRow(saved.snaps)
  /\ boundary' = RestoredBoundary(saved.snaps)
  /\ UNCHANGED <<saved, turn, kept, prompt, faults>>

(* CodingAgentRunner: the request and the host's wrapper are added and     *)
(* saved before the run starts.                                            *)
StartTurn ==
  /\ at = "idle" /\ Len(messages) + 2 <= MaxMessages
  /\ Saves(messages \o <<"user", "note">>,
           log \o <<Len(messages) + 1, Len(messages) + 2>>, "step")
  /\ turn' = Len(messages) + 1
  /\ UNCHANGED <<snaps, active, boundary, kept, prompt>>

(* A reasoning step begins: the checkpoint of phase "started".             *)
StartStep ==
  /\ at = "step"
  /\ Saves(messages, Append(log, 0), "build")
  /\ UNCHANGED <<snaps, active, boundary, turn, kept, prompt>>

(* build_coding_context_view without pressure.                             *)
BuildPrompt ==
  /\ at = "build"
  /\ prompt' = WholeTail
  /\ at' = "model"
  /\ UNCHANGED <<memory, saved, turn, kept, faults>>

(* build_coding_context_view under pressure: the groups from first on are  *)
(* kept, the events before them go to the compactor.                       *)
BeginCompaction(first) ==
  /\ at = "build" /\ first \in KeptChoices /\ EventsBefore(first) # {}
  /\ kept' = first
  /\ at' = "compact"
  /\ UNCHANGED <<memory, saved, turn, prompt, faults>>

(* ContextSnapshotManager.prepare: the snapshot continues the active one.  *)
(* The transaction also appends the events.                                *)
Draft == [covers |-> EventsBefore(kept), prev |-> active, st |-> "prepared",
          archived |-> FALSE]

Prepare ==
  /\ at = "compact"
  /\ snaps' = Append(snaps, Draft)
  /\ saved' = [saved EXCEPT !.log = log, !.snaps = snaps']
  /\ at' = "prepared"
  /\ UNCHANGED <<messages, log, active, boundary, turn, kept, prompt, faults>>

\* Mutant: the replaced row gets a status the reader does not know.
Switched_Retired(rows, i) ==
  [j \in DOMAIN rows |->
     IF j = i THEN [rows[j] EXCEPT !.st = "active"]
     ELSE IF rows[j].st = "active" THEN [rows[j] EXCEPT !.st = "retired"]
     ELSE rows[j]]

(* ContextSnapshotManager.activate: the active snapshot is superseded and  *)
(* the draft becomes active, in memory and in one transaction.             *)
Switched(rows, i) ==
  [j \in DOMAIN rows |->
     IF j = i THEN [rows[j] EXCEPT !.st = "active"]
     ELSE IF rows[j].st = "active" THEN [rows[j] EXCEPT !.st = "superseded"]
     ELSE rows[j]]

(* The parent is still the active one, and the boundary does not go back.  *)
Activate ==
  /\ at = "prepared"
  /\ snaps[Len(snaps)].prev = active /\ boundary <= Last(snaps[Len(snaps)])
  /\ snaps' = Switched(snaps, Len(snaps))
  /\ active' = Len(snaps)
  /\ saved' = [saved EXCEPT !.log = log, !.snaps = Switched(saved.snaps, Len(snaps))]
  /\ at' = "activated"
  /\ UNCHANGED <<messages, log, boundary, turn, kept, prompt, faults>>

(* ContextSnapshotManager._archive: the boundary moves, then its           *)
(* completion is recorded; the prompt keeps the selected groups.           *)
Archived(rows) == [rows EXCEPT ![active].archived = TRUE]

Archive ==
  /\ at = "activated"
  /\ boundary' = SafeBoundary(Last(snaps[active]))
  /\ snaps' = Archived(snaps)
  /\ saved' = [saved EXCEPT !.log = log, !.snaps = Archived(saved.snaps)]
  /\ prompt' = (kept .. Len(messages)) \cup {turn}
  /\ at' = "model"
  /\ UNCHANGED <<messages, log, active, turn, kept, faults>>

(* _record_compaction_failure: an event without a message, and the prompt  *)
(* is built as if nothing had been compacted.                              *)
GivesUp ==
  /\ log' = Append(log, 0)
  /\ prompt' = WholeTail
  /\ at' = "model"
  /\ UNCHANGED <<messages, saved, turn, kept>>

(* The summary is refused, or the transaction of prepare or activate       *)
(* fails: memory is put back as it was.                                    *)
RefuseSummary ==
  /\ at = "compact"
  /\ GivesUp
  /\ UNCHANGED <<snaps, active, boundary, faults>>

PrepareFails ==
  /\ at = "compact" /\ faults < MaxFaults
  /\ faults' = faults + 1
  /\ GivesUp
  /\ UNCHANGED <<snaps, active, boundary>>

\* Mutant: the switch in memory is not put back.
ActivateFails_Kept ==
  /\ at = "prepared" /\ faults < MaxFaults
  /\ faults' = faults + 1
  /\ GivesUp
  /\ snaps' = Switched(snaps, Len(snaps)) /\ active' = Len(snaps)
  /\ UNCHANGED boundary

ActivateFails ==
  /\ at = "prepared" /\ faults < MaxFaults
  /\ faults' = faults + 1
  /\ GivesUp
  /\ UNCHANGED <<snaps, active, boundary>>

(* The completion cannot be recorded: the boundary in memory has moved.    *)
ArchiveFails ==
  /\ at = "activated" /\ faults < MaxFaults
  /\ faults' = faults + 1
  /\ boundary' = SafeBoundary(Last(snaps[active]))
  /\ GivesUp
  /\ UNCHANGED <<snaps, active>>

\* Mutant: only the newest message gets its event.
Backfill_Last(last) == <<last>>

(* The model asks for a tool: the call and its result are put in the       *)
(* messages, the checkpoint of phase "tools_executed" is appended, and the *)
(* save appends the events of the two messages after it.                   *)
Backfill(last) == [k \in 1 .. last - Len(messages) |-> Len(messages) + k]

CallTool ==
  /\ at = "model" /\ Len(messages) + 2 <= MaxMessages
  /\ Saves(messages \o <<"call", "result">>,
           Append(log, 0) \o Backfill(Len(messages) + 2), "step")
  /\ UNCHANGED <<snaps, active, boundary, turn, kept, prompt>>

(* The tool is cancelled or leaves its effects unknown: _stop_turn adds the *)
(* end of the turn with its event, and its save appends the events of the  *)
(* call and the result behind that one.                                    *)
StopTools ==
  /\ at = "model" /\ Len(messages) + 3 <= MaxMessages
  /\ Saves(messages \o <<"call", "result", "text">>,
           Append(log, Len(messages) + 3) \o Backfill(Len(messages) + 2), "idle")
  /\ UNCHANGED <<snaps, active, boundary, turn, kept, prompt>>

(* The model answers: the checkpoint of phase "assistant_final".           *)
Answer ==
  /\ at = "model" /\ Len(messages) < MaxMessages
  /\ Saves(Append(messages, "text"),
           Append(log, 0) \o Backfill(Len(messages) + 1), "idle")
  /\ UNCHANGED <<snaps, active, boundary, turn, kept, prompt>>

(* The model answers nothing: the checkpoint of phase                      *)
(* "empty_model_response" is saved, the host asks again, once, and the next *)
(* checkpoint saves the question.                                          *)
Retry ==
  /\ at = "model" /\ Len(messages) < MaxMessages
  /\ messages[Len(messages)] # "retry"
  /\ messages' = Append(messages, "retry")
  /\ log' = Append(Append(log, 0), Len(messages) + 1)
  /\ saved' = [saved EXCEPT !.messages = messages, !.log = Append(log, 0)]
  /\ at' = "step"
  /\ UNCHANGED <<snaps, active, boundary, turn, kept, prompt, faults>>

(* _stop_turn: a limit or a guard ends the turn with a message.            *)
StopTurn ==
  /\ at \in {"step", "model"} /\ Len(messages) < MaxMessages
  /\ Saves(Append(messages, "text"), Append(log, Len(messages) + 1), "idle")
  /\ UNCHANGED <<snaps, active, boundary, turn, kept, prompt>>

(* The model call fails: the checkpoint of phase "model_error".  That of an *)
(* empty answer ends the turn the same way if it cannot be saved.          *)
ModelError ==
  /\ at = "model"
  /\ Saves(messages, Append(log, 0), "idle")
  /\ UNCHANGED <<snaps, active, boundary, turn, kept, prompt>>

(* The process dies, or the manager drops the session from its cache.      *)
Crash ==
  /\ at # "down" /\ faults < MaxFaults
  /\ faults' = faults + 1
  /\ at' = "down"
  /\ messages' = <<>> /\ log' = <<>> /\ snaps' = NoSnapshots
  /\ active' = 0 /\ boundary' = 0
  /\ UNCHANGED <<saved, turn, kept, prompt>>

Next ==
  \/ Load \/ StartTurn \/ StartStep \/ BuildPrompt
  \/ \E first \in 1 .. MaxMessages : BeginCompaction(first)
  \/ Prepare \/ Activate \/ Archive
  \/ RefuseSummary \/ PrepareFails \/ ActivateFails \/ ArchiveFails
  \/ CallTool \/ StopTools \/ Answer \/ Retry \/ StopTurn \/ ModelError
  \/ Crash

Spec == Init /\ [][Next]_vars

---------------------------------------------------------------------------
(* Properties.                                                             *)

(* The types of the variables: session.py:37-58 and the tables of          *)
(* session_store.py.                                                       *)
TypeOK ==
  /\ messages \in Seq(Kinds) /\ log \in Seq(Nat)
  /\ snaps \in Seq(Snapshots)
  /\ active \in Nat /\ boundary \in Nat
  /\ saved \in [messages : Seq(Kinds), log : Seq(Nat), snaps : Seq(Snapshots)]
  /\ at \in Places
  /\ turn \in Nat /\ kept \in Nat /\ prompt \subseteq Nat
  /\ faults \in 0 .. MaxFaults

Up == at # "down"

(* Activated snapshots, in the order they became active.                   *)
Activated == {i \in DOMAIN snaps : snaps[i].st # "prepared"}

(* The messages some summary of the active lineage holds: a summary is     *)
(* built from the covered events and from the summary before it.           *)
Covered == UNION {snaps[i].covers : i \in Activated}
Summarised == {log[s] : s \in Covered}

(* What memory believes of the snapshots is what the database says, with   *)
(* every way a transaction can fail in between: the rows are equal, one    *)
(* snapshot at most is active and the pointer names it (the roll back of   *)
(* prepare and activate, snapshots.py:395-401 and 432-444).                *)
SnapshotsAgree ==
  Up => /\ snaps = saved.snaps
        /\ \A i \in DOMAIN snaps : (snaps[i].st = "active") = (i = active)

(* The lineage is the history: the parent of an activated snapshot is the  *)
(* activated snapshot before it, so no summary that was ever shown to the  *)
(* model drops out of the chain of the active one (snapshots.py:354-357    *)
(* and 418-421).                                                           *)
LineageIsHistory ==
  Up => \A i \in Activated :
          snaps[i].prev = Greatest({0} \cup {j \in Activated : j < i})

(* Only an archived snapshot moves the boundary, and a restart archives    *)
(* nothing: the boundary the rows restore is never beyond the one in       *)
(* memory, and that one never beyond the events of the active snapshot     *)
(* ("Only an ACTIVE snapshot may advance the archive boundary",            *)
(* docs/architecture/runtime-system-design.md:89).                         *)
RestartArchivesNothing ==
  Up => /\ RestoredBoundary(saved.snaps) <= boundary
        /\ boundary > 0 => active # 0 /\ boundary <= Last(snaps[active])

(* The event log mirrors the messages, on disk at any time and in memory   *)
(* while a session is loaded: every message has one event (the back-fill   *)
(* of session.py:166-188 behind the writers that append messages only).    *)
Mirrors(events, texts) ==
  /\ \A m \in DOMAIN texts : \E s \in DOMAIN events : events[s] = m
  /\ \A s, q \in DOMAIN events : events[s] = events[q] /\ s # q => events[s] = 0
  /\ \A s \in DOMAIN events : events[s] \in 0 .. Len(texts)

EventsMirrorMessages ==
  /\ Mirrors(saved.log, saved.messages)
  /\ Up => Mirrors(log, messages)

(* A compaction drops nothing: when one completes, every message the tail  *)
(* held before it is either kept in the prompt or among the events some    *)
(* summary of the lineage covers (the selection of context_state.py:206-   *)
(* 222, the grouping of 497-537 and the events of 639-661 fit together).   *)
CompactionDropsNothing ==
  [][at = "activated" /\ at' = "model" => WholeTail \subseteq prompt' \cup Summarised']_vars

(* Every message of the turn is before the model, verbatim or in a summary *)
(* of the active lineage.  The code breaks this: a checkpoint event has no *)
(* message, so the compaction covers it even when it follows the messages  *)
(* that are kept; the boundary then moves behind those messages.           *)
NothingForgotten ==
  at = "model" =>
    \A m \in turn .. Len(messages) : m \in prompt \cup Summarised

=============================================================================
