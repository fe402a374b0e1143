---------------------------- MODULE SpinningTask ----------------------------
(***************************************************************************)
(* The test harness's spinning task (testing/src/spinning_task.rs): a      *)
(* generated stream sleeps node_changes[i].0 before its i-th message, and  *)
(* the message handler takes a list of node changes from `changes` and     *)
(* applies it -- Up is not implemented, Down shuts the node's handle down. *)
(* A ShutDown test event completes the task.                               *)
(*                                                                         *)
(* A change is [idx, updown]; its `view` field is never read and is left   *)
(* out.  The sleeps only space the messages: the model keeps their number. *)
(***************************************************************************)
EXTENDS Naturals, Sequences, SequencesExt

CONSTANTS
    Handles,        \* indices of state.handles
    Indices,        \* indices a change may name (may exceed Handles)
    MaxChanges      \* bound on the length of node_changes

Change == [idx : Indices, updown : {"Up", "Down"}]

\* A test's node_changes: each duration paired with at most one change.
Schedules == UNION { [1..n -> {{}} \cup { {c} : c \in Change }] : n \in 0..MaxChanges }

VARIABLES
    schedule,       \* the durations' change lists, in node_changes order
    atomic_idx,     \* the generator's AtomicUsize
    changes,        \* state.changes
    down,           \* handles shut down
    applied,        \* history: positions in node_changes of applied lists
    completed       \* the task returned HotShotTaskCompleted::ShutDown

vars == <<schedule, atomic_idx, changes, down, applied, completed>>

Init ==
    /\ schedule \in Schedules
    /\ atomic_idx = 0
    /\ changes = schedule
    /\ down = {}
    /\ applied = <<>>
    /\ completed = FALSE

\* The generator's fetch_add and sleep_durations.get (lines 96-109): it
\* yields a message while a duration is left, and the message handler
\* (lines 111-131) pops the LAST list of changes and applies it.
\* Mutant: the bounds check of state.handles.get (line 121) dropped.
ApplyChangesUnchecked(cs) == down \cup { c.idx : c \in { x \in cs : x.updown = "Down" } }

ApplyChanges(cs) == down \cup { c.idx : c \in { x \in cs : x.updown = "Down" /\ x.idx \in Handles } }

\* Mutant: the stream ends one duration early.
TickEarlyEnd ==
    /\ ~completed /\ atomic_idx + 1 < Len(schedule)
    /\ atomic_idx' = atomic_idx + 1
    /\ IF changes = <<>>
       THEN UNCHANGED <<changes, down, applied>>
       ELSE /\ down' = ApplyChanges(Last(changes))
            /\ applied' = Append(applied, Len(changes))
            /\ changes' = Front(changes)
    /\ UNCHANGED <<schedule, completed>>

Tick ==
    /\ ~completed /\ atomic_idx < Len(schedule)
    /\ atomic_idx' = atomic_idx + 1
    /\ IF changes = <<>>
       THEN UNCHANGED <<changes, down, applied>>
       ELSE /\ down' = ApplyChanges(Last(changes))
            /\ applied' = Append(applied, Len(changes))
            /\ changes' = Front(changes)
    /\ UNCHANGED <<schedule, completed>>

\* The event handler (lines 80-92): GlobalTestEvent::ShutDown completes
\* the task; the test runner may send it at any time.
ShutDown ==
    /\ ~completed
    /\ completed' = TRUE
    /\ UNCHANGED <<schedule, atomic_idx, changes, down, applied>>

Next == Tick \/ ShutDown

\* The task runs its message stream to the end unless shut down first.
Spec == Init /\ [][Next]_vars /\ WF_vars(Tick)

-----------------------------------------------------------------------------
TypeOK ==
    /\ schedule \in Schedules
    /\ atomic_idx \in 0..MaxChanges
    /\ changes \in Seq(SUBSET Change)
    /\ down \subseteq Handles
    /\ applied \in Seq(1..MaxChanges)
    /\ completed \in BOOLEAN

ScheduledDowns ==
    { c.idx : c \in { x \in UNION Range(schedule) : x.updown = "Down" /\ x.idx \in Handles } }

\* Every Down a test schedules for an existing handle is carried out
\* before the stream of sleeps ends, unless the test shuts the task down.
DownsEventuallyApplied == <>(completed \/ down = ScheduledDowns)

\* The i-th message, sent after the i-th sleep, applies the change list
\* node_changes pairs with the i-th duration (lines 94 and 113).
ChangesAppliedInOrder == \A k \in DOMAIN applied : applied[k] = k

=============================================================================
