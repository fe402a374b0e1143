# TLA+ models of the HotShot consensus task

This directory holds TLA+ models of the per-node consensus task in
`src/crates/task-impls/src/consensus/mod.rs` and of the test harness's
spinning task in `src/testing/src/spinning_task.rs`. It also holds the TLC
configurations that check them. `PROJECT.json` lists each run, the source lines
behind every definition, the findings and the hazards.

## The system

A replica's consensus task reads one broadcast channel of `HotShotEvent`s and
handles them one at a time, in order, in `ConsensusTaskState::handle`. The
events come from three places:

- the network: proposals, votes, DA certificates and VID shares;
- other tasks: payloads from the transaction task, view-sync certificates,
  upgrade certificates and Shutdown;
- the task itself. Several handlers, and collaborators they call, broadcast
  events that the task then consumes: `QuorumProposalValidated`, `QCFormed`,
  `ViewChange` and `Timeout`.

The task shares a `Consensus` store with those collaborators. The store holds
`high_qc`, `locked_view`, `last_decided_view`, the saved leaves, the DA
certificates and the VID shares. The task also spawns two kinds of sub-task:
view timers, which broadcast `Timeout`, and proposal producers.

Some of the code the task calls is not under `src/`. These collaborators are
modelled from `spec.md` and marked `spec_modelled` in the map:

- `handle_quorum_proposal_recv`, `update_view` and `publish_proposal_if_able`;
- `visit_leaf_ancestors` and `collect_garbage`;
- the vote accumulator and `UpgradeCertificate::in_interim`.

The spinning task belongs to the test harness. A generated stream sleeps
before each of its messages, and on each message the task applies a list of
node changes: Down shuts a node down, and Up does nothing.

## Modules

| Module | Models | State / actions |
|---|---|---|
| `ChainWalk` | The commit rule, lines 391-489. | `VisitLeaf` is the visitor closure. `WalkFrom` is `visit_leaf_ancestors` with an `Exclusive` terminator, written as a RECURSIVE operator. `ChainWalk` adds the consecutive-parent guard of line 403. |
| `MCChainWalk` | Checks `ChainWalk` against a declarative three-chain rule. | Each initial state is a world, a garbage-collected store and a proposal. |
| `ConsensusTask` | The whole task. | Variables are the fields of `ConsensusTaskState`, the shared store, the channel and history of outputs. There is one action per handler. `handle_quorum_proposal_recv` has three outcomes: stale, validated, and the liveness path. `VIDShareRecv` splits into dropped and stored. Further actions are the timer and producer sub-tasks and `Deliver`, the environment appending an event. |
| `DecidedLog` | What the commit rule promises: an abstract, append-only log of decided leaves. | `anchor` and `log`. `Decide(a)` moves the anchor to a descendant `a` and appends the path from `a` down to the old anchor. |
| `MCFork`, `MCConsensusTask`, `MCVote`, `MCLeader`, `MCLateQC`, `MCUpgrade`, `MCUpgradeJump` | Worlds for `ConsensusTask`. | Each fixes the leaves, leaders, payloads, upgrade certificate and the set of events the environment may deliver. `MCFork` has a dead branch: view 2's leaf is abandoned and leaf 3 extends leaf 1. |
| `SpinningTask` | `spinning_task.rs`. | `Tick` is one generator step together with the message handler. `ShutDown` is the event handler. |

### How the model corresponds to the code

- **Leaves.** A leaf is named by its view, and the world gives each view's
  parent. A QC, DA certificate or VID share is also named by its view.
  Signatures are an input bit (`valid`) or an input signer.
- **The channel.** `event_stream` is a FIFO queue. A handler pops the event
  at its head. Whatever the handler broadcasts to itself is appended in the
  order the code broadcasts it. For example, `update_view`'s `ViewChange` goes
  before `QuorumProposalValidated`.
- **Handlers run to completion.** Every state change a handler makes is part
  of its action. This includes the trailing `vote_if_able`, `publish_proposal`,
  `collect_garbage` and `cancel_tasks`.
- **Guards.** The guards are the code's early returns. Examples are the
  one-view window of the VID share handler and `cur_view >= view` in the
  Timeout handler.
- **What is left out.** Network polling intents, metrics, logging and the
  application's `Event` payloads carry no state the task reads back. Outputs
  are recorded in history variables instead: `quorum_votes_sent`,
  `timeout_votes_sent`, `decided_chain`, `proposals_sent` and
  `version_upgrades`. One observation variable records what the task has
  taken in: `da_valid_recv`, the views of valid DA certificates received.

## Runs

| Run | Expect | What it shows |
|---|---|---|
| `chain_walk` | pass | The walk computes the lock, decide, anchor, decide QC and decided chain exactly as the three-chain rule defines them. This holds over every world and garbage-collected store of up to 5 views (264k cases). |
| `follower` | pass | This run uses the fork world (`MCFork`). Proposals of five views, and DA certificates and VID shares of views 3-5, arrive in any order, duplicated or not at all, interleaved with timers. The replica's `last_decided_view` and `decided_chain` implement `DecidedLog` (`DecidedLogRefinement`): the decide across the skipped view and every later re-walk of a stale or duplicated proposal append exactly what the abstract log appends. The anchor survives garbage collection (`AnchorRetained`). The lock and the decided view never move back (`CommitRuleMonotone`). |
| `leader` | pass | Votes of view 1 arrive repeated and re-delivered, including after the collector slot has been reset, interleaved with payload, view-sync and upgrade events. The leader of view 2 eventually proposes once it holds the payload and a QC, TC or view-sync certificate, whatever order they arrive in (`LeaderEventuallyProposes`). |
| `vote` | pass | A replica that holds its current proposal, the parent leaf, its VID share and a valid DA certificate eventually votes (`VoteWhenReady`). With a timer that fires `Timeout(view + 1)`, a replica stuck in a view eventually votes to time out (`TimeoutVoteEventually`). |
| `vote_forged_da` | violation | A faulty peer also sends a DA certificate that fails verification. It overwrites the valid one, and the replica never votes. |
| `timeout_at_new_view` | violation | The spec's timer fires `Timeout(new_view)`, so a replica stuck in view v must send `TimeoutVoteSend{view = v}` (scenario 2). The handler's `cur_view >= view` drops that timeout. With the spec's `cur_view > V` the same run passes. |
| `double_vote` | violation | A duplicated proposal makes the replica vote twice in one view. |
| `late_qc` | violation | A QC formed from late votes lowers `high_qc`. |
| `upgrade_interim` | violation | A vote for a non-null block in an interim view. The vote happens after the replica has moved past the interim, because the check reads `cur_view`. |
| `upgrade_jump` | violation | The replica reaches view 5 straight from view 3, skipping `new_version_first_view` 4, and never switches version. |
| `spinner` | pass | Every scheduled Down of an existing node is applied unless the test shuts the task down. |
| `spinner_order` | violation | Change lists are applied in reverse order. |

Each property of a passing run is paired in `PROJECT.json` with a mutant. A
mutant is a plausible bug in the mapped code, and TLC finds the property
violated under it:

- a chain walk that skips the gap check, or runs with no terminator;
- a walk that, once deciding, still stops at the first skipped view;
- a DA certificate handler that stores the certificate but does not try to vote;
- garbage collection that drops the anchor;
- a timer armed one view late;
- a Timeout test that is off by one;
- a payload handler that forgets the QC branch;
- a stream of sleeps that ends early;
- a missing bounds check on the node handles.

## Findings

1. **Double vote** (`mod.rs:390`). The QuorumProposalValidated handler resets
   `current_proposal`, and `vote_if_able` keeps no record of the views it has
   voted in. A proposal delivered twice within the one-view window therefore
   gets two votes. Spec section 3, invariant 5 allows only one vote per view.
2. **Timeout never votes under the spec's timer** (`mod.rs:869`). The spec's
   timer and the code's handler disagree by one view. Under the spec's timer,
   `Timeout(v)` fires while the replica is in view v, and `cur_view >= view`
   drops it, so the vote of scenario 2 is never sent. The spec's own test,
   `cur_view > V`, passes the same run. `vote` shows that the handler works only
   if the timer names the next view.
3. **`high_qc` regresses** (`mod.rs:692`). `QCFormed(Left)` assigns
   `high_qc` without comparing it to the current value.
4. **Interim vote on a block** (`mod.rs:193`). `in_interim(self.cur_view)`
   checks the replica's view instead of the proposal's view.
5. **Spinner order** (`spinning_task.rs:113`). `changes.pop()` takes the
   last list, while the durations are taken from the first.
6. **A forged DA certificate blocks the vote** (`mod.rs:742`). The handler
   stores every certificate under its view before any check. An invalid
   certificate that arrives after the valid one replaces it. `vote_if_able`
   then finds no valid certificate, and the replica never votes in that view.
7. **A view jump skips the upgrade** (`mod.rs:813`). The version switches
   only when `new_view == new_version_first_view`. A replica that enters a
   later view by a proposal, TC or view sync keeps the old version. The spec
   states the same equality, so this is a gap in the spec as well.

Hazards without a violation run:

- **The echoed `ViewChange` repeats the version swap** (`mod.rs:812`). The
  repeat writes the same version, so it changes no state this task reads.
- **A vote delivered again after its collector slot was reset forms a second
  QC** (`mod.rs:587-610`). The `leader` run reaches it. Its only effects are
  a second `publish_proposal`, which is a no-op for a view that already has
  a producer, and `high_qc = qc`. When it arrives after `high_qc` has moved
  on, that is the regression `late_qc` shows.
- **A failed `append_vid` aborts the vote** (`mod.rs:265`). The vote is
  tried again only when another event for that view runs `vote_if_able`.
  The lost vote is not a run. With `AppendVidMayFail = TRUE` in `MCVote.cfg`, TLC finds
  `VoteWhenReady` violated, because the failure hit the last trigger. The
  spec prescribes aborting the vote (section 7), and the quorum threshold
  tolerates one missing vote.

## Bounds and why they suffice

- **`follower`.** Views 1-5 with three nodes and one queued environment
  event. The fork world has leaf 3 extend leaf 1 while leaf 2 is abandoned.
  Proposal 5 then decides leaves 3 and 1 in one step, across the skipped
  view. This is the only decide the world allows, so two successive decides
  (a new anchor above an earlier one) are not exercised here; `chain_walk`
  covers walks that start from any anchor. The run exercises the `Exclusive`
  terminator, garbage collection of the dead branch and the one-view stale
  window. DA certificates and VID shares are delivered for views 3-5, which
  keeps the run at about 40 s (852k states).
- **`vote`.** Views 1-2, in which every vote precondition can arrive in
  every order.
- **`double_vote`.** The straight four-view world (`MCConsensusTask`).
- **One queued environment event** in every world. `Deliver` adds an event
  only while the channel is empty, so an environment event arrives between
  any two handled events, but never between a handler and the internal
  events it broadcast to itself (for example between `QuorumProposalRecv`
  and the `ViewChange` and `QuorumProposalValidated` it emits). Those
  internal events are handled first. In the code a network event can be
  queued in between; that interleaving is not explored.
- **`leader`.** Two views with both the quorum and the timeout paths. Two
  voters with `Threshold` 2 let a single repeated signer, a complete
  quorum, and a re-delivered quorum after the slot reset all happen.
- **`chain_walk`.** Every well-formed world of up to 5 views, including forks
  and gaps.
- **Upgrade worlds.** An interim of views 1-3 and a first new view of 4.
- **Counts.** Vote counts are capped at 2. That is enough to tell "once"
  from "more than once".

## Fault model

- **The network.** It may delay, duplicate or drop any event: `Deliver` is
  unconstrained and has no fairness.
- **Storage.** `append_vid` may fail where `AppendVidMayFail` is TRUE.
  `TryVote` chooses the outcome. On a failure the vote is not sent and
  `current_proposal` stays, as at lines 263-277. Every cfg sets it FALSE,
  because no passing property tells a failed write apart from a missing
  trigger. Setting it TRUE in `MCVote.cfg` reproduces the lost vote of
  `mod.rs:265`: TLC finds `VoteWhenReady` violated.

## Refinement

`DecidedLog` is what a replica's decisions should look like from the
outside. The anchor moves only to a descendant. Each decide appends, newest
first, every leaf between the new anchor and the old one. `ConsensusTask`
defines `DL == INSTANCE DecidedLog WITH anchor <- last_decided_view, log <-
decided_chain`, and `follower` checks `DL!Spec` as a property. No leaf is
skipped, repeated or taken from another branch, and a stuttering step of
the replica leaves both variables unchanged.

## Fairness

- **`ConsensusTask`.** The fairness is weak fairness on `Handle`, on
  `TimerFires` and on each `ProducerFires`. The justification is that the
  task loop always takes the next event from a non-empty channel, a spawned
  timer or producer runs once it has slept, and cancellation removes the
  sub-task, which disables the action. The network (`Deliver`) gets no
  fairness.
- **`SpinningTask`.** The generated stream is polled until it ends, so `Tick`
  is weakly fair.
- **Deadlock.** `MCLeader`, `MCSpinningTask` and `MCSpinningOrder` disable
  the deadlock check because `Shutdown` really stops the task.

## Not modelled

- Storage, networking, membership and signature checks. These are I/O or
  cryptography and lie outside `src/`. Of storage, only the outcome of
  `append_vid` is modelled, because `vote_if_able` acts on it. A failed
  `update_high_qc` (`mod.rs:686`) is only logged and never read back.
- The `dependency-tasks` build. In that build `vote_if_able` returns false
  and `publish_proposal` does nothing, and the proposal, DA certificate and
  VID share handlers are compiled out. The proposals reach the task through
  a task outside `src/`.
- Several replicas composed into one system. Each run is one replica, and
  the other replicas act through the events they deliver.

## Open questions

- **Several replicas.** Each `ConsensusTask` variable belongs to one
  replica. Composing two would mean instantiating the module per node, with
  its variables as functions of the node, and turning one replica's vote
  outputs into the other's inputs. A single replica already reaches 852k
  states in the follower world, so the product is out of TLC's reach at
  these bounds. The environment's freedom to deliver any event stands in
  for the other replicas.
- **The repeated version swap** (`mod.rs:812`). No run checks it, because
  the repeat changes no state this task reads.
