--------------------------- MODULE ConsensusTask ---------------------------
(***************************************************************************)
(* One replica's consensus task (crates/task-impls/src/consensus/mod.rs):  *)
(* the event dispatcher `handle` and every handler it runs, over the store *)
(* it shares with its collaborators.                                       *)
(*                                                                         *)
(* The task consumes one broadcast channel in arrival order.  Events from  *)
(* the network and from other tasks are appended by the environment;       *)
(* events the task (or a collaborator it calls) broadcasts and consumes    *)
(* itself -- QuorumProposalValidated, QCFormed, ViewChange and Timeout --  *)
(* are appended by the step that emits them.  Outputs to other tasks and   *)
(* to the application are recorded in history variables.                  *)
(*                                                                         *)
(* The world the replica lives in is fixed by constants: one leaf per view *)
(* (honest leaders), the leaf's parent view, its payload, the leader of    *)
(* each view and the committees.  Data is abstracted to what decides       *)
(* control: a leaf, QC, DA certificate or VID share is named by its view.  *)
(* Network polling intents, logging and metrics carry no state the task    *)
(* reads back and are left out.                                            *)
(***************************************************************************)
EXTENDS ChainWalk, FiniteSets, FiniteSetsExt

CONSTANTS
    Nodes,          \* the quorum membership (all staked)
    Self,           \* this replica's public key
    MaxView,        \* views 0..MaxView
    Parent,         \* the world: leaf view -> parent leaf view (justify QC)
    Payload,        \* leaf view -> "null" or "block" payload commitment
    LeaderOf,       \* view -> leader (get_leader)
    DACommittee,    \* DA committee (staked committee of committee_membership)
    Threshold,      \* votes a vote accumulator needs for a certificate
    UpgradeLeaf,    \* view of the leaf embedding the upgrade certificate, or NoLeaf
    UpgradeCert,    \* [view, decide_by, new_version_first_view]
    TimerOffset,    \* the timeout task armed in view v fires Timeout(v + TimerOffset)
    Inputs,         \* events the network and other tasks may deliver
    MaxQueue,       \* bound on environment events waiting in the channel
    AppendVidMayFail \* whether storage.append_vid may return an error

Views     == 0..MaxView
LeafViews == DOMAIN Parent
None      == [none |-> TRUE]      \* an absent optional value

ASSUME /\ Self \in Nodes /\ DACommittee \subseteq Nodes
       /\ 0 \in LeafViews /\ LeafViews \subseteq Views
       /\ \A v \in LeafViews \ {0} : Parent[v] \in LeafViews /\ Parent[v] < v
       /\ LeaderOf \in [0..MaxView + 2 -> Nodes]
       /\ Threshold \in 1..Cardinality(Nodes)
       /\ TimerOffset \in {0, 1}
       /\ AppendVidMayFail \in BOOLEAN

VARIABLES
    \* ConsensusTaskState (lines 68-147)
    cur_view, current_proposal, payload_commitment_and_metadata,
    vote_collector, timeout_vote_collector, timeout_task, spawned_tasks,
    formed_upgrade_certificate, proposal_cert, decided_upgrade_cert, version,
    \* the shared Consensus store (spec section 3)
    high_qc, locked_view, last_decided_view, saved_leaves, saved_da_certs,
    vid_shares,
    \* the broadcast channel the task consumes, and whether it still runs
    event_stream, running,
    \* history: what the task has emitted
    quorum_votes_sent, timeout_votes_sent, decided_chain, proposals_sent,
    version_upgrades,
    \* observation: views of valid DA certificates received
    da_valid_recv

task_vars  == <<cur_view, current_proposal, payload_commitment_and_metadata,
                vote_collector, timeout_vote_collector, timeout_task,
                spawned_tasks, formed_upgrade_certificate, proposal_cert,
                decided_upgrade_cert, version>>
store_vars == <<high_qc, locked_view, last_decided_view, saved_leaves,
                saved_da_certs, vid_shares>>
out_vars   == <<quorum_votes_sent, timeout_votes_sent, decided_chain,
                proposals_sent, version_upgrades>>
obs_vars   == <<da_valid_recv>>
vars == <<task_vars, store_vars, event_stream, running, out_vars, obs_vars>>

-----------------------------------------------------------------------------
(* Events of the channel.                                                  *)

Ev(t, v)      == [type |-> t, view |-> v]
VoteEv(t, v, n) == [type |-> t, view |-> v, voter |-> n]
DACertEv(v, ok, pl)  == [type |-> "DACertificateRecv", view |-> v, valid |-> ok, payload |-> pl]
VIDShareEv(v, r, s)  == [type |-> "VIDShareRecv", view |-> v, recipient |-> r, signer |-> s]
VSCertEv(v, ok) == [type |-> "ViewSyncFinalizeCertificate2Recv", view |-> v, valid |-> ok]

\* A certificate kept in proposal_cert (ViewChangeEvidence).
Evidence(kind, v) == [kind |-> kind, view |-> v]

Bump(f, v) == [f EXCEPT ![v] = IF @ >= 2 THEN 2 ELSE @ + 1]   \* count, capped at 2

-----------------------------------------------------------------------------
(* Collaborators the task calls that are not in this file; each is         *)
(* modelled from the spec section named.                                   *)

\* UpgradeCertificate::in_interim (section 4.4a, 3): between the
\* certificate's view and the first view of the new version.
InInterim(v) == UpgradeCert.view < v /\ v < UpgradeCert.new_version_first_view

\* update_view (section 4.5, steps 1-5): refuses a view that is not newer;
\* otherwise cancels the old timer, enters the view, arms a new timer and
\* publishes ViewChange(new_view) on the event bus.
\* Mutant: the timer armed one view too late.
UpdateViewLateTimer(nv) ==
    IF nv <= cur_view
    THEN [ok |-> FALSE, view |-> cur_view, timer |-> timeout_task, emit |-> <<>>]
    ELSE [ok |-> TRUE, view |-> nv, timer |-> nv + TimerOffset + 1,
          emit |-> <<Ev("ViewChange", nv)>>]

UpdateView(nv) ==
    IF nv <= cur_view
    THEN [ok |-> FALSE, view |-> cur_view, timer |-> timeout_task, emit |-> <<>>]
    ELSE [ok |-> TRUE, view |-> nv, timer |-> nv + TimerOffset,
          emit |-> <<Ev("ViewChange", nv)>>]

\* publish_proposal_if_able (section 4.4, proposal production) as called by
\* publish_proposal (lines 334-362): the leader of `v`, holding a QC for
\* v - 1 or view-change evidence for v and the payload commitment for v,
\* registers a producer sub-task under v and consumes the payload and the
\* evidence.  One producer per view: a second call is a no-op.
CanPublish(v, hqc, pcm, pc) ==
    /\ LeaderOf[v] = Self
    /\ \/ hqc + 1 = v
       \/ pc # None /\ pc.kind = "Timeout"  /\ pc.view + 1 = v
       \/ pc # None /\ pc.kind = "ViewSync" /\ pc.view = v
    /\ pcm = v
    /\ v \notin spawned_tasks \cup proposals_sent

PublishProposal(v, hqc, pcm, pc, tasks) ==
    IF CanPublish(v, hqc, pcm, pc)
    THEN [tasks |-> tasks \cup {v}, pcm |-> NoLeaf, pc |-> None]
    ELSE [tasks |-> tasks, pcm |-> pcm, pc |-> pc]

\* collect_garbage(old_anchor, new_anchor) (section 4.1): drops every leaf,
\* DA certificate and VID share of a view below the new anchor.
GCLeavesDropAnchor(leaves, anchor) == { v \in leaves : v > anchor }   \* mutant
GCLeaves(leaves, anchor) == { v \in leaves : v >= anchor }
GCByView(f, anchor, empty) == [v \in Views |-> IF v < anchor THEN empty ELSE f[v]]

\* The vote accumulator (section 4.2) as the dispatcher drives it: a new
\* one for a vote of a newer view, otherwise handle_event, which ignores
\* votes of older views and repeated signers.  Returns the collector slot
\* after the vote and the certificate view formed (NoLeaf if none).
AccumulateVote(slot, v, voter) ==
    LET fresh == slot = None \/ v > slot.view                 \* line 587 / 633
        votes == IF fresh THEN {voter}
                 ELSE IF v = slot.view THEN slot.votes \cup {voter} ELSE slot.votes
        done  == (fresh \/ v = slot.view) /\ Cardinality(votes) >= Threshold
        acc   == [view |-> IF fresh THEN v ELSE slot.view, votes |-> votes]
    IN  [slot |-> IF done THEN None ELSE acc, formed |-> IF done THEN acc.view ELSE NoLeaf]

\* cancel_tasks(view) (lines 150-160): the sub-tasks registered under a view
\* below `view` are cancelled; split_off keeps those at `view` and above.
CancelTasks(tasks, view) == { t \in tasks : t >= view }

-----------------------------------------------------------------------------
(* vote_if_able (lines 172-292): whether the replica votes on the current  *)
(* proposal now.  The proposal's leaf extends its parent by construction   *)
(* of the world, so the parent-commitment comparison (line 225) always     *)
(* holds; signing never fails.  VoteChecks are the checks before the vote  *)
(* is sent; `appended` is the outcome of storage.append_vid.               *)
VoteChecks(cp, cv, dacerts, shares, leaves, decided_cert) ==
    /\ cp # NoLeaf
    /\ shares[cp] # {}                                             \* line 184
    /\ ~(decided_cert /\ InInterim(cv) /\ Payload[cp] # "null")   \* 192-199
    /\ dacerts[cp] # None                                          \* line 204
    /\ Parent[cp] \in leaves                                       \* line 214
    /\ dacerts[cp].valid                                           \* line 230
    /\ dacerts[cp].payload = Payload[cp]                           \* line 232
    /\ Self \in shares[cp]                                         \* line 264

\* The vote is sent only if append_vid stored the share (lines 263-277).
VoteIfAble(cp, cv, dacerts, shares, leaves, decided_cert, appended) ==
    VoteChecks(cp, cv, dacerts, shares, leaves, decided_cert) /\ appended

AppendVidOutcomes == IF AppendVidMayFail THEN BOOLEAN ELSE {TRUE}

\* validate_disperse (lines 296-321): signed by the view's leader, by this
\* replica, or by a member of the DA committee.
ValidateDisperse(e) == e.signer \in {LeaderOf[e.view], Self} \cup DACommittee

-----------------------------------------------------------------------------
(* The dispatcher: `handle` (lines 366-1004) takes the event at the head   *)
(* of the channel and runs its handler to completion.                      *)

Receive(t) == running /\ event_stream # <<>> /\ Head(event_stream).type = t
ev == Head(event_stream)

\* Pop the handled event and append what the handler broadcasts to itself.
Consume(emitted) == event_stream' = Tail(event_stream) \o emitted

\* The handlers that end in `if self.vote_if_able(..) { current_proposal = None }`.
TryVote(cp, cv, dacerts, shares, leaves, decided_cert) ==
    \E appended \in AppendVidOutcomes :
      LET voted == VoteIfAble(cp, cv, dacerts, shares, leaves, decided_cert, appended)
      IN  /\ current_proposal' = IF voted THEN NoLeaf ELSE cp
          /\ quorum_votes_sent' = IF voted THEN Bump(quorum_votes_sent, cp)
                                  ELSE quorum_votes_sent

\* QuorumProposalRecv (lines 373-386) with handle_quorum_proposal_recv
\* (section 4.6, section 7): a proposal more than one view old is dropped.
OnProposalRecvStale ==
    /\ Receive("QuorumProposalRecv")
    /\ ev.view + 1 < cur_view
    /\ Consume(<<>>)
    /\ UNCHANGED <<task_vars, store_vars, running, out_vars, obs_vars>>

\* ... a proposal whose parent is stored is validated: its leaf enters the
\* store, its justify QC raises high_qc, the replica enters its view and
\* QuorumProposalValidated is emitted; the collaborator returns None.
OnProposalRecvValidated ==
    /\ Receive("QuorumProposalRecv")
    /\ ev.view + 1 >= cur_view
    /\ Parent[ev.view] \in saved_leaves
    /\ LET uv == UpdateView(ev.view)
       IN  /\ saved_leaves' = saved_leaves \cup {ev.view}
           /\ high_qc' = Max({high_qc, Parent[ev.view]})
           /\ cur_view' = uv.view
           /\ timeout_task' = uv.timer
           /\ Consume(uv.emit \o <<Ev("QuorumProposalValidated", ev.view)>>)
    /\ UNCHANGED <<current_proposal, payload_commitment_and_metadata,
                   vote_collector, timeout_vote_collector, spawned_tasks,
                   formed_upgrade_certificate, proposal_cert,
                   decided_upgrade_cert, version, locked_view,
                   last_decided_view, saved_da_certs, vid_shares, running,
                   out_vars, obs_vars>>

\* ... a proposal whose parent is missing is returned as Some(proposal)
\* (the liveness path): it becomes the current proposal and the replica
\* tries to vote on it (line 378-381).
OnProposalRecvLiveness ==
    /\ Receive("QuorumProposalRecv")
    /\ ev.view + 1 >= cur_view
    /\ Parent[ev.view] \notin saved_leaves
    /\ LET uv == UpdateView(ev.view)
       IN  /\ cur_view' = uv.view
           /\ timeout_task' = uv.timer
           /\ TryVote(ev.view, uv.view, saved_da_certs, vid_shares,
                      saved_leaves, decided_upgrade_cert)
           /\ Consume(uv.emit)
    /\ UNCHANGED <<payload_commitment_and_metadata, vote_collector,
                   timeout_vote_collector, spawned_tasks,
                   formed_upgrade_certificate, proposal_cert,
                   decided_upgrade_cert, version, store_vars, running,
                   timeout_votes_sent, decided_chain, proposals_sent,
                   version_upgrades, obs_vars>>

\* QuorumProposalValidated (lines 387-568): the chain walk of ChainWalk;
\* then, under the write lock, the new lock, and on a decide the leaf chain
\* to the application, garbage collection and the new anchor; then the
\* stale sub-tasks are cancelled, the next leader proposes if its high QC
\* is for this proposal, and the replica tries to vote.
OnProposalValidated ==
    /\ Receive("QuorumProposalValidated")
    /\ LET v      == ev.view
           w      == ChainWalk(v, Parent[v], last_decided_view, locked_view,
                               saved_leaves, Parent)
           anchor == w.anchor
           \* lines 438-445: an embedded upgrade certificate decided in time
           dcert  == \/ decided_upgrade_cert
                     \/ /\ w.decide
                        /\ \E i \in DOMAIN w.chain : w.chain[i] = UpgradeLeaf
                        /\ UpgradeCert.decide_by >= v
           leaves == IF w.decide THEN GCLeaves(saved_leaves, anchor) ELSE saved_leaves
           das    == IF w.decide THEN GCByView(saved_da_certs, anchor, None)
                     ELSE saved_da_certs
           shares == IF w.decide THEN GCByView(vid_shares, anchor, {}) ELSE vid_shares
           tasks  == IF w.decide THEN CancelTasks(spawned_tasks, anchor)
                     ELSE spawned_tasks                           \* line 549
           should_propose == LeaderOf[v + 1] = Self /\ high_qc = v  \* 541-543
           pub    == IF should_propose
                     THEN PublishProposal(high_qc + 1, high_qc,
                              payload_commitment_and_metadata, proposal_cert, tasks)
                     ELSE [tasks |-> tasks, pcm |-> payload_commitment_and_metadata,
                           pc |-> proposal_cert]
       IN  /\ locked_view' = IF w.commit THEN w.lock ELSE locked_view
           /\ last_decided_view' = anchor
           /\ decided_chain' = decided_chain \o w.chain
           /\ decided_upgrade_cert' = dcert
           /\ saved_leaves' = leaves
           /\ saved_da_certs' = das
           /\ vid_shares' = shares
           /\ spawned_tasks' = pub.tasks
           /\ payload_commitment_and_metadata' = pub.pcm
           /\ proposal_cert' = pub.pc
           /\ TryVote(v, cur_view, das, shares, leaves, dcert)
    /\ Consume(<<>>)
    /\ UNCHANGED <<cur_view, vote_collector, timeout_vote_collector,
                   timeout_task, formed_upgrade_certificate, version, high_qc,
                   running, timeout_votes_sent, proposals_sent,
                   version_upgrades, obs_vars>>

\* QuorumVoteRecv (lines 569-615) and TimeoutVoteRecv (lines 616-661): only
\* the leader of the next view collects; a certificate formed by the
\* accumulator is broadcast as QCFormed (Left for a QC, Right for a TC).
OnVoteRecv(t, side, slot) ==
    /\ Receive(t)
    /\ IF LeaderOf[ev.view + 1] # Self
       THEN /\ slot' = slot
            /\ Consume(<<>>)
       ELSE LET r == AccumulateVote(slot, ev.view, ev.voter)
            IN  /\ slot' = r.slot
                /\ Consume(IF r.formed = NoLeaf THEN <<>>
                           ELSE <<[type |-> "QCFormed", side |-> side, view |-> r.formed]>>)

OnQuorumVoteRecv ==
    /\ OnVoteRecv("QuorumVoteRecv", "Left", vote_collector)
    /\ UNCHANGED <<cur_view, current_proposal, payload_commitment_and_metadata,
                   timeout_vote_collector, timeout_task, spawned_tasks,
                   formed_upgrade_certificate, proposal_cert,
                   decided_upgrade_cert, version, store_vars, running, out_vars, da_valid_recv>>

OnTimeoutVoteRecv ==
    /\ OnVoteRecv("TimeoutVoteRecv", "Right", timeout_vote_collector)
    /\ UNCHANGED <<cur_view, current_proposal, payload_commitment_and_metadata,
                   vote_collector, timeout_task, spawned_tasks,
                   formed_upgrade_certificate, proposal_cert,
                   decided_upgrade_cert, version, store_vars, running, out_vars, da_valid_recv>>

\* QCFormed(Right(tc)) (lines 664-684): the TC becomes the proposal
\* evidence and the replica tries to propose for the next view.
OnTCFormed ==
    /\ Receive("QCFormed") /\ ev.side = "Right"
    /\ LET pc  == Evidence("Timeout", ev.view)
           pub == PublishProposal(ev.view + 1, high_qc,
                      payload_commitment_and_metadata, pc, spawned_tasks)
       IN  /\ proposal_cert' = pub.pc
           /\ payload_commitment_and_metadata' = pub.pcm
           /\ spawned_tasks' = pub.tasks
    /\ Consume(<<>>)
    /\ UNCHANGED <<cur_view, current_proposal, vote_collector,
                   timeout_vote_collector, timeout_task,
                   formed_upgrade_certificate, decided_upgrade_cert, version,
                   store_vars, running, out_vars, obs_vars>>

\* QCFormed(Left(qc)) (lines 685-713): the QC this leader formed becomes
\* high_qc, unconditionally, and the replica tries to propose for the next
\* view.  The storage write's failure is only logged.
OnQCFormed ==
    /\ Receive("QCFormed") /\ ev.side = "Left"
    /\ LET pub == PublishProposal(ev.view + 1, ev.view,
                      payload_commitment_and_metadata, proposal_cert, spawned_tasks)
       IN  /\ high_qc' = ev.view
           /\ proposal_cert' = pub.pc
           /\ payload_commitment_and_metadata' = pub.pcm
           /\ spawned_tasks' = pub.tasks
    /\ Consume(<<>>)
    /\ UNCHANGED <<cur_view, current_proposal, vote_collector,
                   timeout_vote_collector, timeout_task,
                   formed_upgrade_certificate, decided_upgrade_cert, version,
                   locked_view, last_decided_view, saved_leaves,
                   saved_da_certs, vid_shares, running, out_vars, obs_vars>>

\* UpgradeCertificateFormed (lines 716-728): kept only while a decide on it
\* can still come in time.
OnUpgradeCertificateFormed ==
    /\ Receive("UpgradeCertificateFormed")
    /\ formed_upgrade_certificate' =
           (formed_upgrade_certificate \/ UpgradeCert.decide_by >= cur_view + 3)
    /\ Consume(<<>>)
    /\ UNCHANGED <<cur_view, current_proposal, payload_commitment_and_metadata,
                   vote_collector, timeout_vote_collector, timeout_task,
                   spawned_tasks, proposal_cert, decided_upgrade_cert, version,
                   store_vars, running, out_vars, obs_vars>>

\* Mutant: the vote attempt after storing the certificate dropped.
OnDACertificateRecvNoVote ==
    /\ Receive("DACertificateRecv")
    /\ LET das == [saved_da_certs EXCEPT ![ev.view] =
                       [valid |-> ev.valid, payload |-> ev.payload]]
       IN  /\ saved_da_certs' = das
           /\ UNCHANGED <<current_proposal, quorum_votes_sent>>
           /\ da_valid_recv' =
                  IF ev.valid /\ ev.payload = Payload[ev.view]
                  THEN da_valid_recv \cup {ev.view} ELSE da_valid_recv
    /\ Consume(<<>>)
    /\ UNCHANGED <<cur_view, payload_commitment_and_metadata, vote_collector,
                   timeout_vote_collector, timeout_task, spawned_tasks,
                   formed_upgrade_certificate, proposal_cert,
                   decided_upgrade_cert, version, high_qc, locked_view,
                   last_decided_view, saved_leaves, vid_shares, running,
                   timeout_votes_sent, decided_chain, proposals_sent,
                   version_upgrades>>

\* DACertificateRecv (lines 730-751): the certificate is stored under its
\* view, before and whether or not it is valid, and the replica tries to vote.
OnDACertificateRecv ==
    /\ Receive("DACertificateRecv")
    /\ LET das == [saved_da_certs EXCEPT ![ev.view] =
                       [valid |-> ev.valid, payload |-> ev.payload]]
       IN  /\ saved_da_certs' = das
           /\ TryVote(current_proposal, cur_view, das, vid_shares,
                      saved_leaves, decided_upgrade_cert)
           /\ da_valid_recv' =
                  IF ev.valid /\ ev.payload = Payload[ev.view]
                  THEN da_valid_recv \cup {ev.view} ELSE da_valid_recv
    /\ Consume(<<>>)
    /\ UNCHANGED <<cur_view, payload_commitment_and_metadata, vote_collector,
                   timeout_vote_collector, timeout_task, spawned_tasks,
                   formed_upgrade_certificate, proposal_cert,
                   decided_upgrade_cert, version, high_qc, locked_view,
                   last_decided_view, saved_leaves, vid_shares, running,
                   timeout_votes_sent, decided_chain, proposals_sent,
                   version_upgrades>>

\* VIDShareRecv (lines 753-796): a share more than one view old or not
\* signed by the leader, this replica or a DA member is thrown away; a valid
\* one is stored; one addressed to this replica triggers a vote attempt.
OnVIDShareRecvDropped ==
    /\ Receive("VIDShareRecv")
    /\ ev.view + 1 < cur_view \/ ~ValidateDisperse(ev)
    /\ Consume(<<>>)
    /\ UNCHANGED <<task_vars, store_vars, running, out_vars, obs_vars>>

OnVIDShareRecv ==
    /\ Receive("VIDShareRecv")
    /\ ev.view + 1 >= cur_view /\ ValidateDisperse(ev)
    /\ LET shares == [vid_shares EXCEPT ![ev.view] = @ \cup {ev.recipient}]
       IN  /\ vid_shares' = shares
           /\ IF ev.recipient = Self
              THEN TryVote(current_proposal, cur_view, saved_da_certs, shares,
                           saved_leaves, decided_upgrade_cert)
              ELSE UNCHANGED <<current_proposal, quorum_votes_sent>>
    /\ Consume(<<>>)
    /\ UNCHANGED <<cur_view, payload_commitment_and_metadata, vote_collector,
                   timeout_vote_collector, timeout_task, spawned_tasks,
                   formed_upgrade_certificate, proposal_cert,
                   decided_upgrade_cert, version, high_qc, locked_view,
                   last_decided_view, saved_leaves, saved_da_certs, running,
                   timeout_votes_sent, decided_chain, proposals_sent,
                   version_upgrades, obs_vars>>

\* ViewChange (lines 797-865): with a decided upgrade certificate whose
\* first new-version view is this one, the version is swapped and
\* VersionUpgrade broadcast -- before and whether or not update_view
\* accepts the view; payload metadata older than the old view is dropped.
OnViewChange ==
    /\ Receive("ViewChange")
    /\ LET nv      == ev.view
           upgrade == decided_upgrade_cert /\ nv = UpgradeCert.new_version_first_view
           uv      == UpdateView(nv)
       IN  /\ version' = IF upgrade THEN "new" ELSE version
           /\ version_upgrades' = IF upgrade THEN version_upgrades + 1
                                  ELSE version_upgrades
           /\ payload_commitment_and_metadata' =
                  IF payload_commitment_and_metadata # NoLeaf
                     /\ payload_commitment_and_metadata < cur_view
                  THEN NoLeaf ELSE payload_commitment_and_metadata
           /\ cur_view' = uv.view
           /\ timeout_task' = uv.timer
           /\ Consume(uv.emit)
    /\ UNCHANGED <<current_proposal, vote_collector, timeout_vote_collector,
                   spawned_tasks, formed_upgrade_certificate, proposal_cert,
                   decided_upgrade_cert, store_vars, running,
                   quorum_votes_sent, timeout_votes_sent, decided_chain,
                   proposals_sent, obs_vars>>

\* Timeout (lines 866-924): a timeout for a view the replica has reached
\* is ignored; otherwise it signs and broadcasts a timeout vote for it.
\* Mutant: the staleness test off by one.
OnTimeoutOffByOne ==
    /\ Receive("Timeout")
    /\ IF cur_view + 1 >= ev.view
       THEN UNCHANGED timeout_votes_sent
       ELSE timeout_votes_sent' = Bump(timeout_votes_sent, ev.view)
    /\ Consume(<<>>)
    /\ UNCHANGED <<task_vars, store_vars, running, quorum_votes_sent,
                   decided_chain, proposals_sent, version_upgrades, obs_vars>>

OnTimeout ==
    /\ Receive("Timeout")
    /\ IF cur_view >= ev.view
       THEN UNCHANGED timeout_votes_sent
       ELSE timeout_votes_sent' = Bump(timeout_votes_sent, ev.view)
    /\ Consume(<<>>)
    /\ UNCHANGED <<task_vars, store_vars, running, quorum_votes_sent,
                   decided_chain, proposals_sent, version_upgrades, obs_vars>>

\* Mutant: the proposal on a QC for the previous view (lines 944-951) dropped.
OnSendPayloadNoQCBranch ==
    /\ Receive("SendPayloadCommitmentAndMetadata")
    /\ LET v    == ev.view
           pub1 == [tasks |-> spawned_tasks, pcm |-> v, pc |-> proposal_cert]
           pc   == pub1.pc
           again == /\ pc # None
                    /\ \/ pc.kind = "Timeout"  /\ LeaderOf[pc.view + 1] = Self
                       \/ pc.kind = "ViewSync" /\ LeaderOf[pc.view] = Self
           pub2 == IF again THEN PublishProposal(v, high_qc, pub1.pcm, pc, pub1.tasks)
                   ELSE pub1
       IN  /\ payload_commitment_and_metadata' = pub2.pcm
           /\ proposal_cert' = pub2.pc
           /\ spawned_tasks' = pub2.tasks
    /\ Consume(<<>>)
    /\ UNCHANGED <<cur_view, current_proposal, vote_collector,
                   timeout_vote_collector, timeout_task,
                   formed_upgrade_certificate, decided_upgrade_cert, version,
                   store_vars, running, out_vars, obs_vars>>

\* SendPayloadCommitmentAndMetadata (lines 925-971): the payload for `view`
\* is kept; the leader proposes if its high QC is for the previous view,
\* and again if it holds a TC or view-sync certificate that makes it leader.
OnSendPayloadCommitmentAndMetadata ==
    /\ Receive("SendPayloadCommitmentAndMetadata")
    /\ LET v    == ev.view
           pub1 == IF LeaderOf[v] = Self /\ high_qc + 1 = v
                   THEN PublishProposal(v, high_qc, v, proposal_cert, spawned_tasks)
                   ELSE [tasks |-> spawned_tasks, pcm |-> v, pc |-> proposal_cert]
           pc   == pub1.pc
           again == /\ pc # None
                    /\ \/ pc.kind = "Timeout"  /\ LeaderOf[pc.view + 1] = Self
                       \/ pc.kind = "ViewSync" /\ LeaderOf[pc.view] = Self
           pub2 == IF again THEN PublishProposal(v, high_qc, pub1.pcm, pc, pub1.tasks)
                   ELSE pub1
       IN  /\ payload_commitment_and_metadata' = pub2.pcm
           /\ proposal_cert' = pub2.pc
           /\ spawned_tasks' = pub2.tasks
    /\ Consume(<<>>)
    /\ UNCHANGED <<cur_view, current_proposal, vote_collector,
                   timeout_vote_collector, timeout_task,
                   formed_upgrade_certificate, decided_upgrade_cert, version,
                   store_vars, running, out_vars, obs_vars>>

\* ViewSyncFinalizeCertificate2Recv (lines 972-1001): a valid certificate
\* becomes the proposal evidence; its view's leader tries to propose.
OnViewSyncFinalizeCertificate ==
    /\ Receive("ViewSyncFinalizeCertificate2Recv")
    /\ IF ~ev.valid
       THEN UNCHANGED <<proposal_cert, payload_commitment_and_metadata, spawned_tasks>>
       ELSE LET pc  == Evidence("ViewSync", ev.view)
                pub == IF LeaderOf[ev.view] = Self
                       THEN PublishProposal(ev.view, high_qc,
                                payload_commitment_and_metadata, pc, spawned_tasks)
                       ELSE [tasks |-> spawned_tasks,
                             pcm |-> payload_commitment_and_metadata, pc |-> pc]
            IN  /\ proposal_cert' = pub.pc
                /\ payload_commitment_and_metadata' = pub.pcm
                /\ spawned_tasks' = pub.tasks
    /\ Consume(<<>>)
    /\ UNCHANGED <<cur_view, current_proposal, vote_collector,
                   timeout_vote_collector, timeout_task,
                   formed_upgrade_certificate, decided_upgrade_cert, version,
                   store_vars, running, out_vars, obs_vars>>

\* Shutdown (should_shutdown, lines 1037-1039): the task stops.
OnShutdown ==
    /\ Receive("Shutdown")
    /\ running' = FALSE
    /\ Consume(<<>>)
    /\ UNCHANGED <<task_vars, store_vars, out_vars, obs_vars>>

-----------------------------------------------------------------------------
(* Sub-tasks running beside the dispatcher on the executor.                *)

\* The timeout task armed by update_view fires its Timeout (section 4.5).
TimerFires ==
    /\ running /\ timeout_task # NoLeaf
    /\ event_stream' = Append(event_stream, Ev("Timeout", timeout_task))
    /\ timeout_task' = NoLeaf
    /\ UNCHANGED <<cur_view, current_proposal, payload_commitment_and_metadata,
                   vote_collector, timeout_vote_collector, spawned_tasks,
                   formed_upgrade_certificate, proposal_cert,
                   decided_upgrade_cert, version, store_vars, running, out_vars, obs_vars>>

\* A producer sub-task, after round_start_delay, broadcasts its proposal
\* (section 4.4, steps 1 and 3) unless it was cancelled first.
ProducerFires(v) ==
    /\ running /\ v \in spawned_tasks
    /\ spawned_tasks' = spawned_tasks \ {v}
    /\ proposals_sent' = proposals_sent \cup {v}
    /\ UNCHANGED <<cur_view, current_proposal, payload_commitment_and_metadata,
                   vote_collector, timeout_vote_collector, timeout_task,
                   formed_upgrade_certificate, proposal_cert,
                   decided_upgrade_cert, version, store_vars, event_stream,
                   running, quorum_votes_sent, timeout_votes_sent,
                   decided_chain, version_upgrades, obs_vars>>

\* The network and the other tasks put an event on the channel.
Deliver(e) ==
    /\ running /\ Len(event_stream) < MaxQueue
    /\ event_stream' = Append(event_stream, e)
    /\ UNCHANGED <<task_vars, store_vars, running, out_vars, obs_vars>>

-----------------------------------------------------------------------------
TimerViews == 0..MaxView + 1

\* A replica after genesis: view 0, the genesis leaf stored and decided.
Init ==
    /\ cur_view = 0
    /\ current_proposal = NoLeaf
    /\ payload_commitment_and_metadata = NoLeaf
    /\ vote_collector = None
    /\ timeout_vote_collector = None
    /\ timeout_task = NoLeaf
    /\ spawned_tasks = {}
    /\ formed_upgrade_certificate = FALSE
    /\ proposal_cert = None
    /\ decided_upgrade_cert = FALSE
    /\ version = "old"
    /\ high_qc = 0
    /\ locked_view = 0
    /\ last_decided_view = 0
    /\ saved_leaves = {0}
    /\ saved_da_certs = [v \in Views |-> None]
    /\ vid_shares = [v \in Views |-> {}]
    /\ event_stream = <<>>
    /\ running = TRUE
    /\ quorum_votes_sent = [v \in Views |-> 0]
    /\ timeout_votes_sent = [v \in TimerViews |-> 0]
    /\ decided_chain = <<>>
    /\ proposals_sent = {}
    /\ version_upgrades = 0
    /\ da_valid_recv = {}

Handle ==
    \/ OnProposalRecvStale \/ OnProposalRecvValidated \/ OnProposalRecvLiveness
    \/ OnProposalValidated
    \/ OnQuorumVoteRecv \/ OnTimeoutVoteRecv
    \/ OnTCFormed \/ OnQCFormed
    \/ OnUpgradeCertificateFormed
    \/ OnDACertificateRecv
    \/ OnVIDShareRecvDropped \/ OnVIDShareRecv
    \/ OnViewChange
    \/ OnTimeout
    \/ OnSendPayloadCommitmentAndMetadata
    \/ OnViewSyncFinalizeCertificate
    \/ OnShutdown

Next ==
    \/ Handle
    \/ TimerFires
    \/ \E v \in TimerViews : ProducerFires(v)
    \/ \E e \in Inputs : Deliver(e)

\* The dispatcher handles every event it is given and the timer and producer
\* sub-tasks run once spawned; the network is under no obligation.
Fairness ==
    /\ WF_vars(Handle)
    /\ WF_vars(TimerFires)
    /\ \A v \in TimerViews : WF_vars(ProducerFires(v))

Spec == Init /\ [][Next]_vars /\ Fairness

-----------------------------------------------------------------------------
(* Properties.                                                             *)

OptView(S) == S \cup {NoLeaf}

TypeOK ==
    /\ cur_view \in Views
    /\ current_proposal \in OptView(LeafViews)
    /\ payload_commitment_and_metadata \in OptView(TimerViews)
    /\ \A slot \in {vote_collector, timeout_vote_collector} :
           slot = None \/ (slot.view \in Views /\ slot.votes \subseteq Nodes)
    /\ timeout_task \in OptView(TimerViews)
    /\ spawned_tasks \subseteq TimerViews
    /\ proposal_cert \in {None} \cup [kind : {"Timeout", "ViewSync"}, view : TimerViews]
    /\ {formed_upgrade_certificate, decided_upgrade_cert, running} \subseteq BOOLEAN
    /\ version \in {"old", "new"}
    /\ {high_qc, locked_view, last_decided_view} \subseteq Views
    /\ saved_leaves \subseteq LeafViews
    /\ saved_da_certs \in [Views -> {None} \cup [valid : BOOLEAN, payload : {"null", "block"}]]
    /\ vid_shares \in [Views -> SUBSET Nodes]
    /\ quorum_votes_sent \in [Views -> 0..2]
    /\ timeout_votes_sent \in [TimerViews -> 0..2]
    /\ decided_chain \in Seq(LeafViews)
    /\ proposals_sent \subseteq TimerViews
    /\ version_upgrades \in Nat
    /\ da_valid_recv \subseteq Views

\* GC-soundness (spec section 8): after the decide's collect_garbage
\* (line 514) the store keeps the anchor leaf, which the next chain walk
\* stops at, and nothing older.
AnchorRetained ==
    /\ last_decided_view \in saved_leaves
    /\ \A l \in saved_leaves : l >= last_decided_view

\* The commit rule only moves forward (spec section 5, and section 3,
\* invariant 1): no step lowers the locked view (line 493) or the last
\* decided view (line 517), and no step leaves the decided view above the
\* lock.  A stale or duplicated proposal re-walked within the one-view
\* window of handle_quorum_proposal_recv must not re-lock an older leaf.
CommitRuleMonotone ==
    [][/\ locked_view' >= locked_view
       /\ last_decided_view' >= last_decided_view
       /\ last_decided_view' <= locked_view']_vars

\* Single-vote (spec section 3, invariant 5, and section 8): vote_if_able
\* broadcasts at most one quorum vote per view, however often the same
\* proposal, DA certificate or VID share reaches the task.
SingleVotePerView == \A v \in Views : quorum_votes_sent[v] <= 1

\* Monotonicity of the high QC (spec section 5): the QCFormed(Left) handler
\* (line 692) never replaces high_qc by an older QC.
HighQCMonotone == [][high_qc' >= high_qc]_vars

\* Upgrade interim (spec section 4.4a, condition 3): once an upgrade
\* certificate is decided, the replica votes only for null blocks in the
\* views of the interim, whatever view it has reached when vote_if_able
\* runs (line 193).
InterimVotesNullBlocks ==
    [][\A v \in LeafViews :
          (decided_upgrade_cert /\ InInterim(v)
           /\ quorum_votes_sent'[v] > quorum_votes_sent[v]) => Payload[v] = "null"]_vars

\* Timeout liveness (spec section 4.5, and scenario 2): a running replica
\* that stays in view v -- no proposal for v + 1 arrives -- eventually
\* sends a timeout vote for the view of the timer update_view armed on
\* entering v (v + TimerOffset) through the Timeout handler (lines 866-924).
\* With the spec's timer (offset 0) that is TimeoutVoteSend{view = v}, as in
\* scenario 2.
TimeoutVoteEventually ==
    \A v \in 1..MaxView :
        (running /\ cur_view = v)
            ~> (~running \/ cur_view # v \/ timeout_votes_sent[v + TimerOffset] > 0)

\* Leader liveness (spec section 4.4): once the leader of a view holds a
\* QC for the previous view or view-change evidence, and the payload for
\* the view, it eventually broadcasts its proposal, whatever order the
\* QC, the certificate and the payload arrived in (lines 664-713, 925-1001).
LeaderEventuallyProposes ==
    \A v \in TimerViews :
        CanPublish(v, high_qc, payload_commitment_and_metadata, proposal_cert)
            ~> (~running \/ v \in proposals_sent)

\* Vote liveness (spec section 4.4a): once the replica holds, for its
\* current proposal, the parent leaf, its own VID share and a valid DA
\* certificate for the proposal's payload, it votes -- unless it moves to
\* another proposal first.  DACertificateRecv stores every certificate it
\* receives under its view (line 742), valid or not.
VoteWhenReady ==
    \A v \in LeafViews \ {0} :
        (/\ running /\ current_proposal = v /\ v \in da_valid_recv
         /\ Self \in vid_shares[v] /\ Parent[v] \in saved_leaves)
            ~> (~running \/ current_proposal # v \/ quorum_votes_sent[v] > 0)

\* Version liveness (spec section 4.5, step 6): a replica with a decided
\* upgrade certificate that reaches the new version's first view or a
\* later one -- by a proposal, a TC or view sync -- runs the new version.
UpgradeTakesEffect ==
    (decided_upgrade_cert /\ cur_view >= UpgradeCert.new_version_first_view)
        ~> (~running \/ version = "new")

\* Safety-Decide as refinement: the anchor and the leaves the Decide events
\* hand over (lines 495-517) behave as DecidedLog, which hands over every
\* leaf between two anchors exactly once and in order.
DL == INSTANCE DecidedLog WITH anchor <- last_decided_view, log <- decided_chain

DecidedLogRefinement == DL!Spec

=============================================================================
