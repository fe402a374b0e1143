----------------------------- MODULE ChainWalk -----------------------------
(***************************************************************************)
(* The commit rule of the consensus task: the ancestor walk that the       *)
(* QuorumProposalValidated handler runs over the store                     *)
(* (consensus/mod.rs, lines 391-489), and the store's visit_leaf_ancestors *)
(* that drives it (spec section 4.1).                                      *)
(*                                                                         *)
(* A leaf is identified by its view: honest leaders propose one leaf per   *)
(* view, and the commitment is collision resistant, so the store's map     *)
(* from view to leaf (validated_state_map) and from commitment to leaf     *)
(* (saved_leaves) name the same leaf.  A world is a function `parent` from *)
(* the views that have a leaf to the view of that leaf's parent (the view  *)
(* of its justify QC); genesis, view 0, has parent NoLeaf.                 *)
(***************************************************************************)
EXTENDS Integers, Sequences

NoLeaf == -1

(***************************************************************************)
(* The walk's accumulator: the locals the handler declares before the walk *)
(* (lines 391-402) and the outcome of visit_leaf_ancestors.                *)
(*   last    last_view_number_visited                                      *)
(*   len     current_chain_length                                          *)
(*   commit  new_commit_reached, lock new_locked_view                      *)
(*   decide  new_decide_reached, anchor new_anchor_view                    *)
(*   qc      view of new_decide_qc (NoLeaf while None)                     *)
(*   chain   views of leafs_decided, in walk order                         *)
(* A walk that stops on a missing leaf returns Err, which the handler only *)
(* logs (line 481): what the visitor did before it stands.                 *)
(***************************************************************************)
WalkStart(view, lastDecided, lockedView) ==
    [last |-> view, len |-> 1, commit |-> FALSE, lock |-> lockedView,
     decide |-> FALSE, anchor |-> lastDecided, qc |-> NoLeaf,
     chain |-> <<>>]

(***************************************************************************)
(* The visitor closure (lines 409-479) applied to the leaf of view v.      *)
(* Returns the new accumulator and whether the walk continues.  Before the *)
(* decide the leaf must extend the chain by exactly one view; the leaf     *)
(* that makes the chain three long is itself the first decided leaf.       *)
(***************************************************************************)
\* Mutant: the chain-extension check of line 411 dropped.
VisitLeafNoGap(st, v, parent) ==
    LET len == IF st.decide THEN st.len ELSE st.len + 1
        s1 == IF st.decide THEN st
              ELSE [st EXCEPT !.last = v, !.len = len,
                     !.commit = @ \/ len = 2,
                     !.lock   = IF len = 2 THEN v ELSE @,
                     !.qc     = IF len = 2 THEN parent[v] ELSE @,
                     !.decide = len = 3,
                     !.anchor = IF len = 3 THEN v ELSE @]
    IN  [st |-> IF s1.decide THEN [s1 EXCEPT !.chain = Append(@, v)] ELSE s1,
         continue |-> TRUE]

\* Mutant: the consecutive-view check also applied after the decide.
VisitLeafStrictAfterDecide(st, v, parent) ==
    IF st.last # v + 1
    THEN [st |-> st, continue |-> FALSE]
    ELSE LET len == IF st.decide THEN st.len ELSE st.len + 1
             s1 == IF st.decide THEN [st EXCEPT !.last = v]
                   ELSE [st EXCEPT !.last = v, !.len = len,
                          !.commit = @ \/ len = 2,
                          !.lock   = IF len = 2 THEN v ELSE @,
                          !.qc     = IF len = 2 THEN parent[v] ELSE @,
                          !.decide = len = 3,
                          !.anchor = IF len = 3 THEN v ELSE @]
         IN  [st |-> IF s1.decide THEN [s1 EXCEPT !.chain = Append(@, v)] ELSE s1,
              continue |-> TRUE]

VisitLeaf(st, v, parent) ==
    IF ~st.decide /\ st.last # v + 1
    THEN [st |-> st, continue |-> FALSE]
    ELSE LET len == IF st.decide THEN st.len ELSE st.len + 1
             s1 == IF st.decide THEN st
                   ELSE [st EXCEPT !.last = v, !.len = len,
                          !.commit = @ \/ len = 2,
                          !.lock   = IF len = 2 THEN v ELSE @,
                          !.qc     = IF len = 2 THEN parent[v] ELSE @,
                          !.decide = len = 3,
                          !.anchor = IF len = 3 THEN v ELSE @]
         IN  [st |-> IF s1.decide
                     THEN [s1 EXCEPT !.chain = Append(@, v)]
                     ELSE s1,
              continue |-> TRUE]

(***************************************************************************)
(* visit_leaf_ancestors(from, Exclusive(stop), true, visitor): follow      *)
(* parent links from `from`; a missing leaf ends the walk with an error,   *)
(* reaching exactly the view `stop` ends it without visiting that leaf.    *)
(***************************************************************************)
RECURSIVE WalkFrom(_, _, _, _, _)
WalkFrom(v, st, stop, saved, parent) ==
    IF v \notin saved THEN st
    ELSE IF v = stop THEN st
    ELSE LET r == VisitLeaf(st, v, parent)
         IN  IF r.continue THEN WalkFrom(parent[v], r.st, stop, saved, parent)
             ELSE r.st

(***************************************************************************)
(* The whole first phase of the handler: the walk runs only when the       *)
(* proposal's justify QC is for the view just before it (line 403).        *)
(***************************************************************************)
\* Mutant: the walk given no terminator.
ChainWalkNoTerminator(view, parentView, lastDecided, lockedView, saved, parent) ==
    LET st == WalkStart(view, lastDecided, lockedView)
    IN  IF parentView + 1 = view
        THEN WalkFrom(parentView, st, NoLeaf, saved, parent)
        ELSE st

ChainWalk(view, parentView, lastDecided, lockedView, saved, parent) ==
    LET st == WalkStart(view, lastDecided, lockedView)
    IN  IF parentView + 1 = view
        THEN WalkFrom(parentView, st, lastDecided, saved, parent)
        ELSE st

=============================================================================
