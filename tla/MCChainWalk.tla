---------------------------- MODULE MCChainWalk ----------------------------
(***************************************************************************)
(* Checks the ancestor walk of ChainWalk against a declarative statement   *)
(* of the rule the spec gives for it (section 4.3, phase 1): over every    *)
(* world of at most MaxView views, every store content a garbage-collected *)
(* store can hold, and every proposal of the world.                        *)
(***************************************************************************)
EXTENDS ChainWalk, FiniteSets, FiniteSetsExt, SequencesExt

CONSTANT MaxView        \* views 0..MaxView; bounds the worlds enumerated

Views == 0..MaxView

\* Every world: a set of views holding a leaf and each leaf's parent view.
Worlds ==
    UNION { [L \cup {0} -> {NoLeaf} \cup Views] : L \in SUBSET (1..MaxView) }

WellFormed(p) ==
    /\ p[0] = NoLeaf
    /\ \A v \in DOMAIN p \ {0} : p[v] \in DOMAIN p /\ p[v] < v

VARIABLES parent, saved, lastDecided, lockedView, view

vars == <<parent, saved, lastDecided, lockedView, view>>

\* The store is garbage collected below the last decided view, which it
\* always keeps (collect_garbage preserves the new anchor).
Init ==
    /\ parent \in { p \in Worlds : WellFormed(p) }
    /\ lastDecided \in DOMAIN parent
    /\ saved \in { S \in SUBSET DOMAIN parent :
                      lastDecided \in S /\ \A v \in S : v >= lastDecided }
    /\ lockedView \in { v \in DOMAIN parent : v >= lastDecided }
    /\ view \in DOMAIN parent \ {0}

Next == UNCHANGED vars

-----------------------------------------------------------------------------
(* The reference rule.  P is the proposal's parent, G the grandparent.     *)

AncestorsOrSelf(v) ==
    LET reach[n \in 0..Cardinality(DOMAIN parent)] ==
            IF n = 0 THEN {v}
            ELSE reach[n-1] \cup { parent[a] : a \in reach[n-1] \cap DOMAIN parent }
    IN  reach[Cardinality(DOMAIN parent)] \cap DOMAIN parent

RefP == parent[view]
RefG == IF RefP = NoLeaf THEN NoLeaf ELSE parent[RefP]

\* A two-chain: the proposal directly extends its parent, which is stored and
\* newer than the last decided leaf.
RefCommit ==
    /\ RefP + 1 = view
    /\ RefP \in saved /\ RefP # lastDecided

\* A three-chain: the parent directly extends the grandparent, likewise.
RefDecide ==
    /\ RefCommit
    /\ RefG + 1 = RefP
    /\ RefG \in saved /\ RefG # lastDecided

\* The decided leaves: the grandparent and its ancestors down to (excluding)
\* the last decided leaf or the first leaf missing from the store, newest first.
RefChain ==
    IF ~RefDecide THEN <<>>
    ELSE LET ok(a) == \A b \in AncestorsOrSelf(RefG) :
                          b >= a => (b \in saved /\ b # lastDecided)
         IN  SetToSortSeq({ a \in AncestorsOrSelf(RefG) : ok(a) }, >)

-----------------------------------------------------------------------------
\* The walk of the handler computes the lock, the decision, the decide QC
\* and the leaf chain handed to the application exactly as the three-chain
\* rule of section 4.3 defines them.
WalkMatchesRule ==
    LET w == ChainWalk(view, parent[view], lastDecided, lockedView, saved, parent)
    IN  /\ w.commit = RefCommit
        /\ w.lock   = IF RefCommit THEN RefP ELSE lockedView
        /\ w.qc     = IF RefCommit THEN RefG ELSE NoLeaf
        /\ w.decide = RefDecide
        /\ w.anchor = IF RefDecide THEN RefG ELSE lastDecided
        /\ w.chain  = RefChain

=============================================================================
