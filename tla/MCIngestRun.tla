----------------------------- MODULE MCIngestRun -----------------------------
(***************************************************************************)
(* Instances of IngestRun for TLC: two runs over one or two sources, by    *)
(* the owner or by a co-parent.                                            *)
(***************************************************************************)
EXTENDS IngestRun

CONSTANTS r1, r2, s1, s2, i1, i2, owns, shares

MCRuns == {r1, r2}
MCSources == {s1, s2}
MCItems == {i1, i2}
OneItem == {i1}
Parents == {owns, shares}

TwoSources == [r \in Runs |-> IF r = r1 THEN s1 ELSE s2]
ByBoth == [r \in Runs |-> IF r = r1 THEN shares ELSE owns]

\* r1 uploads every item, r2 the first.
MCPayload == [r \in Runs |-> IF r = r1 THEN Items ELSE {i1}]

\* The owner's student is found, if at all, as the only one; the co-parent
\* owns none.
OwnerAlone == {owns}

OwnerBound == {<<owns, s1>>, <<owns, s2>>}
=============================================================================
