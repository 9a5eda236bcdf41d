--------------------------- MODULE MCSegmentLife ---------------------------
(* SegmentLife on the small instance of SegmentLife.cfg and SegmentStop.cfg.  *)
EXTENDS SegmentLife

\* Two shadows that differ in every word: any mixture of them is neither.
MCShadows == {[k \in Words |-> v] : v \in Vals}
=============================================================================
