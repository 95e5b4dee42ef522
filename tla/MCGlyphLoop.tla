---------------------------- MODULE MCGlyphLoop ----------------------------
(* Model values for GlyphLoop: under a soft contradiction a partial cast of *)
(* 46 and a coherent one of 82, whose mean over three, two of them coherent,*)
(* just makes the first generation.                                         *)
EXTENDS GlyphLoop, TLC

MCLevel == {64, 100}
Symmetry == Permutations(Caller) \cup Permutations(Spelling)
=============================================================================
