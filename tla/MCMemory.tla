------------------------------ MODULE MCMemory ------------------------------
(* Two papers, so that an answer may be out of order, and one page; there    *)
(* are no notebooks of this competition.                                     *)
EXTENDS Memory, TLC

CONSTANTS paper1, paper2, page

MCSources == [literature_researcher |-> {paper1, paper2},
              web_researcher |-> {page}, competition_analyst |-> {}]

Papers == Permutations({paper1, paper2})
=============================================================================
