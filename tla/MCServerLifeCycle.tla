------------------------- MODULE MCServerLifeCycle -------------------------
(* A small instance of ServerLifeCycle for TLC: a directory with an entry  *)
(* that exports nothing, one library of both kinds and one of either.      *)
EXTENDS ServerLifeCycle

CONSTANTS none, lib1, lib2, lib3, lib4

Directory == <<lib1, lib2, lib3, lib4>>
WithIO == {lib2, lib4}
WithSas == {lib3, lib4}
AllFaults == MayFail
=============================================================================
