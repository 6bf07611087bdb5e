---------------------------- MODULE MCResultLoop ----------------------------
(* Small provider histories for ResultLoop.                                *)
EXTENDS ResultLoop

Entry(winner, goals, awarded) == [winner |-> winner, goals |-> goals, awarded |-> awarded]

(* provisional, corrected, flipped, without a winner                       *)
MCEntries == {Entry("HOME", <<2, 0>>, FALSE), Entry("HOME", <<1, 0>>, FALSE),
              Entry("AWAY", <<0, 1>>, FALSE), Entry(None, None, FALSE)}

(* also without goals, contradictory, awarded                              *)
MCDubious == {Entry("HOME", <<2, 0>>, FALSE), Entry("HOME", None, FALSE),
              Entry("HOME", <<0, 1>>, FALSE), Entry("HOME", <<0, 2>>, TRUE)}
=============================================================================
