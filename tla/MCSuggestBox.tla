---------------------------- MODULE MCSuggestBox ----------------------------
(***************************************************************************)
(* A small instance of SuggestBox for TLC: two texts, the second the first *)
(* with one more letter, so that the first is answered with one or both of *)
(* them and the second with itself or with nothing.                        *)
(***************************************************************************)
EXTENDS SuggestBox

CONSTANTS blank, i, ip

MCTexts == {i, ip}
MCResults == [t \in MCTexts |-> IF t = i THEN {<<i>>, <<i, ip>>} ELSE {<<>>, <<ip>>}]
MCTrends == {{ip}}

=============================================================================
