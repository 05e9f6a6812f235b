--------------------------- MODULE MCSessionJournals ---------------------------
(***************************************************************************)
(* An event interrupted before it was presented, a hit whose target the    *)
(* protocol refuses, and a block.                                          *)
(***************************************************************************)
EXTENDS SessionJournals

Hit == [generated |-> 0, presented |-> 1, start |-> 1, resolved |-> 2,
        interrupted |-> Absent, tailEnd |-> 3, natural |-> "hit_click",
        technical |-> "none", sound |-> TRUE]
Unseen == [Hit EXCEPT !.presented = Absent, !.start = Absent, !.resolved = Absent,
                      !.interrupted = 1, !.tailEnd = Absent, !.natural = "none",
                      !.technical = "focus_lost"]
Refused == [Hit EXCEPT !.sound = FALSE]

Events == {Unseen, Refused}
Blocks == {[countdown |-> 0, started |-> 1, completed |-> 5, consumed |-> 4,
            configured |-> 4, technical |-> 1, events |-> 2]}
=============================================================================
