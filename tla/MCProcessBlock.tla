---------------------------- MODULE MCProcessBlock ----------------------------
(* One account's blocks: an open block o (balance 2); three blocks        *)
(* competing to follow it, the sends s1 (to 0) and y (to 1) and the       *)
(* receive r1 (to 3); a change c1 after s1; and a block w with too little *)
(* work.  y is a send relative to o but has a higher balance than s1, so  *)
(* a check against s1 takes it for a receive.                             *)
EXTENDS ProcessBlock

CONSTANTS o, s1, r1, y, c1, w

MCHashes == {o, s1, r1, y, c1, w}

MCBlock ==
    [h \in MCHashes |->
        CASE h = o  -> [prev |-> None, bal |-> 2, link |-> "src",  work |-> TRUE]
          [] h = s1 -> [prev |-> o,    bal |-> 0, link |-> "none", work |-> TRUE]
          [] h = r1 -> [prev |-> o,    bal |-> 3, link |-> "src",  work |-> TRUE]
          [] h = y  -> [prev |-> o,    bal |-> 1, link |-> "none", work |-> TRUE]
          [] h = c1 -> [prev |-> s1,   bal |-> 0, link |-> "none", work |-> TRUE]
          [] h = w  -> [prev |-> o,    bal |-> 1, link |-> "none", work |-> FALSE]]

MCRequests == {"q1", "q2"}

MCSubtypes == {"", "send", "receive", "change", "open", "bogus"}
=============================================================================
