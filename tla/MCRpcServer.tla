----------------------------- MODULE MCRpcServer -----------------------------
EXTENDS RpcServer

(* Balanced bodies of up to three bracket pairs, any of which may instead *)
(* be a pair of bracket characters inside a string literal ("q").          *)
MCBodies ==
    {b \in BoundedSeq({"o", "c", "q"}, 6) :
        /\ b # << >> /\ b[1] = "o"
        /\ Len(SelectSeq(b, LAMBDA x : x = "o")) = Len(SelectSeq(b, LAMBDA x : x = "c"))
        /\ \A k \in 1..Len(b) :
             Len(SelectSeq(SubSeq(b, 1, k), LAMBDA x : x = "o"))
                >= Len(SelectSeq(SubSeq(b, 1, k), LAMBDA x : x = "c"))
        /\ \A k \in 1..Len(b) - 1 :
             Len(SelectSeq(SubSeq(b, 1, k), LAMBDA x : x = "o"))
                > Len(SelectSeq(SubSeq(b, 1, k), LAMBDA x : x = "c"))}
=============================================================================
