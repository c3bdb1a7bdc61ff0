------------------------------ MODULE MCPublish ------------------------------
(* Publish for TLC: a request with two ops at different locations, while    *)
(* another one publishes the first of them twice; two peers, an agent that   *)
(* is gone and one without a URL.                                            *)
EXTENDS Publish, TLC

CONSTANTS o1, o2, u1, u2, x1, x2

MCLoc == (o1 :> 1) @@ (o2 :> 2)
MCBody == (x1 :> <<o1, o2>>) @@ (x2 :> <<o1, o1>>)
Info(u, t) == [url |-> u, is_tombstone |-> t]
MCInfos == {Info(u1, FALSE), Info(u2, FALSE), Info(u2, TRUE), Info(NoUrl, FALSE)}
=============================================================================
