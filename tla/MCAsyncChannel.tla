--------------------------- MODULE MCAsyncChannel ---------------------------
(* Instance of AsyncChannel for TLC: senders s1 and s2 (which sends twice),   *)
(* receivers r1 and r2, and k, which may close the channel.                   *)
EXTENDS AsyncChannel

CONSTANTS s1, s2, r1, r2, k

TwoSenders == {s1, s2}
TwoReceivers == {r1, r2}
OneCloser == {k}

MCSends == [s \in Senders |-> IF s = s2 THEN 2 ELSE 1]
MCReceives == [r \in Receivers |-> IF r = r2 THEN 2 ELSE 1]
=============================================================================
