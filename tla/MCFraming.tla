----------------------------- MODULE MCFraming -----------------------------
(* Framing for TLC: up to three frames, then up to three bytes of any kind.   *)
EXTENDS Framing

Payloads == {<<1>>, <<0, 1>>, <<3, 0, 2>>}
UpTo(S, n) == UNION {[1..k -> S] : k \in 0..n}
ThreeFrames == UpTo(Payloads, 3)
ThreeBytes  == UpTo(Byte, 3)
=============================================================================
