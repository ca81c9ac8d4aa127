------------------------------ MODULE MCSocial ------------------------------
(* Social for TLC: three requests that get in each other's way.             *)
EXTENDS Social

CONSTANTS ua, ub, un, q1, q2, q3, t1, t2

Do(op, a, b, times) == [op |-> op, a |-> a, b |-> b, times |-> times]
Three(x, y, z) == [r \in Requests |-> CASE r = q1 -> x [] r = q2 -> y [] OTHER -> z]

\* two users add each other and one deletes the other; the same with a
\* retransmission; a name is registered twice and befriended; the future
\* creator joins the id of a group, or joins and quits it
Befriend == Three(Do("addFriend", ua, ub, 1), Do("addFriend", ub, ua, 1), Do("delFriend", ub, ua, 1))
Retry    == Three(Do("addFriend", ua, ub, 2), Do("delFriend", ub, ua, 1), Do("addFriend", ua, ua, 0))
Register == Three(Do("reg", un, un, 1), Do("reg", un, un, 1), Do("addFriend", ua, un, 1))
Join     == Three(Do("createGroup", ua, ua, 1), Do("addGroup", ua, 1, 1), Do("quitGroup", ua, 1, 1))

All == {Befriend, Retry, Register, Join}
=============================================================================
