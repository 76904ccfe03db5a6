----------------------------- MODULE MCMsgBuffer ----------------------------
EXTENDS MsgBuffer
nil == [type |-> "nil", len |-> 0]
number == [type |-> "number", len |-> 1]
string == [type |-> "string", len |-> 3]
\* Four sizes; the last is "too big".
Exchanged == {<<>>, <<nil>>, <<number>>, <<number, nil>>, <<string, number, number>>}
=============================================================================
