------------------------------ MODULE Mailbox ------------------------------
(* What thread.msg_send and thread.msg_recv promise: every VM has a box.  A    *)
(* message that is sent is posted behind the others of its box, or its sender  *)
(* is told that it was not; a message that is posted is taken once, by whoever *)
(* asks for the oldest one of its box; and only who set a timeout is told that *)
(* there was none.                                                             *)
EXTENDS Sequences, Functions

CONSTANTS Threads, Vms, NoVm, Msgs, NoMsg

VARIABLES box,    \* the messages of each VM, oldest first
          letter, \* the message of the msg_send each thread is in
          to,     \* the VM it is for
          told,   \* what its last msg_send returned: the message was posted, or not
          asks,   \* the VM whose box the msg_recv it is in asks
          timed,  \* its last msg_recv has a timeout
          got     \* what its last msg_recv brought it

vars == <<box, letter, to, told, asks, timed, got>>

Init == /\ box = [v \in Vms |-> <<>>]
        /\ letter = [t \in Threads |-> NoMsg]
        /\ to = [t \in Threads |-> NoVm]
        /\ told = [t \in Threads |-> FALSE]
        /\ asks = [t \in Threads |-> NoVm]
        /\ timed = [t \in Threads |-> FALSE]
        /\ got = [t \in Threads |-> NoMsg]

Abroad == (UNION {Range(box[v]) : v \in Vms}) \cup Range(letter)
Idle(t) == to[t] = NoVm /\ asks[t] = NoVm

Send(t, v, m) == /\ Idle(t) /\ m \notin Abroad
                 /\ letter' = [letter EXCEPT ![t] = m]
                 /\ to' = [to EXCEPT ![t] = v]
                 /\ UNCHANGED <<box, told, asks, timed, got>>

SendIsOver(t, success) == /\ to[t] # NoVm
                          /\ letter' = [letter EXCEPT ![t] = NoMsg]
                          /\ to' = [to EXCEPT ![t] = NoVm]
                          /\ told' = [told EXCEPT ![t] = success]
                          /\ UNCHANGED <<asks, timed, got>>

Post(t) == /\ SendIsOver(t, TRUE)
           /\ box' = [box EXCEPT ![to[t]] = Append(@, letter[t])]

Refuse(t) == SendIsOver(t, FALSE) /\ UNCHANGED box

Ask(t, v, timeout) == /\ Idle(t)
                      /\ asks' = [asks EXCEPT ![t] = v]
                      /\ timed' = [timed EXCEPT ![t] = timeout]
                      /\ UNCHANGED <<box, letter, to, told, got>>

Answer(t, m) == /\ asks' = [asks EXCEPT ![t] = NoVm]
                /\ got' = [got EXCEPT ![t] = m]
                /\ UNCHANGED <<letter, to, told, timed>>

Take(t) == LET v == asks[t]
           IN  /\ v # NoVm /\ box[v] # <<>>
               /\ Answer(t, Head(box[v]))
               /\ box' = [box EXCEPT ![v] = Tail(@)]

TimeOut(t) == asks[t] # NoVm /\ timed[t] /\ Answer(t, NoMsg) /\ UNCHANGED box

Next == \/ \E t \in Threads : Post(t) \/ Refuse(t) \/ Take(t) \/ TimeOut(t)
        \/ \E t \in Threads, v \in Vms, m \in Msgs : Send(t, v, m)
        \/ \E t \in Threads, v \in Vms, timeout \in BOOLEAN : Ask(t, v, timeout)

Spec == Init /\ [][Next]_vars
=============================================================================
