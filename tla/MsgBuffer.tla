----------------------------- MODULE MsgBuffer -----------------------------
(* The messages of a VM (struct message, struct thread_msg_buf) as they are    *)
(* built, copied to the buffer, copied from it and parsed: thread_msg_build,   *)
(* thread_msg_parse and the critical sections of thread_msg_send and           *)
(* thread_msg_recv, luasys-MOD/src/thread/thread_msg.c.  The unit is a part of *)
(* a message that is written at once; unit j of the m-th message is <<m, j>>.  *)
EXTENDS Naturals, Sequences, SequencesExt

CONSTANTS Messages,     \* what is sent: sequences of items [type, len]
          Value,        \* the size of the union of an item, which holds all but strings
          MaxSize,      \* MSG_MAXSIZE
          InitialSize,  \* BUFF_INITIALSIZE
          Junk,         \* a unit nobody has written
          MaxSends      \* bound: the messages sent

ASSUME BufferAssumption ==
  /\ Messages # {} /\ Value \in Nat /\ MaxSize \in Nat /\ InitialSize \in Nat /\ MaxSends \in Nat
  /\ \A items \in Messages :
       /\ items \in Seq([type : STRING, len : Nat])
       /\ \A k \in 1..Len(items) : items[k].type # "string" => items[k].len <= Value
  /\ 1 <= InitialSize /\ MaxSize <= InitialSize
  /\ Junk \notin Nat \X Nat

VARIABLES buf,   \* the units; buffer.len is their number
          idx, top, nmsg,
          sent,  \* the messages sent so far
          taken  \* what the last msg_recv returned

bufferVars == <<buf, idx, top, nmsg, sent, taken>>

BufferInit == buf = <<>> /\ idx = 0 /\ top = 0 /\ nmsg = 0 /\ sent = <<>> /\ taken = <<>>

-----------------------------------------------------------------------------
(* The layout of a message: src_td and size, then the items, one unit of type *)
(* and length before the value of each.                                       *)

Header == 1  \* offsetof(items)

\* The unit at which item k begins; behind the last item, where it would.
Start(items, k) ==
  LET start[j \in 1 .. Len(items) + 1] ==
        IF j = 1 THEN Header + 1 ELSE start[j - 1] + 1 + items[j - 1].len
  IN  start[k]

\* As it is where a pointer has eight bytes: behind items, at 12, the structure is
\* padded to 528 bytes, and sizeof(struct message) - MSG_MAXSIZE is 16.
SlackOf64Bits == 1

\* sizeof(struct message) - MSG_MAXSIZE - offsetof(items), with pointers of four bytes.
Slack == 0

\* msg->size
Size(items) == Start(items, Len(items) + 1) - 1 + Slack

\* "Message is too big"; room for a whole union is asked for whatever the type.
TooBig(items) == \E k \in 1..Len(items) :
  LET room == IF items[k].type = "string" THEN items[k].len ELSE Value
  IN  Start(items, k) - Header + room >= MaxSize

\* thread_msg_build: it writes up to the end of the last item.
Units(m, items) == [j \in 1..Size(items) |->
                      IF j < Start(items, Len(items) + 1) THEN <<m, j>> ELSE Junk]

\* thread_msg_parse: from item to item, by the length each states, up to the size.
\* What is no header may state anything: Junk, and the walk is followed no further.
Parse(data) ==
  LET parse[cp \in 1 .. Len(data) + 1] ==
        IF cp > Len(data) THEN <<>>
        ELSE LET of == IF data[cp] = Junk THEN {}
                       ELSE {k \in 1..Len(sent[data[cp][1]]) :
                               Start(sent[data[cp][1]], k) = data[cp][2]}
             IN  IF of = {} THEN <<Junk>>
                 ELSE LET it == sent[data[cp][1]][CHOOSE k \in of : TRUE]
                      IN  <<it>> \o parse[cp + 1 + it.len]
  IN  parse[Header + 1]

-----------------------------------------------------------------------------
(* thread_msg_send *)

\* memcpy to position p; what does not fit is somebody else's memory.
Write(b, p, data) == [i \in 1..Len(b) |-> IF i \in p + 1 .. p + Len(data) THEN data[i - p] ELSE b[i]]

Needed(items) == top + Size(items) > Len(buf)
Missing(items) == top + Size(items) - Len(buf)  \* nreq

CopyIn(items, b, t) == /\ buf' = Write(b, t, Units(Len(sent) + 1, items))
                       /\ top' = t + Size(items)
                       /\ nmsg' = nmsg + 1
                       /\ sent' = Append(sent, items)
                       /\ UNCHANGED taken

SendFits(items) == /\ ~Needed(items)
                   /\ CopyIn(items, buf, top)
                   /\ UNCHANGED idx

\* memmove the messages to the front; top becomes the old idx.
SendCompacts(items) == /\ Needed(items) /\ idx >= Missing(items)
                       /\ CopyIn(items, Write(buf, 0, SubSeq(buf, idx + 1, top)), idx)
                       /\ idx' = 0

\* As it would be if only the first buffer were allocated.
SendGrowsOnce(items) ==
  /\ Needed(items) /\ idx < Missing(items)
  /\ LET more == IF buf = <<>> THEN InitialSize ELSE 0
     IN  CopyIn(items, buf \o [i \in 1..more |-> Junk], top)
  /\ UNCHANGED idx

\* realloc to twice the length.
SendGrows(items) ==
  /\ Needed(items) /\ idx < Missing(items)
  /\ LET more == IF buf = <<>> THEN InitialSize ELSE Len(buf)
     IN  CopyIn(items, buf \o [i \in 1..more |-> Junk], top)
  /\ UNCHANGED idx

\* realloc fails: nothing is sent.
SendFails(items) == /\ Needed(items) /\ idx < Missing(items)
                    /\ UNCHANGED bufferVars

BuildFails(items) == TooBig(items) /\ UNCHANGED bufferVars

thread_msg_send(items) ==
  /\ Len(sent) < MaxSends /\ ~TooBig(items)
  /\ SendFits(items) \/ SendCompacts(items) \/ SendGrows(items) \/ SendFails(items)

-----------------------------------------------------------------------------
(* thread_msg_recv *)

\* mp->size, read from the unit at idx; anything, if no message starts there.
SizesAt(i) == IF i <= Len(buf) /\ buf[i] # Junk /\ buf[i][2] = 1 THEN {Size(sent[buf[i][1]])}
              ELSE {Size(items) : items \in {m \in Messages : ~TooBig(m)}}

Received(s) == Parse([j \in 1..s |-> IF idx + j <= Len(buf) THEN buf[idx + j] ELSE Junk])

\* As it would be if only idx went back to the start of the buffer.
RecvKeepingTop == /\ nmsg > 0
                  /\ \E s \in SizesAt(idx + 1) :
                       /\ idx' = IF idx + s = top THEN 0 ELSE idx + s
                       /\ taken' = Received(s)
                  /\ nmsg' = nmsg - 1
                  /\ UNCHANGED <<buf, top, sent>>

thread_msg_recv ==
  /\ nmsg > 0
  /\ \E s \in SizesAt(idx + 1) :
       /\ IF idx + s = top THEN idx' = 0 /\ top' = 0
                           ELSE idx' = idx + s /\ UNCHANGED top
       /\ taken' = Received(s)
  /\ nmsg' = nmsg - 1
  /\ UNCHANGED <<buf, sent>>

BufferNext == thread_msg_recv \/ \E items \in Messages : thread_msg_send(items) \/ BuildFails(items)
BufferSpec == BufferInit /\ [][BufferNext]_bufferVars

\* The buffer as long as it need not make room by moving messages to its front.
SendInPlace(items) == /\ Len(sent) < MaxSends /\ ~TooBig(items)
                      /\ SendFits(items) \/ SendGrows(items) \/ SendFails(items)
GrowingNext == thread_msg_recv \/ \E items \in Messages : SendInPlace(items) \/ BuildFails(items)
GrowingSpec == BufferInit /\ [][GrowingNext]_bufferVars

-----------------------------------------------------------------------------

\* After "additional required space" was found, the message has it: nothing is
\* copied behind the end of the buffer.
StaysInside == top <= Len(buf)

\* Between idx and top lie the messages that nobody received yet, whole, in the
\* order they were sent, and nothing else.
Unread == [k \in 1..nmsg |-> LET m == Len(sent) - nmsg + k IN Units(m, sent[m])]
HoldsTheUnread == SubSeq(buf, idx + 1, top) = FlattenSeq(Unread)

\* msg_recv returns the items of the message it took, as many and in order: the walk
\* of the parser ends where the builder ended, though items have no common length.
ReceivedIsSent == [][nmsg' < nmsg => taken' = sent[Len(sent) - nmsg + 1]]_bufferVars
=============================================================================
