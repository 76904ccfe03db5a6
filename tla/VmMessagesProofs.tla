-------------------------- MODULE VmMessagesProofs --------------------------
(* Messages between VMs, for any number of VMs, threads and messages, and the  *)
(* buffers that hold them, for any items and sizes.                            *)
EXTENDS VmMessages, MsgBuffer, SequenceFacts

(* What the lock of a box keeps: the copy that a thread between its read and its *)
(* write works on is still what the box holds.                                   *)
Sound(t) == /\ pc[t] \in {"copy", "take", "trigger"} => cs[box[t]] = t
            /\ pc[t] \in {"copy", "take"} => seen[t] = mail[box[t]]
            /\ pc[t] = "take" => seen[t] # <<>>
            /\ msg[t] # NoMsg <=> pc[t] \in {"send", "copy"}
            /\ pc[t] \in {"timedout", "giveup"} => timed[t]

MInv == TypeOK /\ \A t \in Threads : Sound(t)

(* A step of t moves another thread from its wait at most, ... *)
Beside(t) == \A u \in Threads \ {t} :
               /\ pc'[u] = pc[u] \/ (pc[u] = "waiting" /\ pc'[u] = "woken")
               /\ box'[u] = box[u] /\ msg'[u] = msg[u] /\ seen'[u] = seen[u]
               /\ timed'[u] = timed[u]

(* ... and touches no box that another thread has locked. *)
SparesLocked(t) == \A v \in Vms : cs[v] \notin {t, NoThread} =>
                                    cs'[v] = cs[v] /\ mail'[v] = mail[v]

LEMMA InitHolds == Init => MInv
<1> SUFFICES ASSUME Init PROVE MInv
  OBVIOUS
<1>1. TypeOK
  BY MessagesAssumption DEF Init, TypeOK, Places
<1>2. \A t \in Threads : Sound(t)
  BY DEF Init, Sound
<1> QED
  BY <1>1, <1>2 DEF MInv

LEMMA OthersKeep ==
  ASSUME MInv, NEW t \in Threads, Beside(t), SparesLocked(t),
         NEW u \in Threads \ {t}
  PROVE  Sound(u)'
<1>1. /\ Sound(u) /\ box[u] \in Vms /\ u # NoThread
      /\ pc'[u] = pc[u] \/ (pc[u] = "waiting" /\ pc'[u] = "woken")
      /\ box'[u] = box[u] /\ msg'[u] = msg[u] /\ seen'[u] = seen[u] /\ timed'[u] = timed[u]
  BY MessagesAssumption DEF MInv, TypeOK, Beside
<1>2. cs[box[u]] = u => cs'[box[u]] = u /\ mail'[box[u]] = mail[box[u]]
  BY <1>1 DEF SparesLocked
<1> QED
  BY <1>1, <1>2 DEF Sound

(* What t sends and asks is its own affair. *)
LEMMA OthersMap ==
  ASSUME NEW t \in Threads, Beside(t)
  PROVE  /\ To' = [To EXCEPT ![t] = To'[t]] /\ (To'[t] = To[t] => To' = To)
         /\ Asks' = [Asks EXCEPT ![t] = Asks'[t]] /\ (Asks'[t] = Asks[t] => Asks' = Asks)
<1>1. \A u \in Threads \ {t} : To'[u] = To[u] /\ Asks'[u] = Asks[u]
  BY DEF Beside, To, Asks, Receiving
<1>2. /\ To = [u \in Threads |-> To[u]] /\ To' = [u \in Threads |-> To'[u]]
      /\ Asks = [u \in Threads |-> Asks[u]] /\ Asks' = [u \in Threads |-> Asks'[u]]
  BY DEF To, Asks
<1> QED
  BY <1>1, <1>2

(* A signal moves a waiting thread to "woken", the signaller to "lua". *)
LEMMA SignalMoves ==
  ASSUME TypeOK, NEW t \in Threads, NEW v \in Vms, SignalAndReturn(t, v),
         pc[t] # "waiting"
  PROVE  /\ pc'[t] = "lua" /\ pc' \in [Threads -> Places]
         /\ \A u \in Threads \ {t} :
              pc'[u] = pc[u] \/ (pc[u] = "waiting" /\ pc'[u] = "woken")
BY DEF SignalAndReturn, TypeOK, Places

(* Steps of a call that neither begin nor end it, nor look into a box. *)
Quiet(t, from, to) ==
  /\ from \notin {"send", "copy"} /\ to \notin {"send", "copy", "take", "trigger"}
  /\ from \in Receiving <=> to \in Receiving
  /\ to = "timedout" => timed[t]
  /\ to = "giveup" => from = "timedout"
  /\ UNCHANGED <<cs, mail, msg, seen, told, timed, got>>

LEMMA QuietKeeps ==
  ASSUME MInv, NEW t \in Threads, NEW from \in Places, NEW to \in Places,
         Goes(t, from, to), Quiet(t, from, to), vm' \in [Vms -> Threads \cup {NoThread}],
         UNCHANGED active,
         box' = box \/ (from \notin Receiving /\ \E v \in Vms : box' = [box EXCEPT ![t] = v])
  PROVE  MInv' /\ UNCHANGED Boxes!vars
<1>1. /\ pc[t] = from /\ pc'[t] = to /\ \A u \in Threads \ {t} : pc'[u] = pc[u]
      /\ UNCHANGED <<cs, mail, msg, seen, told, timed, got>> /\ Sound(t)
      /\ \A u \in Threads \ {t} : box'[u] = box[u]
  BY DEF Goes, Quiet, MInv, TypeOK
<1>2. TypeOK'
  BY <1>1 DEF Goes, MInv, TypeOK
<1>3. Beside(t) /\ SparesLocked(t)
  BY <1>1 DEF Beside, SparesLocked
<1>4. Sound(t)'
  BY <1>1 DEF Sound, Quiet
<1>5. To' = To /\ Asks' = Asks
  <2>1. msg[t] = NoMsg
    BY <1>1 DEF Sound, Quiet
  <2>2. To'[t] = To[t] /\ Asks'[t] = Asks[t]
    BY <1>1, <2>1 DEF To, Asks, Quiet
  <2> QED
    BY <1>3, <2>2, OthersMap
<1> QED
  BY <1>1, <1>2, <1>3, <1>4, <1>5, OthersKeep DEF MInv, Boxes!vars

-----------------------------------------------------------------------------
(* Sending *)

LEMMA SendKeeps ==
  ASSUME MInv, NEW t \in Threads, NEW v \in Vms, NEW m \in Msgs, Send(t, v, m)
  PROVE  MInv' /\ Boxes!Send(t, v, m)
<1>1. /\ pc[t] = "lua" /\ pc' = [pc EXCEPT ![t] = "send"] /\ box' = [box EXCEPT ![t] = v]
      /\ msg' = [msg EXCEPT ![t] = m] /\ UNCHANGED <<vm, cs, mail, active, seen, told, timed, got>>
      /\ Sound(t) /\ m # NoMsg
  BY MessagesAssumption DEF Send, Goes, MInv
<1>2. TypeOK'
  BY <1>1 DEF MInv, TypeOK, Places
<1>3. pc'[t] = "send" /\ box'[t] = v /\ msg'[t] = m
  BY <1>1 DEF MInv, TypeOK
<1>4. Beside(t) /\ SparesLocked(t)
  BY <1>1 DEF Beside, SparesLocked, MInv, TypeOK
<1>5. Sound(t)'
  BY <1>1, <1>3 DEF Sound
<1>6. /\ To[t] = NoVm /\ Asks[t] = NoVm /\ To'[t] = v /\ Asks'[t] = NoVm
  BY <1>1, <1>3 DEF Sound, To, Asks, Receiving
<1>7. To' = [To EXCEPT ![t] = v] /\ Asks' = Asks
  BY <1>4, <1>6, OthersMap
<1>8. m \notin Boxes!Abroad
  <2>1. m \notin Present
    BY DEF Send
  <2>2. /\ Boxes!Range(msg) = {msg[u] : u \in Threads}
        /\ \A w \in Vms : Boxes!Range(mail[w]) = Range(mail[w])
    BY DEF MInv, TypeOK, Boxes!Range, Range
  <2>3. m \notin UNION {Boxes!Range(mail[w]) : w \in Vms}
    BY <2>1, <2>2 DEF Present
  <2>4. m \notin Boxes!Range(msg)
    BY <2>1, <2>2 DEF Present
  <2> QED
    BY <2>3, <2>4 DEF Boxes!Abroad
<1> QED
  BY <1>1, <1>2, <1>4, <1>5, <1>6, <1>7, <1>8, OthersKeep DEF MInv, Boxes!Send, Boxes!Idle

LEMMA OpenToCopyKeeps ==
  ASSUME MInv, NEW t \in Threads, OpenToCopy(t)
  PROVE  MInv' /\ UNCHANGED Boxes!vars
<1>1. /\ pc[t] = "send" /\ pc' = [pc EXCEPT ![t] = "copy"]
      /\ cs[box[t]] = NoThread /\ cs' = [cs EXCEPT ![box[t]] = t]
      /\ seen' = [seen EXCEPT ![t] = mail[box[t]]]
      /\ UNCHANGED <<vm, mail, active, box, msg, told, timed, got>>
      /\ Sound(t) /\ box[t] \in Vms
  BY DEF OpenToCopy, Free, Goes, ReadBox, MInv, TypeOK
<1>2. TypeOK'
  BY <1>1 DEF MInv, TypeOK, Places
<1>3. pc'[t] = "copy" /\ cs'[box[t]] = t /\ seen'[t] = mail[box[t]]
  BY <1>1 DEF MInv, TypeOK
<1>4. Beside(t) /\ SparesLocked(t)
  BY <1>1 DEF Beside, SparesLocked, MInv, TypeOK
<1>5. Sound(t)'
  BY <1>1, <1>3 DEF Sound
<1>6. To'[t] = To[t] /\ Asks'[t] = Asks[t]
  BY <1>1, <1>3 DEF To, Asks, Receiving
<1>7. To' = To /\ Asks' = Asks
  BY <1>4, <1>6, OthersMap
<1> QED
  BY <1>1, <1>2, <1>4, <1>5, <1>7, OthersKeep DEF MInv, Boxes!vars

(* The end of a msg_send, as the boxes see it. *)
LEMMA EndsSending ==
  ASSUME MInv, NEW t \in Threads, pc[t] = "copy", pc'[t] \notin Receiving, Beside(t),
         msg' = [msg EXCEPT ![t] = NoMsg], box' = box, UNCHANGED <<timed, got>>,
         NEW success, told' = [told EXCEPT ![t] = success]
  PROVE  /\ Boxes!SendIsOver(t, success)
         /\ To[t] = box[t]
<1>1. box[t] \in Vms /\ NoVm \notin Vms /\ msg[t] # NoMsg /\ msg'[t] = NoMsg
  BY MessagesAssumption DEF MInv, TypeOK, Sound
<1>2. To[t] = box[t] /\ To'[t] = NoVm /\ Asks[t] = NoVm /\ Asks'[t] = NoVm
  BY <1>1 DEF To, Asks, Receiving
<1>3. To' = [To EXCEPT ![t] = NoVm] /\ Asks' = Asks
  BY <1>2, OthersMap
<1> QED
  BY <1>1, <1>2, <1>3 DEF Boxes!SendIsOver

LEMMA CopyKeeps ==
  ASSUME MInv, NEW t \in Threads, Copy(t)
  PROVE  MInv' /\ Boxes!Post(t)
<1> DEFINE v == box[t]
<1>1. /\ v \in Vms /\ pc[t] = "copy" /\ cs[v] = t /\ seen[t] = mail[v] /\ msg[t] \in Msgs
      /\ mail[v] \in Seq(Msgs) /\ t # NoThread
  BY MessagesAssumption DEF MInv, TypeOK, Sound, Copy
<1>2. /\ mail' = [mail EXCEPT ![v] = Append(mail[v], msg[t])]
      /\ msg' = [msg EXCEPT ![t] = NoMsg] /\ seen' = [seen EXCEPT ![t] = <<>>]
      /\ told' = [told EXCEPT ![t] = TRUE] /\ UNCHANGED <<vm, active, box, timed, got>>
  BY <1>1 DEF Copy, SendIsOver
<1>3. /\ pc' \in [Threads -> Places] /\ cs' \in [Vms -> Threads \cup {NoThread}]
      /\ \A w \in Vms \ {v} : cs'[w] = cs[w]
      /\ \/ pc'[t] = "trigger" /\ cs' = cs
         \/ pc'[t] = "lua"
      /\ \A u \in Threads \ {t} :
           pc'[u] = pc[u] \/ (pc[u] = "waiting" /\ pc'[u] = "woken")
  <2>1. CASE pc' = [pc EXCEPT ![t] = "trigger"] /\ UNCHANGED cs
    BY <2>1 DEF MInv, TypeOK, Places
  <2>2. CASE SignalAndReturn(t, v) /\ cs' = [cs EXCEPT ![v] = NoThread]
    <3>1. /\ pc'[t] = "lua" /\ pc' \in [Threads -> Places]
          /\ \A u \in Threads \ {t} :
               pc'[u] = pc[u] \/ (pc[u] = "waiting" /\ pc'[u] = "woken")
      BY <1>1, <2>2, SignalMoves DEF MInv
    <3>2. cs' \in [Vms -> Threads \cup {NoThread}] /\ \A w \in Vms \ {v} : cs'[w] = cs[w]
      BY <2>2 DEF MInv, TypeOK
    <3> QED
      BY <3>1, <3>2
  <2> QED
    BY <2>1, <2>2 DEF Copy
<1>4. TypeOK'
  <2>1. Append(mail[v], msg[t]) \in Seq(Msgs)
    BY <1>1
  <2>2. mail' \in [Vms -> Seq(Msgs)]
    BY <1>2, <2>1 DEF MInv, TypeOK
  <2>3. /\ msg' \in [Threads -> Msgs \cup {NoMsg}] /\ seen' \in [Threads -> Seq(Msgs)]
        /\ told' \in [Threads -> BOOLEAN]
    BY <1>2 DEF MInv, TypeOK
  <2>4. /\ vm' \in [Vms -> Threads \cup {NoThread}] /\ active' \in SUBSET Vms
        /\ box' \in [Threads -> Vms] /\ timed' \in [Threads -> BOOLEAN]
        /\ got' \in [Threads -> Msgs \cup {NoMsg}]
    BY <1>2 DEF MInv, TypeOK
  <2> QED
    BY <1>3, <2>2, <2>3, <2>4 DEF TypeOK
<1>5. msg'[t] = NoMsg /\ \A w \in Vms \ {v} : mail'[w] = mail[w]
  BY <1>1, <1>2 DEF MInv, TypeOK
<1>6. Beside(t) /\ SparesLocked(t)
  <2>1. Beside(t)
    BY <1>2, <1>3 DEF Beside, MInv, TypeOK
  <2>2. SparesLocked(t)
    BY <1>1, <1>3, <1>5 DEF SparesLocked
  <2> QED
    BY <2>1, <2>2
<1>7. Sound(t)'
  BY <1>1, <1>2, <1>3, <1>5 DEF Sound
<1>8. Boxes!SendIsOver(t, TRUE) /\ To[t] = v
  BY <1>1, <1>2, <1>3, <1>6, EndsSending DEF Receiving
<1>9. Boxes!Post(t)
  BY <1>2, <1>8 DEF Boxes!Post
<1> QED
  BY <1>4, <1>6, <1>7, <1>9, OthersKeep DEF MInv

LEMMA CopyFailsKeeps ==
  ASSUME MInv, NEW t \in Threads, CopyFails(t)
  PROVE  MInv' /\ Boxes!Refuse(t)
<1>1. /\ pc[t] = "copy" /\ pc' = [pc EXCEPT ![t] = "lua"]
      /\ cs[box[t]] = t /\ cs' = [cs EXCEPT ![box[t]] = NoThread]
      /\ msg' = [msg EXCEPT ![t] = NoMsg] /\ seen' = [seen EXCEPT ![t] = <<>>]
      /\ told' = [told EXCEPT ![t] = FALSE]
      /\ UNCHANGED <<vm, mail, active, box, timed, got>> /\ box[t] \in Vms
  BY DEF CopyFails, Goes, SendIsOver, MInv, TypeOK, Sound
<1>2. TypeOK'
  BY <1>1 DEF MInv, TypeOK, Places
<1>3. pc'[t] = "lua" /\ msg'[t] = NoMsg
  BY <1>1 DEF MInv, TypeOK
<1>4. Beside(t) /\ SparesLocked(t)
  BY <1>1 DEF Beside, SparesLocked, MInv, TypeOK
<1>5. Sound(t)'
  BY <1>3 DEF Sound
<1>6. Boxes!SendIsOver(t, FALSE)
  BY <1>1, <1>3, <1>4, EndsSending DEF Receiving
<1> QED
  BY <1>1, <1>2, <1>4, <1>5, <1>6, OthersKeep DEF MInv, Boxes!Refuse

LEMMA TriggerKeeps ==
  ASSUME MInv, NEW t \in Threads, Trigger(t)
  PROVE  MInv' /\ UNCHANGED Boxes!vars
<1>1. /\ box[t] \in Vms /\ pc[t] = "trigger" /\ cs[box[t]] = t
      /\ cs' = [cs EXCEPT ![box[t]] = NoThread] /\ SignalAndReturn(t, box[t])
      /\ active' = active \cup {box[t]}
      /\ UNCHANGED <<vm, mail, box, msg, seen, told, timed, got>> /\ msg[t] = NoMsg
  BY DEF Trigger, MInv, TypeOK, Sound
<1>2. /\ pc'[t] = "lua" /\ pc' \in [Threads -> Places]
      /\ \A u \in Threads \ {t} :
           pc'[u] = pc[u] \/ (pc[u] = "waiting" /\ pc'[u] = "woken")
  BY <1>1, SignalMoves DEF MInv
<1>3. TypeOK'
  BY <1>1, <1>2 DEF MInv, TypeOK
<1>4. Beside(t) /\ SparesLocked(t)
  BY <1>1, <1>2 DEF Beside, SparesLocked, MInv, TypeOK
<1>5. Sound(t)'
  BY <1>1, <1>2 DEF Sound
<1>6. To'[t] = To[t] /\ Asks'[t] = Asks[t]
  BY <1>1, <1>2 DEF To, Asks, Receiving
<1>7. To' = To /\ Asks' = Asks
  BY <1>4, <1>6, OthersMap
<1> QED
  BY <1>1, <1>3, <1>4, <1>5, <1>7, OthersKeep DEF MInv, Boxes!vars

-----------------------------------------------------------------------------
(* Receiving *)

LEMMA AskKeeps ==
  ASSUME MInv, NEW t \in Threads, NEW v \in Vms, NEW timeout \in BOOLEAN,
         Recv(t, v, timeout)
  PROVE  MInv' /\ Boxes!Ask(t, v, timeout)
<1>1. /\ pc[t] = "lua" /\ pc' = [pc EXCEPT ![t] = "recv"] /\ box' = [box EXCEPT ![t] = v]
      /\ timed' = [timed EXCEPT ![t] = timeout]
      /\ UNCHANGED <<vm, cs, mail, active, msg, seen, told, got>> /\ msg[t] = NoMsg
  BY DEF Recv, Goes, MInv, Sound
<1>2. TypeOK'
  BY <1>1 DEF MInv, TypeOK, Places
<1>3. pc'[t] = "recv" /\ box'[t] = v
  BY <1>1 DEF MInv, TypeOK
<1>4. Beside(t) /\ SparesLocked(t)
  BY <1>1 DEF Beside, SparesLocked, MInv, TypeOK
<1>5. Sound(t)'
  BY <1>1, <1>3 DEF Sound
<1>6. To[t] = NoVm /\ To'[t] = NoVm /\ Asks[t] = NoVm /\ Asks'[t] = v
  BY <1>1, <1>3 DEF To, Asks, Receiving
<1>7. To' = To /\ Asks' = [Asks EXCEPT ![t] = v]
  BY <1>4, <1>6, OthersMap
<1> QED
  BY <1>1, <1>2, <1>4, <1>5, <1>6, <1>7, OthersKeep DEF MInv, Boxes!Ask, Boxes!Idle

LEMMA OpenToTakeKeeps ==
  ASSUME MInv, NEW t \in Threads, OpenToTake(t)
  PROVE  MInv' /\ UNCHANGED Boxes!vars
<1>1. /\ pc[t] = "recv" /\ pc' = [pc EXCEPT ![t] = "take"] /\ mail[box[t]] # <<>>
      /\ cs[box[t]] = NoThread /\ cs' = [cs EXCEPT ![box[t]] = t]
      /\ seen' = [seen EXCEPT ![t] = mail[box[t]]]
      /\ UNCHANGED <<vm, mail, active, box, msg, told, timed, got>>
      /\ Sound(t) /\ box[t] \in Vms
  BY DEF OpenToTake, Free, Goes, ReadBox, MInv, TypeOK
<1>2. TypeOK'
  BY <1>1 DEF MInv, TypeOK, Places
<1>3. pc'[t] = "take" /\ cs'[box[t]] = t /\ seen'[t] = mail[box[t]]
  BY <1>1 DEF MInv, TypeOK
<1>4. Beside(t) /\ SparesLocked(t)
  BY <1>1 DEF Beside, SparesLocked, MInv, TypeOK
<1>5. Sound(t)'
  BY <1>1, <1>3 DEF Sound
<1>6. To'[t] = To[t] /\ Asks'[t] = Asks[t]
  BY <1>1, <1>3 DEF To, Asks, Receiving
<1>7. To' = To /\ Asks' = Asks
  BY <1>4, <1>6, OthersMap
<1> QED
  BY <1>1, <1>2, <1>4, <1>5, <1>7, OthersKeep DEF MInv, Boxes!vars

(* The end of a msg_recv, as the boxes see it. *)
LEMMA EndsAsking ==
  ASSUME MInv, NEW t \in Threads, pc[t] \in {"take", "giveup"}, pc'[t] = "lua", Beside(t),
         box' = box, UNCHANGED <<msg, told, timed>>,
         NEW m, got' = [got EXCEPT ![t] = m]
  PROVE  Boxes!Answer(t, m) /\ Asks[t] = box[t] /\ box[t] # NoVm
<1>1. box[t] \in Vms /\ NoVm \notin Vms
  BY MessagesAssumption DEF MInv, TypeOK
<1>2. To'[t] = To[t] /\ Asks[t] = box[t] /\ Asks'[t] = NoVm
  BY DEF To, Asks, Receiving
<1>3. To' = To /\ Asks' = [Asks EXCEPT ![t] = NoVm]
  BY <1>2, OthersMap
<1> QED
  BY <1>1, <1>2, <1>3 DEF Boxes!Answer

LEMMA TakeKeeps ==
  ASSUME MInv, NEW t \in Threads, Take(t)
  PROVE  MInv' /\ Boxes!Take(t)
<1> DEFINE v == box[t]
<1>1. /\ v \in Vms /\ mail[v] \in Seq(Msgs) /\ mail[v] # <<>> /\ cs[v] = t
      /\ pc[t] = "take" /\ seen[t] = mail[v] /\ msg[t] = NoMsg
  BY DEF MInv, TypeOK, Take, Goes, Sound
<1>2. /\ mail' = [mail EXCEPT ![v] = Tail(mail[v])]
      /\ got' = [got EXCEPT ![t] = Head(mail[v])]
      /\ cs' = [cs EXCEPT ![v] = NoThread] /\ seen' = [seen EXCEPT ![t] = <<>>]
      /\ pc' = [pc EXCEPT ![t] = "lua"] /\ UNCHANGED <<vm, active, box, msg, told, timed>>
  BY <1>1 DEF Take, Goes
<1>3. Tail(mail[v]) \in Seq(Msgs) /\ Head(mail[v]) \in Msgs
  BY <1>1
<1>4. TypeOK'
  BY <1>1, <1>2, <1>3 DEF MInv, TypeOK, Places
<1>5. pc'[t] = "lua"
  BY <1>2 DEF MInv, TypeOK
<1>6. Beside(t) /\ SparesLocked(t)
  BY <1>1, <1>2 DEF Beside, SparesLocked, MInv, TypeOK
<1>7. Sound(t)'
  BY <1>1, <1>2, <1>5 DEF Sound
<1>8. Boxes!Answer(t, Head(mail[v])) /\ Asks[t] = v /\ v # NoVm
  BY <1>1, <1>2, <1>5, <1>6, EndsAsking
<1>9. Boxes!Take(t)
  BY <1>1, <1>2, <1>8 DEF Boxes!Take
<1> QED
  BY <1>4, <1>6, <1>7, <1>9, OthersKeep DEF MInv

LEMMA EnterKeeps ==
  ASSUME MInv, NEW t \in Threads, Enter(t)
  PROVE  MInv' /\ (UNCHANGED Boxes!vars \/ Boxes!TimeOut(t))
<1>1. vm' \in [Vms -> Threads \cup {NoThread}]
  BY DEF Enter, MInv, TypeOK
<1>2. CASE Goes(t, "enter", "lua") /\ UNCHANGED got
  BY <1>1, <1>2, QuietKeeps DEF Enter, Quiet, Places, Receiving
<1>3. CASE Goes(t, "again", "recv") /\ UNCHANGED got
  BY <1>1, <1>3, QuietKeeps DEF Enter, Quiet, Places, Receiving
<1>4. CASE Goes(t, "giveup", "lua") /\ got' = [got EXCEPT ![t] = NoMsg]
  <2>1. /\ pc[t] = "giveup" /\ pc' = [pc EXCEPT ![t] = "lua"] /\ timed[t] /\ msg[t] = NoMsg
        /\ UNCHANGED <<cs, mail, active, box, msg, seen, told, timed>>
    BY <1>4 DEF Enter, Goes, MInv, Sound
  <2>2. pc'[t] = "lua"
    BY <2>1 DEF MInv, TypeOK
  <2>3. TypeOK'
    BY <1>1, <1>4, <2>1 DEF MInv, TypeOK, Places
  <2>4. Beside(t) /\ SparesLocked(t)
    BY <2>1 DEF Beside, SparesLocked, MInv, TypeOK
  <2>5. Sound(t)'
    BY <2>1, <2>2 DEF Sound
  <2>6. Boxes!Answer(t, NoMsg) /\ Asks[t] = box[t] /\ box[t] # NoVm
    BY <1>4, <2>1, <2>2, <2>4, EndsAsking
  <2>7. Boxes!TimeOut(t)
    BY <2>1, <2>6 DEF Boxes!TimeOut
  <2> QED
    BY <2>3, <2>4, <2>5, <2>7, OthersKeep DEF MInv
<1> QED
  BY <1>2, <1>3, <1>4 DEF Enter

-----------------------------------------------------------------------------

LEMMA StepKeeps ==
  MInv /\ [Next]_vars => MInv' /\ [Boxes!Next]_(Boxes!vars)
<1> SUFFICES ASSUME MInv, [Next]_vars PROVE MInv' /\ [Boxes!Next]_(Boxes!vars)
  OBVIOUS
<1> DEFINE Goal == MInv' /\ [Boxes!Next]_(Boxes!vars)
<1>1. ASSUME NEW t \in Threads, Proceed(t) PROVE Goal
  <2> DEFINE left == [vm EXCEPT ![VmOf[t]] = NoThread]
  <2>1. CASE Enter(t)
    BY <2>1, EnterKeeps DEF Boxes!Next
  <2>2. CASE OpenToCopy(t) \/ OpenToTake(t)
    BY <2>2, OpenToCopyKeeps, OpenToTakeKeeps
  <2>3. CASE Copy(t)
    BY <2>3, CopyKeeps DEF Boxes!Next
  <2>4. CASE CopyFails(t)
    BY <2>4, CopyFailsKeeps DEF Boxes!Next
  <2>5. CASE Trigger(t)
    BY <2>5, TriggerKeeps
  <2>6. CASE TriggerAgain(t)
    <3>1. vm' \in [Vms -> Threads \cup {NoThread}]
      BY <2>6 DEF TriggerAgain, MInv, TypeOK
    <3> QED
      BY <2>6, <3>1, QuietKeeps DEF TriggerAgain, Quiet, Places, Receiving
  <2>7. CASE Take(t)
    BY <2>7, TakeKeeps DEF Boxes!Next
  <2>8. CASE FindNothing(t)
    <3>1. vm' \in [Vms -> Threads \cup {NoThread}]
      BY <2>8 DEF FindNothing, MInv, TypeOK
    <3> QED
      BY <2>8, <3>1, QuietKeeps DEF FindNothing, Quiet, Places, Receiving
  <2>9. vm \in [Vms -> Threads \cup {NoThread}]
    BY DEF MInv, TypeOK
  <2>10. CASE WaitSignal(t)
    BY <2>9, <2>10, QuietKeeps DEF WaitSignal, Quiet, Places, Receiving
  <2>11. CASE TimesOut(t)
    BY <2>9, <2>11, QuietKeeps DEF TimesOut, Quiet, Places, Receiving
  <2>12. CASE LeaveWait(t)
    BY <2>9, <2>12, QuietKeeps DEF LeaveWait, Quiet, Places, Receiving
  <2>13. CASE CountReturns(t)
    BY <2>9, <2>13, QuietKeeps DEF CountReturns, Quiet, Places, Receiving
  <2> QED
    BY <1>1, <2>1, <2>2, <2>3, <2>4, <2>5, <2>6, <2>7, <2>8, <2>10, <2>11, <2>12, <2>13
       DEF Proceed
<1>2. ASSUME NEW t \in Threads, Yield(t) PROVE Goal
  <2>1. vm' \in [Vms -> Threads \cup {NoThread}]
    BY <1>2 DEF Yield, MInv, TypeOK
  <2> QED
    BY <1>2, <2>1, QuietKeeps DEF Yield, Quiet, Places, Receiving
<1>3. ASSUME NEW t \in Threads, RunCallbacks(t) PROVE Goal
  <2>1. UNCHANGED <<vm, cs, mail, pc, box, msg, seen, told, timed, got>> /\ active' \subseteq active
    BY <1>3 DEF RunCallbacks
  <2>2. MInv'
    BY <2>1 DEF MInv, TypeOK, Sound
  <2> QED
    BY <2>1, <2>2 DEF Boxes!vars, To, Asks
<1>4. ASSUME NEW t \in Threads, SpuriousWakeup(t) PROVE Goal
  <2>1. vm \in [Vms -> Threads \cup {NoThread}]
    BY DEF MInv, TypeOK
  <2> QED
    BY <1>4, <2>1, QuietKeeps DEF SpuriousWakeup, Quiet, Places, Receiving
<1>5. ASSUME NEW t \in Threads, NEW v \in Vms, Count(t, v) PROVE Goal
  <2>1. vm \in [Vms -> Threads \cup {NoThread}]
    BY DEF MInv, TypeOK
  <2> QED
    BY <1>5, <2>1, QuietKeeps DEF Count, Quiet, Places, Receiving
<1>6. ASSUME NEW t \in Threads, NEW v \in Vms, NEW m \in Msgs, Send(t, v, m) PROVE Goal
  BY <1>6, SendKeeps DEF Boxes!Next
<1>7. ASSUME NEW t \in Threads, NEW v \in Vms, NEW timeout \in BOOLEAN, Recv(t, v, timeout)
      PROVE Goal
  BY <1>7, AskKeeps DEF Boxes!Next
<1>8. CASE UNCHANGED vars
  BY <1>8 DEF vars, MInv, TypeOK, Sound, Boxes!vars, To, Asks
<1> QED
  BY <1>1, <1>2, <1>3, <1>4, <1>5, <1>6, <1>7, <1>8 DEF Next, Spin

(* The variables of the message boxes keep their types. *)
THEOREM MailTypeOK == Spec => []TypeOK
<1>1. MInv => TypeOK
  BY DEF MInv
<1> QED
  BY <1>1, InitHolds, StepKeeps, PTL DEF Spec

(* A message that msg_send accepted is taken once, in the order of its box, and  *)
(* the sender of one that is dropped is told, for any threads, VMs and boxes:    *)
(* msg_send and msg_recv put back a box that they read before, and the lock they *)
(* hold in between lets nobody write to it meanwhile.                            *)
THEOREM MailIsDelivered == Spec => ImplementsMailbox
<1>1. Init => Boxes!Init
  BY DEF Init, Boxes!Init, To, Asks, Receiving
<1> QED
  BY <1>1, InitHolds, StepKeeps, PTL DEF Spec, ImplementsMailbox, Boxes!Spec

-----------------------------------------------------------------------------
(* Deadlock freedom, where a box that an event queue watches is sent to from   *)
(* the VM of that queue only.                                                  *)
SentFromWatcher == \A v \in Vms : Watch[v] # NoVm =>
                     \A t \in Senders[v] : VmOf[t] = Watch[v]

InVm == {"lua", "send", "copy", "trigger", "spin", "recv", "take", "count"}
HasBox == {"copy", "take", "trigger", "spin"}

(* Where the holders of the locks stand; a trigger goes to the event queue of  *)
(* the thread's own VM.                                                        *)
Holds(t) == /\ \A v \in Vms : vm[v] = t => VmOf[t] = v /\ pc[t] \in InVm
            /\ pc[t] \in InVm => vm[VmOf[t]] = t
            /\ \A v \in Vms : cs[v] = t => pc[t] \in HasBox /\ box[t] = v
            /\ pc[t] \in {"send", "copy", "trigger"} => t \in Senders[box[t]]
            /\ pc[t] = "trigger" => Watch[box[t]] # NoVm

LInv == MInv /\ \A t \in Threads : Holds(t)

LEMMA LInit == Init => LInv
<1> SUFFICES ASSUME Init PROVE LInv
  OBVIOUS
<1>1. \A t \in Threads : Holds(t)
  BY MessagesAssumption DEF Init, Holds, InVm, HasBox
<1> QED
  BY <1>1, InitHolds DEF LInv

(* A step of t takes no lock from another thread and gives it none. *)
LeavesLocks(t) == \A v \in Vms : \A u \in Threads \ {t} :
                    (vm'[v] = u <=> vm[v] = u) /\ (cs'[v] = u <=> cs[v] = u)

LEMMA OthersHold ==
  ASSUME LInv, NEW t \in Threads, Beside(t), LeavesLocks(t), NEW u \in Threads \ {t}
  PROVE  Holds(u)'
<1>1. /\ Holds(u) /\ box[u] \in Vms /\ VmOf[u] \in Vms /\ box'[u] = box[u]
      /\ pc'[u] = pc[u] \/ (pc[u] = "waiting" /\ pc'[u] = "woken")
  BY MessagesAssumption DEF LInv, MInv, TypeOK, Beside
<1> QED
  BY <1>1 DEF Holds, LeavesLocks, InVm, HasBox

(* Steps that move one thread between places that hold the same locks. *)
LEMMA StayKeeps ==
  ASSUME LInv, MInv', NEW t \in Threads, NEW from \in Places, NEW to \in Places,
         Goes(t, from, to), UNCHANGED <<vm, cs, msg, seen>>,
         timed' = timed \/ \E x \in BOOLEAN : timed' = [timed EXCEPT ![t] = x],
         from \in InVm <=> to \in InVm, from \notin HasBox, to \notin HasBox,
         box' = box \/ \E v \in Vms : box' = [box EXCEPT ![t] = v], to # "send"
  PROVE  LInv'
<1>1. /\ pc[t] = from /\ pc'[t] = to /\ \A u \in Threads \ {t} : pc'[u] = pc[u]
      /\ \A u \in Threads \ {t} : box'[u] = box[u] /\ timed'[u] = timed[u]
  BY DEF Goes, LInv, MInv, TypeOK
<1>2. Beside(t) /\ LeavesLocks(t)
  BY <1>1 DEF Beside, LeavesLocks
<1>3. Holds(t)'
  BY <1>1 DEF LInv, Holds, HasBox
<1> QED
  BY <1>2, <1>3, OthersHold DEF LInv

(* Steps that leave the VM. *)
LEMMA LeaveKeeps ==
  ASSUME LInv, MInv', NEW t \in Threads, NEW from \in {"lua", "recv"},
         NEW to \in {"enter", "evlock"}, Goes(t, from, to),
         vm' = [vm EXCEPT ![VmOf[t]] = NoThread], UNCHANGED <<cs, box, msg, seen, timed>>
  PROVE  LInv'
<1>1. /\ pc[t] = from /\ pc'[t] = to /\ \A u \in Threads \ {t} : pc'[u] = pc[u]
      /\ VmOf[t] \in Vms /\ NoThread \notin Threads
  BY MessagesAssumption DEF Goes, LInv, MInv, TypeOK
<1>2. vm[VmOf[t]] = t /\ \A v \in Vms : vm[v] = t => v = VmOf[t]
  BY <1>1 DEF LInv, Holds, InVm
<1>3. \A v \in Vms : vm'[v] = IF v = VmOf[t] THEN NoThread ELSE vm[v]
  BY DEF LInv, MInv, TypeOK
<1>4. Beside(t) /\ LeavesLocks(t)
  BY <1>1, <1>2, <1>3 DEF Beside, LeavesLocks
<1>5. Holds(t)'
  BY <1>1, <1>2, <1>3 DEF LInv, Holds, InVm, HasBox
<1> QED
  BY <1>4, <1>5, OthersHold DEF LInv

LEMMA LEnterKeeps ==
  ASSUME LInv, MInv', NEW t \in Threads, Enter(t)
  PROVE  LInv'
<1>1. PICK to \in {"lua", "recv"} :
        /\ pc' = [pc EXCEPT ![t] = to] /\ pc[t] \in {"enter", "again", "giveup"}
        /\ vm[VmOf[t]] = NoThread /\ vm' = [vm EXCEPT ![VmOf[t]] = t]
        /\ UNCHANGED <<cs, box, msg, seen, timed>>
  BY DEF Enter, Goes
<1>2. /\ pc'[t] = to /\ \A u \in Threads \ {t} : pc'[u] = pc[u]
      /\ \A v \in Vms : vm'[v] = IF v = VmOf[t] THEN t ELSE vm[v]
      /\ VmOf[t] \in Vms /\ NoThread \notin Threads
  BY <1>1, MessagesAssumption DEF LInv, MInv, TypeOK
<1>3. Beside(t) /\ LeavesLocks(t)
  BY <1>1, <1>2 DEF Beside, LeavesLocks
<1>4. Holds(t)'
  BY <1>1, <1>2 DEF LInv, Holds, InVm, HasBox
<1> QED
  BY <1>3, <1>4, OthersHold DEF LInv

(* The lock of the box is taken, *)
LEMMA OpenKeeps ==
  ASSUME LInv, MInv', NEW t \in Threads, OpenToCopy(t) \/ OpenToTake(t)
  PROVE  LInv'
<1>1. PICK from \in {"send", "recv"}, to \in {"copy", "take"} :
        /\ from = "send" <=> to = "copy"
        /\ pc[t] = from /\ pc' = [pc EXCEPT ![t] = to]
        /\ cs[box[t]] = NoThread /\ cs' = [cs EXCEPT ![box[t]] = t]
        /\ seen' = [seen EXCEPT ![t] = mail[box[t]]] /\ UNCHANGED <<vm, box, msg, timed>>
  BY DEF OpenToCopy, OpenToTake, Free, Goes, ReadBox
<1>2. /\ pc'[t] = to /\ \A u \in Threads \ {t} : pc'[u] = pc[u] /\ seen'[u] = seen[u]
      /\ \A v \in Vms : cs'[v] = IF v = box[t] THEN t ELSE cs[v]
      /\ box[t] \in Vms /\ NoThread \notin Threads
  BY <1>1, MessagesAssumption DEF LInv, MInv, TypeOK
<1>3. Beside(t) /\ LeavesLocks(t)
  BY <1>1, <1>2 DEF Beside, LeavesLocks
<1>4. Holds(t)'
  BY <1>1, <1>2 DEF LInv, Holds, InVm, HasBox
<1> QED
  BY <1>3, <1>4, OthersHold DEF LInv

(* and given back, whether somebody is signalled or not. *)
LEMMA CloseKeeps ==
  ASSUME LInv, MInv', NEW t \in Threads,
         pc[t] \in {"copy", "take", "trigger"}, pc'[t] = "lua", Beside(t),
         cs' = [cs EXCEPT ![box[t]] = NoThread], UNCHANGED <<vm, box>>
  PROVE  LInv'
<1>1. /\ \A v \in Vms : cs'[v] = IF v = box[t] THEN NoThread ELSE cs[v]
      /\ cs[box[t]] = t /\ box[t] \in Vms /\ NoThread \notin Threads
  BY MessagesAssumption DEF LInv, MInv, TypeOK, Sound
<1>2. LeavesLocks(t)
  BY <1>1 DEF LeavesLocks
<1>3. Holds(t)'
  BY <1>1 DEF LInv, Holds, InVm, HasBox
<1> QED
  BY <1>2, <1>3, OthersHold DEF LInv

LEMMA LCopyKeeps ==
  ASSUME LInv, MInv', NEW t \in Threads, Copy(t)
  PROVE  LInv'
<1>1. /\ pc[t] = "copy" /\ box[t] \in Vms
      /\ msg' = [msg EXCEPT ![t] = NoMsg] /\ seen' = [seen EXCEPT ![t] = <<>>]
      /\ UNCHANGED <<vm, box, timed>>
  BY DEF Copy, SendIsOver, LInv, MInv, TypeOK
<1>2. CASE pc' = [pc EXCEPT ![t] = "trigger"] /\ UNCHANGED cs /\ Watch[box[t]] # NoVm
  <2>1. pc'[t] = "trigger" /\ \A u \in Threads \ {t} : pc'[u] = pc[u]
    BY <1>2 DEF LInv, MInv, TypeOK
  <2>2. Beside(t) /\ LeavesLocks(t)
    BY <1>1, <1>2, <2>1 DEF Beside, LeavesLocks, LInv, MInv, TypeOK
  <2>3. Holds(t)'
    BY <1>1, <1>2, <2>1 DEF LInv, Holds, InVm, HasBox
  <2> QED
    BY <2>2, <2>3, OthersHold DEF LInv
<1>3. CASE SignalAndReturn(t, box[t]) /\ cs' = [cs EXCEPT ![box[t]] = NoThread]
  <2>1. /\ pc'[t] = "lua"
        /\ \A u \in Threads \ {t} :
             pc'[u] = pc[u] \/ (pc[u] = "waiting" /\ pc'[u] = "woken")
    BY <1>1, <1>3, SignalMoves DEF LInv, MInv
  <2>2. Beside(t)
    BY <1>1, <2>1 DEF Beside, LInv, MInv, TypeOK
  <2> QED
    BY <1>1, <1>3, <2>1, <2>2, CloseKeeps
<1> QED
  BY <1>2, <1>3 DEF Copy

LEMMA LTriggerKeeps ==
  ASSUME SentFromWatcher, LInv, MInv', NEW t \in Threads,
         Trigger(t) \/ TriggerAgain(t)
  PROVE  LInv'
<1>1. box[t] \in Vms /\ pc[t] = "trigger" /\ UNCHANGED <<box, msg, seen, timed>>
  BY DEF LInv, MInv, TypeOK, Trigger, TriggerAgain, Goes
<1>2. Watch[box[t]] = VmOf[t]
  BY <1>1 DEF LInv, Holds, SentFromWatcher
<1>3. CASE Trigger(t)
  <2>1. /\ pc'[t] = "lua"
        /\ \A u \in Threads \ {t} :
             pc'[u] = pc[u] \/ (pc[u] = "waiting" /\ pc'[u] = "woken")
        /\ cs' = [cs EXCEPT ![box[t]] = NoThread] /\ UNCHANGED vm
    BY <1>1, <1>3, SignalMoves DEF Trigger, LInv, MInv
  <2>2. Beside(t)
    BY <1>1, <2>1 DEF Beside
  <2> QED
    BY <1>1, <2>1, <2>2, CloseKeeps
<1>4. CASE TriggerAgain(t)
  <2>1. /\ pc'[t] = "spin" /\ \A u \in Threads \ {t} : pc'[u] = pc[u]
        /\ UNCHANGED cs /\ vm' = [vm EXCEPT ![VmOf[t]] = t]
    BY <1>2, <1>4 DEF TriggerAgain, Goes, LInv, MInv, TypeOK
  <2>2. vm[VmOf[t]] = t
    BY <1>1 DEF LInv, Holds, InVm
  <2>3. vm' = vm
    BY <2>1, <2>2 DEF LInv, MInv, TypeOK
  <2>4. Beside(t) /\ LeavesLocks(t)
    BY <1>1, <2>1, <2>3 DEF Beside, LeavesLocks
  <2>5. Holds(t)'
    BY <1>1, <2>1, <2>3 DEF LInv, Holds, InVm, HasBox
  <2> QED
    BY <2>4, <2>5, OthersHold DEF LInv
<1> QED
  BY <1>3, <1>4

LEMMA LSendKeeps ==
  ASSUME LInv, MInv', NEW t \in Threads, NEW v \in Vms, NEW m \in Msgs, Send(t, v, m)
  PROVE  LInv'
<1>1. /\ t \in Senders[v] /\ pc[t] = "lua" /\ pc'[t] = "send" /\ box'[t] = v
      /\ \A u \in Threads \ {t} : pc'[u] = pc[u] /\ box'[u] = box[u] /\ msg'[u] = msg[u]
      /\ UNCHANGED <<vm, cs, seen, timed>>
  BY DEF Send, Goes, LInv, MInv, TypeOK
<1>2. Beside(t) /\ LeavesLocks(t)
  BY <1>1 DEF Beside, LeavesLocks
<1>3. Holds(t)'
  BY <1>1 DEF LInv, Holds, InVm, HasBox
<1> QED
  BY <1>2, <1>3, OthersHold DEF LInv

LEMMA LStepKeeps == ASSUME SentFromWatcher PROVE LInv /\ MInv' /\ [Next]_vars => LInv'
<1> SUFFICES ASSUME LInv, MInv', [Next]_vars PROVE LInv'
  OBVIOUS
<1>1. ASSUME NEW t \in Threads, Proceed(t) PROVE LInv'
  <2>1. CASE Enter(t)
    BY <2>1, LEnterKeeps
  <2>2. CASE OpenToCopy(t) \/ OpenToTake(t)
    BY <2>2, OpenKeeps
  <2>3. CASE Copy(t)
    BY <2>3, LCopyKeeps
  <2>4. CASE CopyFails(t) \/ Take(t)
    <3>1. /\ pc[t] \in {"copy", "take"} /\ pc'[t] = "lua"
          /\ cs' = [cs EXCEPT ![box[t]] = NoThread] /\ UNCHANGED <<vm, box>> /\ Beside(t)
      BY <2>4 DEF CopyFails, Take, Goes, SendIsOver, Beside, LInv, MInv, TypeOK
    <3> QED
      BY <3>1, CloseKeeps
  <2>5. CASE Trigger(t) \/ TriggerAgain(t)
    BY <2>5, LTriggerKeeps
  <2>6. CASE FindNothing(t)
    BY <2>6, LeaveKeeps DEF FindNothing
  <2>7. CASE WaitSignal(t)
    BY <2>7, StayKeeps DEF WaitSignal, Places, InVm, HasBox
  <2>8. CASE TimesOut(t)
    BY <2>8, StayKeeps DEF TimesOut, Places, InVm, HasBox
  <2>9. CASE LeaveWait(t)
    BY <2>9, StayKeeps DEF LeaveWait, Places, InVm, HasBox
  <2>10. CASE CountReturns(t)
    BY <2>10, StayKeeps DEF CountReturns, Places, InVm, HasBox
  <2> QED
    BY <1>1, <2>1, <2>2, <2>3, <2>4, <2>5, <2>6, <2>7, <2>8, <2>9, <2>10 DEF Proceed
<1>2. ASSUME NEW t \in Threads, Yield(t) PROVE LInv'
  BY <1>2, LeaveKeeps DEF Yield
<1>3. ASSUME NEW t \in Threads, RunCallbacks(t) PROVE LInv'
  BY <1>3 DEF RunCallbacks, LInv, Holds
<1>4. ASSUME NEW t \in Threads, SpuriousWakeup(t) PROVE LInv'
  BY <1>4, StayKeeps DEF SpuriousWakeup, Places, InVm, HasBox
<1>5. ASSUME NEW t \in Threads, NEW v \in Vms, Count(t, v) PROVE LInv'
  BY <1>5, StayKeeps DEF Count, Places, InVm, HasBox
<1>6. ASSUME NEW t \in Threads, NEW v \in Vms, NEW m \in Msgs, Send(t, v, m) PROVE LInv'
  BY <1>6, LSendKeeps
<1>7. ASSUME NEW t \in Threads, NEW v \in Vms, NEW timeout \in BOOLEAN, Recv(t, v, timeout)
      PROVE LInv'
  BY <1>7, StayKeeps DEF Recv, Places, InVm, HasBox
<1>8. CASE UNCHANGED vars
  BY <1>8 DEF vars, LInv, Holds
<1> QED
  BY <1>1, <1>2, <1>3, <1>4, <1>5, <1>6, <1>7, <1>8 DEF Next, Spin

(* The holder of a box waits for nobody; so the holder of a VM, who waits for  *)
(* a box at most, is waited for but never part of a circle.                    *)
LEMMA NoCircle == ASSUME SentFromWatcher PROVE LInv => NoDeadlock
<1> SUFFICES ASSUME LInv, NEW ring \in SUBSET Threads, ring # {},
                    \A t \in ring : WaitsFor(t) \cap ring # {}
             PROVE  FALSE
  BY DEF NoDeadlock
<1>1. \A t \in Threads : pc[t] \in HasBox => WaitsFor(t) = {}
  <2> SUFFICES ASSUME NEW t \in Threads, pc[t] \in HasBox
               PROVE  WaitsFor(t) = {}
    OBVIOUS
  <2>1. pc[t] = "trigger" => Watch[box[t]] = VmOf[t]
    BY DEF LInv, Holds, MInv, TypeOK, SentFromWatcher
  <2>2. CASE pc[t] = "trigger"
    BY <2>1, <2>2 DEF WaitsFor
  <2>3. CASE pc[t] \in {"copy", "take", "spin"}
    BY <2>3 DEF WaitsFor
  <2> QED
    BY <2>2, <2>3 DEF HasBox
<1>2. \A t \in ring : pc[t] \notin HasBox
  BY <1>1
<1>3. \A t \in Threads : pc[t] \in InVm \ HasBox =>
        WaitsFor(t) \subseteq {cs[box[t]]} \ {NoThread}
  BY DEF WaitsFor, InVm, HasBox
<1>4. \A t \in ring : pc[t] \notin InVm
  <2> SUFFICES ASSUME NEW t \in ring, pc[t] \in InVm PROVE FALSE
    OBVIOUS
  <2>1. cs[box[t]] \in ring /\ box[t] \in Vms
    BY <1>2, <1>3 DEF LInv, MInv, TypeOK
  <2>2. pc[cs[box[t]]] \in HasBox
    BY <2>1 DEF LInv, Holds
  <2> QED
    BY <1>2, <2>1, <2>2
<1>5. PICK t \in ring : TRUE
  OBVIOUS
<1>6. PICK u \in ring : u \in WaitsFor(t)
  BY <1>5
<1>7. u = cs[box[t]] \/ u = vm[VmOf[t]]
  <2>1. t \in Threads /\ pc[t] \in Places \ InVm
    BY <1>4, <1>5 DEF LInv, MInv, TypeOK
  <2>2. CASE pc[t] \in {"evlock", "woken", "timedout"}
    BY <1>6, <2>2 DEF WaitsFor
  <2>3. CASE pc[t] \in {"enter", "again", "giveup"}
    BY <1>6, <2>3 DEF WaitsFor
  <2>4. CASE pc[t] = "waiting"
    BY <1>6, <2>4 DEF WaitsFor
  <2> QED
    BY <2>1, <2>2, <2>3, <2>4 DEF Places, InVm
<1>8. box[t] \in Vms /\ VmOf[t] \in Vms
  BY <1>5, MessagesAssumption DEF LInv, MInv, TypeOK
<1> QED
  BY <1>2, <1>4, <1>7, <1>8 DEF LInv, Holds

(* Sending, receiving and counting deadlock in no interleaving, if a watched   *)
(* box is sent to from the VM that watches it only; run MailLockOrder shows    *)
(* what happens if it is not.                                                  *)
THEOREM MailNoDeadlock == ASSUME SentFromWatcher PROVE Spec => []NoDeadlock
<1>1. LInv /\ MInv' /\ [Next]_vars => LInv'
  BY LStepKeeps
<1>2. LInv => NoDeadlock
  BY NoCircle
<1>3. LInv => MInv
  BY DEF LInv
<1> QED
  BY <1>1, <1>2, <1>3, LInit, StepKeeps, PTL DEF Spec

-----------------------------------------------------------------------------
(* The buffer of a VM (MsgBuffer).  What lies between its indexes are always the *)
(* last messages sent, one behind the other (BufferSound).  The recursions of    *)
(* the model (Start, Parse, FlattenSeq) are read off by the least argument for   *)
(* which they would not be what the proofs say.                                  *)

Item == [type : STRING, len : Nat]

(* The recursion of Start, for the first n places. *)
StartAt(f, items, j) == IF j = 1 THEN Header + 1 ELSE f[j - 1] + 1 + items[j - 1].len
Starts(items) == CHOOSE f : f = [j \in 1 .. Len(items) + 1 |-> StartAt(f, items, j)]
Begins(f, items, n) == f = [j \in 1 .. n |-> StartAt(f, items, j)]

LEMMA StartReads == \A items, k : Start(items, k) = Starts(items)[k]
BY DEF Start, Starts, StartAt

LEMMA BeginsExist ==
  ASSUME NEW items \in Seq(Item)
  PROVE  \E f : Begins(f, items, Len(items) + 1)
<1> DEFINE N == Len(items) + 1
           bad == {n \in 1 .. N : ~ \E f : Begins(f, items, n)}
<1>1. N \in Nat /\ N >= 1
  BY LenProperties
<1> HIDE DEF N
<1>2. \E f : Begins(f, items, 1)
  <2> DEFINE f == [j \in 1 .. 1 |-> Header + 1]
  <2>1. f = [j \in 1 .. 1 |-> StartAt(f, items, j)]
    BY DEF StartAt
  <2> HIDE DEF f
  <2> QED
    BY <2>1 DEF Begins
<1>3. ASSUME NEW n \in 1 .. N, NEW f, Begins(f, items, n)
      PROVE  \E g : Begins(g, items, n + 1)
  <2> DEFINE g == [j \in 1 .. n + 1 |-> StartAt(f, items, j)]
  <2>1. \A j \in 1 .. n : g[j] = f[j]
    BY <1>1, <1>3 DEF Begins
  <2>2. \A j \in 1 .. n + 1 : j = 1 \/ j - 1 \in 1 .. n
    BY <1>1
  <2>3. \A j \in 1 .. n + 1 : StartAt(f, items, j) = StartAt(g, items, j)
    BY <2>1, <2>2 DEF StartAt
  <2>4. g = [j \in 1 .. n + 1 |-> StartAt(g, items, j)]
    BY <2>3
  <2> HIDE DEF g
  <2> QED
    BY <2>4 DEF Begins
<1>4. ASSUME bad # {} PROVE FALSE
  <2>1. bad \in SUBSET Nat
    BY <1>1
  <2>2. PICK n \in bad : \A x \in bad : n <= x
    BY <1>4, <2>1, LeastExists
  <2>3. n # 1
    BY <1>2
  <2>4. n - 1 \in 1 .. N /\ n - 1 \notin bad /\ n = (n - 1) + 1
    BY <1>1, <2>2, <2>3
  <2>5. \E g : Begins(g, items, (n - 1) + 1)
    BY <1>3, <2>4
  <2> QED
    BY <2>2, <2>4, <2>5
<1>5. N \in 1 .. N
  BY <1>1
<1> QED
  BY <1>4, <1>5 DEF N

LEMMA StartIs ==
  ASSUME NEW items \in Seq(Item)
  PROVE  /\ Start(items, 1) = 2
         /\ \A k \in 1 .. Len(items) : Start(items, k + 1) = Start(items, k) + 1 + items[k].len
<1> DEFINE W(f) == f = [j \in 1 .. Len(items) + 1 |-> StartAt(f, items, j)]
<1>1. \E f : W(f)
  BY BeginsExist DEF Begins
<1>2. Starts(items) = CHOOSE f : W(f)
  BY DEF Starts
<1>3. W(Starts(items))
  BY <1>1, <1>2
<1>4. \A j \in 1 .. Len(items) + 1 : Starts(items)[j] = StartAt(Starts(items), items, j)
  BY <1>3
<1>5. Len(items) \in Nat
  BY LenProperties
<1>6. Starts(items)[1] = 2
  <2>1. 1 \in 1 .. Len(items) + 1
    BY <1>5
  <2> QED
    BY <1>4, <2>1 DEF StartAt, Header
<1>7. \A k \in 1 .. Len(items) : Starts(items)[k + 1] = Starts(items)[k] + 1 + items[k].len
  <2> TAKE k \in 1 .. Len(items)
  <2>1. k + 1 \in 1 .. Len(items) + 1 /\ k + 1 # 1 /\ (k + 1) - 1 = k
    BY <1>5
  <2> QED
    BY <1>4, <2>1 DEF StartAt
<1> QED
  BY <1>6, <1>7, StartReads

(* The places of the items: natural numbers in increasing order. *)
LEMMA StartsRise ==
  ASSUME NEW items \in Seq(Item)
  PROVE  /\ \A k \in 1 .. Len(items) + 1 : Start(items, k) \in Nat /\ Start(items, k) >= 2
         /\ \A j, k \in 1 .. Len(items) + 1 : j < k => Start(items, j) < Start(items, k)
<1> DEFINE N == Len(items) + 1
           S(k) == Start(items, k)
           Good(k) == \A j \in 1 .. k : S(j) \in Nat /\ S(j) >= 2 /\ (j < k => S(j) < S(k))
           bad == {k \in 1 .. N : ~Good(k)}
<1>1. N \in Nat /\ N >= 1 /\ Len(items) \in Nat /\ N = Len(items) + 1
  BY LenProperties
<1>2. \A k \in 1 .. Len(items) : items[k].len \in Nat
  <2> TAKE k \in 1 .. Len(items)
  <2>1. items[k] \in Item
    BY ElementOfSeq
  <2> QED
    BY <2>1 DEF Item
<1>3. S(1) = 2 /\ \A k \in 1 .. Len(items) : S(k + 1) = S(k) + 1 + items[k].len
  BY StartIs
<1> HIDE DEF S, N
<1>4. ASSUME NEW k \in 1 .. Len(items), Good(k) PROVE Good(k + 1)
  <2>1. k \in 1 .. k /\ k \in Nat
    BY <1>1
  <2>2. S(k) \in Nat /\ S(k) >= 2
    BY <1>4, <2>1
  <2>3. S(k + 1) \in Nat /\ S(k + 1) > S(k) /\ S(k + 1) >= 2
    <3>1. PICK l \in Nat : l = items[k].len
      BY <1>2
    <3>2. S(k + 1) = S(k) + 1 + l
      BY <1>3, <3>1
    <3> QED
      BY <2>2, <3>2
  <2>4. ASSUME NEW j \in 1 .. k + 1 PROVE S(j) \in Nat /\ S(j) >= 2 /\ (j < k + 1 => S(j) < S(k + 1))
    <3>1. CASE j = k + 1
      BY <2>1, <2>3, <3>1
    <3>2. CASE j \in 1 .. k
      <4>1. S(j) \in Nat /\ S(j) >= 2 /\ (j = k \/ S(j) < S(k))
        <5>1. j = k \/ j < k
          BY <2>1, <3>2
        <5> QED
          BY <1>4, <3>2, <5>1
      <4> QED
        BY <2>2, <2>3, <4>1
    <3>3. j = k + 1 \/ j \in 1 .. k
      BY <2>1
    <3> QED
      BY <3>1, <3>2, <3>3
  <2> QED
    BY <2>4
<1>5. Good(1)
  BY <1>3
<1> HIDE DEF Good
<1>6. ASSUME bad # {} PROVE FALSE
  <2>1. bad \in SUBSET Nat
    BY <1>1
  <2>2. PICK k \in bad : \A x \in bad : k <= x
    BY <1>6, <2>1, LeastExists
  <2>3. k # 1
    BY <1>5, <2>2
  <2>4. k - 1 \in 1 .. N /\ k - 1 \notin bad /\ k = (k - 1) + 1 /\ k - 1 \in 1 .. Len(items)
    BY <1>1, <2>2, <2>3
  <2>5. Good((k - 1) + 1)
    BY <1>4, <2>4
  <2> QED
    BY <2>2, <2>4, <2>5
<1>7. \A k \in 1 .. N : Good(k)
  BY <1>6
<1>8. \A k \in 1 .. N : S(k) \in Nat /\ S(k) >= 2
  <2> TAKE k \in 1 .. N
  <2>1. k \in 1 .. k
    BY <1>1
  <2> QED
    BY <1>7, <2>1 DEF Good
<1>9. \A j, k \in 1 .. N : j < k => S(j) < S(k)
  <2> SUFFICES ASSUME NEW j \in 1 .. N, NEW k \in 1 .. N, j < k PROVE S(j) < S(k)
    OBVIOUS
  <2>1. j \in 1 .. k
    BY <1>1
  <2> QED
    BY <1>7, <2>1 DEF Good
<1> QED
  BY <1>8, <1>9 DEF S, N

(* What can be sent. *)
Sendable == {items \in Messages : ~TooBig(items)}

(* msg->size of a message that is not too big: at least the header, at most what *)
(* struct message holds, and the first allocation of the buffer.                 *)
LEMMA SizeIs ==
  ASSUME NEW items \in Sendable
  PROVE  /\ items \in Seq(Item) /\ Len(items) \in Nat
         /\ Size(items) \in Nat /\ Size(items) = Start(items, Len(items) + 1) - 1
         /\ 1 <= Size(items) /\ Size(items) <= InitialSize /\ InitialSize \in Nat
<1> DEFINE m == Len(items)
           last == Start(items, m)
<1>1. items \in Messages /\ items \in Seq(Item) /\ m \in Nat
  BY BufferAssumption, LenProperties DEF Sendable, Item
<1>2. InitialSize \in Nat /\ 1 <= InitialSize /\ Value \in Nat
      /\ MaxSize \in Nat /\ MaxSize <= InitialSize
  BY BufferAssumption
<1>3. m + 1 \in 1 .. m + 1 /\ 1 \in 1 .. m + 1
  BY <1>1
<1>4. Start(items, m + 1) \in Nat /\ Start(items, m + 1) >= 2 /\ Start(items, 1) = 2
  BY <1>1, <1>3, StartsRise, StartIs
<1>5. Size(items) = Start(items, m + 1) - 1
  BY <1>4 DEF Size, Slack
<1>6. CASE m = 0
  BY <1>2, <1>4, <1>5, <1>6
<1>7. CASE m # 0
  <2>1. m \in 1 .. m /\ m \in 1 .. m + 1
    BY <1>1, <1>7
  <2>2. Start(items, m + 1) = last + 1 + items[m].len /\ last \in Nat
    BY <1>1, <2>1, StartIs, StartsRise
  <2>3. items[m] \in Item
    BY <1>1, <2>1, ElementOfSeq
  <2>4. items[m].len \in Nat
    BY <2>3 DEF Item
  <2> DEFINE room == IF items[m].type = "string" THEN items[m].len ELSE Value
  <2>5. ~(last - Header + room >= MaxSize)
    BY <2>1 DEF Sendable, TooBig
  <2>6. items[m].len <= room /\ room \in Nat
    <3>1. CASE items[m].type = "string"
      BY <2>4, <3>1
    <3>2. CASE items[m].type # "string"
      BY <1>1, <1>2, <2>1, <3>2, BufferAssumption
    <3> QED
      BY <3>1, <3>2
  <2> HIDE DEF last, room
  <2>7. last - 1 + room < MaxSize
    BY <1>2, <2>2, <2>5, <2>6 DEF Header
  <2> QED
    BY <1>1, <1>2, <1>4, <1>5, <2>2, <2>4, <2>6, <2>7
<1> QED
  BY <1>1, <1>2, <1>4, <1>5, <1>6, <1>7

LEMMA UnitsAre ==
  ASSUME NEW items \in Sendable, NEW m \in Nat
  PROVE  /\ Units(m, items) = [j \in 1 .. Size(items) |-> <<m, j>>]
         /\ Units(m, items) \in Seq(Nat \X Nat) /\ Len(Units(m, items)) = Size(items)
<1>1. Size(items) \in Nat /\ Size(items) = Start(items, Len(items) + 1) - 1
      /\ Start(items, Len(items) + 1) \in Nat
  <2>1. items \in Seq(Item) /\ Len(items) \in Nat /\ Len(items) + 1 \in 1 .. Len(items) + 1
    BY SizeIs
  <2> QED
    BY <2>1, SizeIs, StartsRise
<1>2. \A j \in 1 .. Size(items) : j < Start(items, Len(items) + 1)
  BY <1>1
<1>3. Units(m, items) = [j \in 1 .. Size(items) |-> <<m, j>>]
  BY <1>2 DEF Units
<1>4. \A j \in 1 .. Size(items) : <<m, j>> \in Nat \X Nat
  BY <1>1
<1> QED
  BY <1>1, <1>3, <1>4

(* The recursion of the parser. *)
Of(data, cp) == IF data[cp] = Junk THEN {}
                ELSE {k \in 1 .. Len(sent[data[cp][1]]) :
                        Start(sent[data[cp][1]], k) = data[cp][2]}
ItemAt(data, cp) == sent[data[cp][1]][CHOOSE k \in Of(data, cp) : TRUE]
ParseAt(f, data, cp) == IF cp > Len(data) THEN <<>>
                        ELSE IF Of(data, cp) = {} THEN <<Junk>>
                             ELSE <<ItemAt(data, cp)>> \o f[cp + 1 + ItemAt(data, cp).len]
Parses(data) == CHOOSE f : f = [cp \in 1 .. Len(data) + 1 |-> ParseAt(f, data, cp)]

LEMMA ParseReads == \A data : Parse(data) = Parses(data)[Header + 1]
BY DEF Parse, Parses, ParseAt, Of, ItemAt

(* data is the whole of message m. *)
Whole(data, m) == /\ m \in Nat /\ sent[m] \in Sendable
                  /\ data = [j \in 1 .. Size(sent[m]) |-> <<m, j>>]

WholeSound(data, m) ==
  /\ Len(data) = Size(sent[m]) /\ Len(data) \in Nat /\ Len(data) >= 1
  /\ Len(data) + 1 = Start(sent[m], Len(sent[m]) + 1)
  /\ sent[m] \in Seq(Item) /\ Len(sent[m]) \in Nat
  /\ \A cp \in 1 .. Len(data) : Of(data, cp) = {k \in 1 .. Len(sent[m]) : Start(sent[m], k) = cp}
  /\ \A k \in 1 .. Len(sent[m]) :
       /\ Start(sent[m], k) \in 1 .. Len(data)
       /\ Of(data, Start(sent[m], k)) = {k} /\ ItemAt(data, Start(sent[m], k)) = sent[m][k]
       /\ Start(sent[m], k) + 1 + sent[m][k].len = Start(sent[m], k + 1)

(* In a whole message there is an item where one begins, nowhere else. *)
LEMMA WholeIs ==
  ASSUME NEW data, NEW m, Whole(data, m)
  PROVE  WholeSound(data, m)
<1> DEFINE items == sent[m]
           n == Len(items)
           S(k) == Start(items, k)
<1>1. items \in Sendable /\ m \in Nat /\ data = [j \in 1 .. Size(items) |-> <<m, j>>]
  BY DEF Whole
<1>2. /\ items \in Seq(Item) /\ n \in Nat /\ Size(items) \in Nat /\ 1 <= Size(items)
      /\ Size(items) = S(n + 1) - 1
  BY <1>1, SizeIs
<1>3. Len(data) = Size(items)
  BY <1>1, <1>2
<1>4. /\ \A k \in 1 .. n + 1 : S(k) \in Nat /\ S(k) >= 2
      /\ \A j, k \in 1 .. n + 1 : j < k => S(j) < S(k)
      /\ \A k \in 1 .. n : S(k + 1) = S(k) + 1 + items[k].len
  BY <1>2, StartsRise, StartIs
<1>5. n + 1 \in 1 .. n + 1 /\ \A k \in 1 .. n : k \in 1 .. n + 1 /\ k < n + 1
  BY <1>2
<1> HIDE DEF S, n
<1>6. Len(data) + 1 = S(n + 1)
  BY <1>2, <1>3, <1>4, <1>5
<1>7. \A cp \in 1 .. Len(data) : Of(data, cp) = {k \in 1 .. n : S(k) = cp}
  <2> TAKE cp \in 1 .. Len(data)
  <2>1. data[cp] = <<m, cp>>
    BY <1>1, <1>3
  <2>2. cp \in Nat
    BY <1>2, <1>3
  <2>3. data[cp] \in Nat \X Nat
    BY <1>1, <2>1, <2>2
  <2>4. data[cp] # Junk
    BY <2>3, BufferAssumption
  <2>5. data[cp][1] = m /\ data[cp][2] = cp
    BY <2>1
  <2> QED
    BY <2>4, <2>5 DEF Of, S, n
<1>8. ASSUME NEW k \in 1 .. n
      PROVE  S(k) \in 1 .. Len(data) /\ Of(data, S(k)) = {k} /\ ItemAt(data, S(k)) = items[k]
  <2>1. S(k) \in Nat /\ S(k) >= 2 /\ S(k) < S(n + 1) /\ S(n + 1) \in Nat
    BY <1>4, <1>5
  <2>2. S(k) \in 1 .. Len(data)
    BY <1>2, <1>3, <1>6, <2>1
  <2>3. \A j \in 1 .. n : S(j) = S(k) => j = k
    <3> SUFFICES ASSUME NEW j \in 1 .. n, S(j) = S(k), j # k PROVE FALSE
      OBVIOUS
    <3>1. j < k \/ k < j
      BY <1>2 DEF n
    <3>2. S(j) < S(k) \/ S(k) < S(j)
      BY <1>4, <1>5, <3>1
    <3> QED
      BY <2>1, <3>2
  <2>4. Of(data, S(k)) = {k}
    BY <1>7, <2>2, <2>3
  <2>5. data[S(k)] = <<m, S(k)>>
    BY <1>1, <1>3, <2>2
  <2>6. ItemAt(data, S(k)) = sent[data[S(k)][1]][k]
    BY <2>4 DEF ItemAt
  <2> QED
    BY <2>2, <2>4, <2>5, <2>6
<1> QED
  BY <1>2, <1>3, <1>4, <1>6, <1>7, <1>8 DEF WholeSound, S, n

LEMMA ParseExists ==
  ASSUME NEW data, NEW m, Whole(data, m)
  PROVE  \E f : f = [cp \in 1 .. Len(data) + 1 |-> ParseAt(f, data, cp)]
<1>0. WholeSound(data, m)
  BY WholeIs
<1> DEFINE items == sent[m]
           n == Len(items)
           S(k) == Start(items, k)
           here(cp) == {k \in 1 .. n : S(k) = cp}
           f == [cp \in 1 .. Len(data) + 1 |->
                   IF cp > Len(data) THEN <<>>
                   ELSE IF here(cp) = {} THEN <<Junk>>
                        ELSE SubSeq(items, CHOOSE k \in here(cp) : TRUE, n)]
<1>1. /\ Len(data) \in Nat /\ Len(data) + 1 = S(n + 1) /\ items \in Seq(Item) /\ n \in Nat
      /\ \A cp \in 1 .. Len(data) : Of(data, cp) = here(cp)
      /\ \A k \in 1 .. n : /\ S(k) \in 1 .. Len(data) /\ Of(data, S(k)) = {k}
                           /\ ItemAt(data, S(k)) = items[k]
                           /\ S(k) + 1 + items[k].len = S(k + 1)
  BY <1>0 DEF WholeSound
<1> HIDE DEF S, n
<1>2. \A k \in 1 .. n : f[S(k)] = SubSeq(items, k, n)
  <2> TAKE k \in 1 .. n
  <2>1. S(k) \in 1 .. Len(data) + 1 /\ ~(S(k) > Len(data)) /\ here(S(k)) = {k}
    <3>1. S(k) \in 1 .. Len(data) /\ Of(data, S(k)) = {k}
      BY <1>1
    <3>2. Of(data, S(k)) = here(S(k))
      BY <1>1, <3>1
    <3> HIDE DEF here
    <3>3. here(S(k)) = {k}
      BY <3>1, <3>2
    <3>4. Len(data) \in Nat
      BY <1>1
    <3> QED
      BY <3>1, <3>3, <3>4
  <2>2. (CHOOSE x \in here(S(k)) : TRUE) = k
    BY <2>1
  <2> QED
    BY <2>1, <2>2
<1>3. f[S(n + 1)] = <<>>
  <2>1. S(n + 1) \in 1 .. Len(data) + 1 /\ S(n + 1) > Len(data)
    BY <1>1
  <2> QED
    BY <2>1
<1>4. ASSUME NEW cp \in 1 .. Len(data) + 1 PROVE f[cp] = ParseAt(f, data, cp)
  <2>1. CASE cp > Len(data)
    BY <2>1 DEF ParseAt
  <2>2. CASE ~(cp > Len(data)) /\ here(cp) = {}
    <3>1. cp \in 1 .. Len(data)
      BY <1>1, <2>2
    <3>2. Of(data, cp) = {}
      BY <1>1, <2>2, <3>1
    <3> QED
      BY <2>2, <3>2 DEF ParseAt
  <2>3. CASE ~(cp > Len(data)) /\ here(cp) # {}
    <3>1. cp \in 1 .. Len(data)
      BY <1>1, <2>3
    <3>2. PICK k \in 1 .. n : S(k) = cp
      BY <2>3
    <3>3. Of(data, cp) = {k} /\ ItemAt(data, cp) = items[k] /\ cp + 1 + items[k].len = S(k + 1)
      BY <1>1, <3>2
    <3>4. ParseAt(f, data, cp) = <<items[k]>> \o f[S(k + 1)]
      <4> HIDE DEF f
      <4> QED
        BY <2>3, <3>3 DEF ParseAt
    <3>5. f[S(k + 1)] = SubSeq(items, k + 1, n)
      <4>1. CASE k = n
        <5>1. SubSeq(items, k + 1, n) = <<>>
          BY <1>1, <4>1, SubSeqEmpty DEF n
        <5> QED
          BY <1>3, <4>1, <5>1
      <4>2. CASE k # n
        <5>1. k + 1 \in 1 .. n
          BY <1>1, <4>2
        <5> QED
          BY <1>2, <5>1
      <4> QED
        BY <4>1, <4>2
    <3>6. <<items[k]>> \o SubSeq(items, k + 1, n) = SubSeq(items, k, n)
      <4>1. n \in k .. n /\ k \in 1 .. Len(items)
        BY <1>1 DEF n
      <4>2. n \in k .. Len(items)
        BY <4>1 DEF n
      <4> QED
        BY <1>1, <4>1, <4>2, SubSeqRecursiveFirst
    <3>7. f[cp] = SubSeq(items, k, n)
      BY <1>2, <3>2
    <3> HIDE DEF f
    <3> QED
      BY <3>4, <3>5, <3>6, <3>7
  <2> QED
    BY <2>1, <2>2, <2>3
<1>5. f = [cp \in 1 .. Len(data) + 1 |-> f[cp]]
  OBVIOUS
<1> HIDE DEF f
<1>6. f = [cp \in 1 .. Len(data) + 1 |-> ParseAt(f, data, cp)]
  BY <1>4, <1>5
<1> QED
  BY <1>6

(* The parser finds the items of a whole message. *)
LEMMA ParseIs ==
  ASSUME NEW data, NEW m, Whole(data, m)
  PROVE  Parse(data) = sent[m]
<1>0. WholeSound(data, m)
  BY WholeIs
<1> DEFINE items == sent[m]
           n == Len(items)
           S(k) == Start(items, k)
           W(f) == f = [cp \in 1 .. Len(data) + 1 |-> ParseAt(f, data, cp)]
           P == Parses(data)
           Finds(j) == P[S(n + 1 - j)] = SubSeq(items, n + 1 - j, n)
           bad == {j \in 0 .. n : ~Finds(j)}
<1>1. /\ Len(data) \in Nat /\ Len(data) + 1 = S(n + 1) /\ items \in Seq(Item) /\ n \in Nat
      /\ \A k \in 1 .. n : /\ S(k) \in 1 .. Len(data) /\ Of(data, S(k)) = {k}
                           /\ ItemAt(data, S(k)) = items[k]
                           /\ S(k) + 1 + items[k].len = S(k + 1)
  BY <1>0 DEF WholeSound
<1>2. W(P)
  <2>1. \E f : W(f)
    BY ParseExists
  <2>2. P = CHOOSE f : W(f)
    BY DEF Parses
  <2> HIDE DEF P
  <2> QED
    BY <2>1, <2>2
<1>3. \A cp \in 1 .. Len(data) + 1 : P[cp] = ParseAt(P, data, cp)
  BY <1>2
<1> HIDE DEF P, S, W, n
<1>4. Finds(0)
  <2>1. n + 1 - 0 = n + 1 /\ Len(data) + 1 \in 1 .. Len(data) + 1 /\ Len(data) + 1 > Len(data)
    BY <1>1
  <2>2. P[S(n + 1)] = <<>>
    BY <1>1, <1>3, <2>1 DEF ParseAt
  <2>3. SubSeq(items, n + 1, n) = <<>>
    BY <1>1, SubSeqEmpty
  <2> QED
    BY <2>1, <2>2, <2>3
<1>5. ASSUME NEW j \in 1 .. n, Finds(j - 1) PROVE Finds(j)
  <2> DEFINE k == n + 1 - j
  <2>1. k \in 1 .. n /\ n + 1 - (j - 1) = k + 1 /\ k + 1 \in Nat /\ k \in Nat
    BY <1>1
  <2> HIDE DEF k
  <2>2. P[S(k + 1)] = SubSeq(items, k + 1, n)
    BY <1>5, <2>1
  <2>3. /\ S(k) \in 1 .. Len(data) /\ Of(data, S(k)) = {k} /\ ItemAt(data, S(k)) = items[k]
        /\ S(k) + 1 + items[k].len = S(k + 1)
    BY <1>1, <2>1
  <2>4. S(k) \in 1 .. Len(data) + 1 /\ ~(S(k) > Len(data))
    BY <1>1, <2>3
  <2>5. P[S(k)] = <<items[k]>> \o P[S(k + 1)]
    BY <1>3, <2>3, <2>4 DEF ParseAt
  <2>6. <<items[k]>> \o SubSeq(items, k + 1, n) = SubSeq(items, k, n)
    <3>1. n \in k .. Len(items) /\ k \in 1 .. Len(items)
      BY <1>1, <2>1 DEF n
    <3> QED
      BY <1>1, <3>1, SubSeqRecursiveFirst
  <2> QED
    BY <2>2, <2>5, <2>6 DEF k
<1> HIDE DEF Finds
<1>6. ASSUME bad # {} PROVE FALSE
  <2>1. bad \in SUBSET Nat
    BY <1>1
  <2>2. PICK j \in bad : \A x \in bad : j <= x
    BY <1>6, <2>1, LeastExists
  <2>3. j # 0
    BY <1>4, <2>2
  <2>4. j - 1 \in 0 .. n /\ j - 1 \notin bad /\ j \in 1 .. n
    BY <1>1, <2>2, <2>3
  <2>5. Finds(j)
    BY <1>5, <2>4
  <2> QED
    BY <2>2, <2>5
<1>7. Finds(n)
  <2>1. n \in 0 .. n
    BY <1>1
  <2> QED
    BY <1>6, <2>1
<1>8. P[S(1)] = items
  <2>1. n + 1 - n = 1
    BY <1>1
  <2>2. SubSeq(items, 1, n) = items
    BY <1>1 DEF n
  <2> QED
    BY <1>7, <2>1, <2>2 DEF Finds
<1>9. S(1) = Header + 1
  BY <1>1, StartIs DEF S, Header
<1> QED
  BY <1>8, <1>9, ParseReads DEF P

(* The recursion of FlattenSeq. *)
FlattenAt(f, seqs, i) == IF i = 1 THEN seqs[i] ELSE f[i - 1] \o seqs[i]
Flattens(seqs) == CHOOSE f : f = [i \in 1 .. Len(seqs) |-> FlattenAt(f, seqs, i)]

LEMMA FlattenReads ==
  \A seqs : FlattenSeq(seqs) = IF Len(seqs) = 0 THEN seqs ELSE Flattens(seqs)[Len(seqs)]
BY DEF FlattenSeq, Flattens, FlattenAt

(* The sequences of seqs are cut from b, one behind the other, the k-th up to p[k]. *)
Cut(b, seqs, p) ==
  /\ Len(seqs) \in Nat /\ p \in [0 .. Len(seqs) -> Nat]
  /\ \A k \in 0 .. Len(seqs) : p[0] <= p[k] /\ p[k] <= Len(b)
  /\ \A k \in 1 .. Len(seqs) : p[k - 1] <= p[k] /\ seqs[k] = SubSeq(b, p[k - 1] + 1, p[k])

LEMMA CutJoins ==
  ASSUME NEW S, NEW b \in Seq(S), NEW seqs, NEW p, Cut(b, seqs, p), NEW k \in 1 .. Len(seqs)
  PROVE  SubSeq(b, p[0] + 1, p[k - 1]) \o seqs[k] = SubSeq(b, p[0] + 1, p[k])
<1>1. Len(seqs) \in Nat /\ Len(b) \in Nat
  BY LenProperties DEF Cut
<1>2. k - 1 \in 0 .. Len(seqs) /\ k \in 0 .. Len(seqs) /\ 0 \in 0 .. Len(seqs)
  BY <1>1
<1>3. /\ p[0] \in Nat /\ p[k - 1] \in Nat /\ p[k] \in Nat /\ p[0] <= p[k - 1] /\ p[k - 1] <= p[k]
      /\ p[k] <= Len(b) /\ seqs[k] = SubSeq(b, p[k - 1] + 1, p[k])
  BY <1>2 DEF Cut
<1> DEFINE m == p[0] + 1
           j == p[k - 1]
           i == p[k]
<1>4. m \in 1 .. Len(b) + 1 /\ j \in m - 1 .. Len(b) /\ i \in j .. Len(b)
  <2>1. ASSUME NEW n \in Nat, NEW x \in Nat, NEW y \in Nat, NEW z \in Nat,
               x <= y, y <= z, z <= n
        PROVE  x + 1 \in 1 .. n + 1 /\ y \in (x + 1) - 1 .. n /\ z \in y .. n
    BY <2>1
  <2> QED
    BY <1>1, <1>3, <2>1
<1> HIDE DEF m, j, i
<1>5. SubSeq(b, m, j) \o SubSeq(b, j + 1, i) = SubSeq(b, m, i)
  BY <1>4, ConcatAdjacentSubSeq
<1> QED
  BY <1>3, <1>5 DEF m, j, i

LEMMA FlattenExists ==
  ASSUME NEW S, NEW b \in Seq(S), NEW seqs, NEW p, Cut(b, seqs, p)
  PROVE  \E f : f = [i \in 1 .. Len(seqs) |-> FlattenAt(f, seqs, i)]
<1> DEFINE f == [i \in 1 .. Len(seqs) |-> SubSeq(b, p[0] + 1, p[i])]
<1>1. Len(seqs) \in Nat
  BY DEF Cut
<1>2. ASSUME NEW i \in 1 .. Len(seqs) PROVE f[i] = FlattenAt(f, seqs, i)
  <2>1. CASE i = 1
    <3>1. 1 - 1 = 0
      OBVIOUS
    <3>2. seqs[i] = SubSeq(b, p[i - 1] + 1, p[i])
      BY DEF Cut
    <3> QED
      BY <2>1, <3>1, <3>2 DEF FlattenAt
  <2>2. CASE i # 1
    <3>1. i - 1 \in 1 .. Len(seqs)
      BY <1>1, <2>2
    <3>2. f[i - 1] = SubSeq(b, p[0] + 1, p[i - 1]) /\ f[i] = SubSeq(b, p[0] + 1, p[i])
      BY <3>1
    <3>3. SubSeq(b, p[0] + 1, p[i - 1]) \o seqs[i] = SubSeq(b, p[0] + 1, p[i])
      BY CutJoins
    <3> HIDE DEF f
    <3> QED
      BY <2>2, <3>2, <3>3 DEF FlattenAt
  <2> QED
    BY <2>1, <2>2
<1>3. f = [i \in 1 .. Len(seqs) |-> f[i]]
  OBVIOUS
<1> HIDE DEF f
<1>4. f = [i \in 1 .. Len(seqs) |-> FlattenAt(f, seqs, i)]
  BY <1>2, <1>3
<1> QED
  BY <1>4

(* Joined, they are what they were cut from. *)
LEMMA FlattenIs ==
  ASSUME NEW S, NEW b \in Seq(S), NEW seqs, NEW p, Cut(b, seqs, p), Len(seqs) = 0 => seqs = <<>>
  PROVE  FlattenSeq(seqs) = SubSeq(b, p[0] + 1, p[Len(seqs)])
<1> DEFINE n == Len(seqs)
           F == Flattens(seqs)
           W(f) == f = [i \in 1 .. n |-> FlattenAt(f, seqs, i)]
           Joined(i) == F[i] = SubSeq(b, p[0] + 1, p[i])
           bad == {i \in 1 .. n : ~Joined(i)}
<1>1. n \in Nat /\ p[0] \in Nat
  BY DEF Cut
<1>2. CASE n = 0
  <2>1. SubSeq(b, p[0] + 1, p[0]) = <<>>
    BY <1>1, SubSeqEmpty
  <2> QED
    BY <1>2, <2>1, FlattenReads
<1>3. CASE n # 0
  <2>1. W(F)
    <3>1. \E f : W(f)
      BY FlattenExists
    <3>2. F = CHOOSE f : W(f)
      BY DEF Flattens
    <3> HIDE DEF F
    <3> QED
      BY <3>1, <3>2
  <2>2. \A i \in 1 .. n : F[i] = FlattenAt(F, seqs, i)
    BY <2>1
  <2> HIDE DEF F, W
  <2>3. Joined(1)
    <3>1. 1 \in 1 .. n /\ 1 - 1 = 0
      BY <1>1, <1>3
    <3>2. seqs[1] = SubSeq(b, p[1 - 1] + 1, p[1])
      BY <3>1 DEF Cut
    <3> QED
      BY <2>2, <3>1, <3>2 DEF FlattenAt
  <2>4. ASSUME NEW i \in 1 .. n, i # 1, Joined(i - 1) PROVE Joined(i)
    <3>1. SubSeq(b, p[0] + 1, p[i - 1]) \o seqs[i] = SubSeq(b, p[0] + 1, p[i])
      BY CutJoins
    <3> QED
      BY <2>2, <2>4, <3>1 DEF FlattenAt
  <2> HIDE DEF Joined
  <2>5. ASSUME bad # {} PROVE FALSE
    <3>1. bad \in SUBSET Nat
      BY <1>1
    <3>2. PICK i \in bad : \A x \in bad : i <= x
      BY <2>5, <3>1, LeastExists
    <3>3. i # 1 /\ i \in 1 .. n
      BY <2>3, <3>2
    <3>4. i - 1 \in 1 .. n /\ i - 1 \notin bad
      BY <1>1, <3>2, <3>3
    <3>5. Joined(i - 1)
      BY <3>4
    <3>6. Joined(i)
      BY <2>4, <3>3, <3>5
    <3> QED
      BY <3>2, <3>6
  <2>6. n \in 1 .. n
    BY <1>1, <1>3
  <2>7. Joined(n)
    BY <2>5, <2>6
  <2>8. F[n] = SubSeq(b, p[0] + 1, p[n])
    BY <2>7 DEF Joined
  <2> QED
    BY <1>3, <2>8, FlattenReads DEF F
<1> QED
  BY <1>2, <1>3

Unit == (Nat \X Nat) \cup {Junk}

(* The last n of the messages s lie in b one behind the other, from a to t, the *)
(* k-th of them up to p[k].                                                     *)
InBuffer(b, a, t, s, n, p) ==
  /\ p \in [0 .. n -> Nat] /\ p[0] = a /\ p[n] = t
  /\ \A j, k \in 0 .. n : j < k => p[j] < p[k]
  /\ \A k \in 1 .. n :
       /\ p[k] = p[k - 1] + Size(s[Len(s) - n + k])
       /\ \A j \in 1 .. Size(s[Len(s) - n + k]) : b[p[k - 1] + j] = <<Len(s) - n + k, j>>

BufferTypes ==
  /\ buf \in Seq(Unit) /\ idx \in Nat /\ top \in Nat /\ nmsg \in Nat
  /\ sent \in Seq(Sendable) /\ nmsg <= Len(sent)
  /\ top <= Len(buf) /\ (buf = <<>> \/ InitialSize <= Len(buf))

BufferSound == BufferTypes /\ \E p : InBuffer(buf, idx, top, sent, nmsg, p)

(* What follows for the k-th of the messages, number m, in units p[k - 1] + 1 to p[k]. *)
Message(k, m, p) ==
  /\ m = Len(sent) - nmsg + k /\ m \in Nat /\ m \in 1 .. Len(sent) /\ sent[m] \in Sendable
  /\ k \in 0 .. nmsg /\ k - 1 \in 0 .. nmsg
  /\ p[k - 1] \in Nat /\ p[k] \in Nat /\ p[k] = p[k - 1] + Size(sent[m])
  /\ Size(sent[m]) \in Nat /\ 1 <= Size(sent[m])
  /\ idx <= p[k - 1] /\ p[k] <= top /\ top <= Len(buf)
  /\ \A j \in 1 .. Size(sent[m]) : buf[p[k - 1] + j] = <<m, j>>

LEMMA PlacesAre ==
  ASSUME BufferTypes, NEW p, InBuffer(buf, idx, top, sent, nmsg, p)
  PROVE  \A k \in 0 .. nmsg : p[k] \in Nat /\ idx <= p[k] /\ p[k] <= top
<1>1. nmsg \in Nat /\ idx \in Nat /\ top \in Nat
  BY DEF BufferTypes
<1>2. p \in [0 .. nmsg -> Nat] /\ p[0] = idx /\ p[nmsg] = top
      /\ \A j, k \in 0 .. nmsg : j < k => p[j] < p[k]
  BY DEF InBuffer
<1>3. TAKE k \in 0 .. nmsg
<1>4. 0 \in 0 .. nmsg /\ nmsg \in 0 .. nmsg /\ (k = 0 \/ 0 < k) /\ (k = nmsg \/ k < nmsg)
  BY <1>1
<1>5. p[k] \in Nat /\ (k = 0 \/ p[0] < p[k]) /\ (k = nmsg \/ p[k] < p[nmsg])
  BY <1>2, <1>4
<1> QED
  BY <1>1, <1>2, <1>5

LEMMA MessageIs ==
  ASSUME BufferTypes, NEW p, InBuffer(buf, idx, top, sent, nmsg, p), NEW k \in 1 .. nmsg
  PROVE  Message(k, Len(sent) - nmsg + k, p)
<1> DEFINE m == Len(sent) - nmsg + k
<1>1. nmsg \in Nat /\ Len(sent) \in Nat /\ nmsg <= Len(sent) /\ sent \in Seq(Sendable)
  BY LenProperties DEF BufferTypes
<1>2. m \in Nat /\ m \in 1 .. Len(sent) /\ k \in 0 .. nmsg /\ k - 1 \in 0 .. nmsg
  BY <1>1
<1>3. p[k] = p[k - 1] + Size(sent[m]) /\ \A j \in 1 .. Size(sent[m]) : buf[p[k - 1] + j] = <<m, j>>
  BY DEF InBuffer
<1> HIDE DEF m
<1>4. sent[m] \in Sendable
  BY <1>1, <1>2, ElementOfSeq
<1>5. Size(sent[m]) \in Nat /\ 1 <= Size(sent[m])
  BY <1>4, SizeIs
<1>6. p[k - 1] \in Nat /\ p[k] \in Nat /\ idx <= p[k - 1] /\ p[k] <= top
  BY <1>2, PlacesAre
<1>7. top <= Len(buf)
  BY DEF BufferTypes
<1> QED
  BY <1>2, <1>3, <1>4, <1>5, <1>6, <1>7 DEF Message, m

LEMMA BufferBegins == ASSUME BufferInit PROVE BufferSound
<1> DEFINE p == [k \in 0 .. 0 |-> 0]
<1>1. buf = <<>> /\ idx = 0 /\ top = 0 /\ nmsg = 0 /\ sent = <<>>
  BY DEF BufferInit
<1>2. <<>> \in Seq(Unit) /\ <<>> \in Seq(Sendable) /\ Len(<<>>) = 0 /\ 1 .. 0 = {}
  OBVIOUS
<1>3. BufferTypes
  BY <1>1, <1>2 DEF BufferTypes
<1>4. p \in [0 .. 0 -> Nat] /\ p[0] = 0 /\ \A j, k \in 0 .. 0 : ~(j < k)
  OBVIOUS
<1> HIDE DEF p
<1>5. InBuffer(buf, idx, top, sent, nmsg, p)
  BY <1>1, <1>2, <1>4 DEF InBuffer
<1> QED
  BY <1>3, <1>5 DEF BufferSound

LEMMA HoldsThem == ASSUME BufferSound PROVE HoldsTheUnread
<1>1. PICK p : InBuffer(buf, idx, top, sent, nmsg, p)
  BY DEF BufferSound
<1>2. BufferTypes
  BY DEF BufferSound
<1>3. nmsg \in Nat /\ buf \in Seq(Unit) /\ Len(buf) \in Nat
      /\ top <= Len(buf) /\ top \in Nat /\ idx \in Nat
  BY <1>2, LenProperties DEF BufferTypes
<1>4. p \in [0 .. nmsg -> Nat] /\ p[0] = idx /\ p[nmsg] = top
  BY <1>1 DEF InBuffer
<1> DEFINE e(k) == LET m == Len(sent) - nmsg + k IN Units(m, sent[m])
<1>5. Unread = [k \in 1 .. nmsg |-> e(k)]
  BY DEF Unread
<1> HIDE DEF e
<1>6. Len(Unread) = nmsg /\ \A k \in 1 .. nmsg : Unread[k] = e(k)
  BY <1>3, <1>5
<1>7. nmsg = 0 => Unread = <<>>
  BY <1>3, <1>5
<1>8. ASSUME NEW k \in 1 .. nmsg
      PROVE  p[k - 1] <= p[k] /\ Unread[k] = SubSeq(buf, p[k - 1] + 1, p[k])
  <2> DEFINE m == Len(sent) - nmsg + k
             x == SubSeq(buf, p[k - 1] + 1, p[k])
             u == Units(m, sent[m])
             z == Size(sent[m])
  <2>1. Message(k, m, p)
    BY <1>1, <1>2, MessageIs
  <2>2. u = [j \in 1 .. z |-> <<m, j>>] /\ u \in Seq(Nat \X Nat) /\ Len(u) = z
    BY <2>1, UnitsAre DEF Message
  <2>3. e(k) = u
    BY DEF e
  <2> HIDE DEF m, u, z
  <2>4. p[k - 1] \in Nat /\ p[k] \in Nat /\ p[k] = p[k - 1] + z /\ z \in Nat /\ 1 <= z
        /\ \A j \in 1 .. z : buf[p[k - 1] + j] = <<m, j>>
    BY <2>1 DEF Message, z
  <2>5. m \in Nat
    BY <2>1 DEF Message
  <2>6. \A i \in p[k - 1] + 1 .. p[k] : buf[i] \in Nat \X Nat
    <3> TAKE i \in p[k - 1] + 1 .. p[k]
    <3> DEFINE j == i - p[k - 1]
    <3>1. j \in 1 .. z /\ p[k - 1] + j = i /\ j \in Nat
      BY <2>4
    <3>2. buf[i] = <<m, j>>
      BY <2>4, <3>1
    <3> QED
      BY <2>5, <3>1, <3>2
  <2>7. p[k - 1] + 1 \in Int /\ p[k] \in Int
    BY <2>4
  <2>8. /\ x \in Seq(Nat \X Nat)
        /\ Len(x) = IF p[k - 1] + 1 <= p[k] THEN p[k] - (p[k - 1] + 1) + 1 ELSE 0
        /\ \A i \in 1 .. p[k] - (p[k - 1] + 1) + 1 : x[i] = buf[(p[k - 1] + 1) + i - 1]
    BY <2>6, <2>7, SubSeqProperties
  <2> HIDE DEF x
  <2>9. Len(x) = z
    BY <2>4, <2>8
  <2>10. \A i \in 1 .. Len(u) : u[i] = x[i]
    <3> TAKE i \in 1 .. Len(u)
    <3>1. i \in 1 .. z
      BY <2>2
    <3>2. i \in 1 .. p[k] - (p[k - 1] + 1) + 1 /\ (p[k - 1] + 1) + i - 1 = p[k - 1] + i
      BY <2>4, <3>1
    <3>3. x[i] = buf[p[k - 1] + i]
      BY <2>8, <3>2
    <3> QED
      BY <2>2, <2>4, <3>1, <3>3
  <2>11. u = x
    BY <2>2, <2>8, <2>9, <2>10, SeqEqual
  <2>12. p[k - 1] <= p[k]
    BY <2>4
  <2> QED
    BY <1>6, <2>3, <2>11, <2>12 DEF x
<1>9. \A k \in 0 .. nmsg : p[0] <= p[k] /\ p[k] <= Len(buf)
  <2> TAKE k \in 0 .. nmsg
  <2>1. p[k] \in Nat /\ idx <= p[k] /\ p[k] <= top
    BY <1>1, <1>2, PlacesAre
  <2> QED
    BY <1>3, <1>4, <2>1
<1>10. Cut(buf, Unread, p)
  BY <1>3, <1>4, <1>6, <1>8, <1>9 DEF Cut
<1>11. FlattenSeq(Unread) = SubSeq(buf, p[0] + 1, p[Len(Unread)])
  BY <1>3, <1>6, <1>7, <1>10, FlattenIs
<1> QED
  BY <1>4, <1>6, <1>11 DEF HoldsTheUnread

(* msg_recv reads the size of the oldest message, and the whole of it. *)
LEMMA OldestIsRead ==
  ASSUME BufferTypes, NEW p, InBuffer(buf, idx, top, sent, nmsg, p), nmsg > 0,
         NEW m, m = Len(sent) - nmsg + 1
  PROVE  SizesAt(idx + 1) = {Size(sent[m])} /\ Received(Size(sent[m])) = sent[m]
<1> DEFINE z == Size(sent[m])
           data == [j \in 1 .. z |-> IF idx + j <= Len(buf) THEN buf[idx + j] ELSE Junk]
<1>1. nmsg \in Nat /\ 1 \in 1 .. nmsg /\ 1 - 1 = 0 /\ idx \in Nat /\ top \in Nat /\ Len(buf) \in Nat
  BY LenProperties DEF BufferTypes
<1>2. Message(1, m, p)
  BY <1>1, MessageIs
<1>3. p[0] = idx
  BY DEF InBuffer
<1>4. /\ m \in Nat /\ sent[m] \in Sendable /\ z \in Nat /\ 1 <= z /\ p[1] = idx + z /\ p[1] <= top
      /\ top <= Len(buf) /\ \A j \in 1 .. z : buf[idx + j] = <<m, j>>
  BY <1>1, <1>2, <1>3 DEF Message
<1> HIDE DEF z
<1>5. \A j \in 1 .. z : idx + j <= Len(buf)
  BY <1>1, <1>4
<1>6. SizesAt(idx + 1) = {z}
  <2>1. 1 \in 1 .. z /\ idx + 1 <= Len(buf) /\ buf[idx + 1] = <<m, 1>>
    BY <1>4, <1>5
  <2>2. <<m, 1>> \in Nat \X Nat
    BY <1>4
  <2>3. buf[idx + 1] # Junk
    BY <2>1, <2>2, BufferAssumption
  <2>4. buf[idx + 1][2] = 1 /\ buf[idx + 1][1] = m
    BY <2>1
  <2> QED
    BY <2>1, <2>3, <2>4 DEF SizesAt, z
<1>7. data = [j \in 1 .. z |-> <<m, j>>]
  BY <1>4, <1>5
<1>8. Whole(data, m)
  <2> HIDE DEF data
  <2> QED
    BY <1>4, <1>7 DEF Whole, z
<1>9. Parse(data) = sent[m]
  <2> HIDE DEF data
  <2> QED
    BY <1>8, ParseIs
<1>10. Received(z) = sent[m]
  BY <1>9 DEF Received
<1> QED
  BY <1>6, <1>10 DEF z

LEMMA RecvKeeps ==
  ASSUME BufferSound, thread_msg_recv
  PROVE  BufferSound' /\ taken' = sent[Len(sent) - nmsg + 1] /\ nmsg' < nmsg
<1>1. PICK p : InBuffer(buf, idx, top, sent, nmsg, p)
  BY DEF BufferSound
<1>2. BufferTypes
  BY DEF BufferSound
<1> DEFINE m == Len(sent) - nmsg + 1
           z == Size(sent[m])
           n == nmsg - 1
<1>3. nmsg > 0 /\ nmsg' = n /\ buf' = buf /\ sent' = sent
  BY DEF thread_msg_recv
<1>4. SizesAt(idx + 1) = {z} /\ Received(z) = sent[m]
  BY <1>1, <1>2, <1>3, OldestIsRead
<1>5. taken' = sent[m]
      /\ IF idx + z = top THEN idx' = 0 /\ top' = 0 ELSE idx' = idx + z /\ top' = top
  BY <1>4 DEF thread_msg_recv
<1>6. /\ nmsg \in Nat /\ n \in Nat /\ idx \in Nat /\ top \in Nat /\ Len(sent) \in Nat /\ Len(buf) \in Nat
      /\ nmsg <= Len(sent) /\ top <= Len(buf) /\ 1 \in 1 .. nmsg /\ 1 - 1 = 0 /\ n < nmsg /\ nmsg = n + 1
  BY <1>2, <1>3, LenProperties DEF BufferTypes
<1>7. p \in [0 .. nmsg -> Nat] /\ p[0] = idx /\ p[nmsg] = top
      /\ \A j, k \in 0 .. nmsg : j < k => p[j] < p[k]
  BY <1>1 DEF InBuffer
<1>8. p[1] = idx + z /\ z \in Nat /\ 1 <= z /\ p[1] <= top
  <2>1. Message(1, m, p)
    BY <1>1, <1>2, <1>6, MessageIs
  <2> QED
    BY <1>6, <1>7, <2>1 DEF Message
<1>9. idx + z = top <=> n = 0
  <2>1. 1 \in 0 .. nmsg /\ nmsg \in 0 .. nmsg /\ (nmsg = 1 \/ 1 < nmsg)
    BY <1>6
  <2>2. p[1] \in Nat /\ (nmsg = 1 \/ p[1] < p[nmsg])
    BY <1>7, <2>1
  <2> QED
    BY <1>6, <1>7, <1>8, <2>2
<1> HIDE DEF z, n
<1>10. idx' \in Nat /\ top' \in Nat /\ top' <= Len(buf)
  BY <1>5, <1>6, <1>8
<1>11. BufferTypes'
  <2>1. buf \in Seq(Unit) /\ sent \in Seq(Sendable) /\ (buf = <<>> \/ InitialSize <= Len(buf))
    BY <1>2 DEF BufferTypes
  <2>2. n <= Len(sent)
    BY <1>6
  <2> QED
    BY <1>3, <1>6, <1>10, <2>1, <2>2 DEF BufferTypes
<1>12. CASE n = 0
  <2> DEFINE r == [k \in 0 .. 0 |-> 0]
  <2>1. idx' = 0 /\ top' = 0 /\ nmsg' = 0
    BY <1>3, <1>5, <1>9, <1>12
  <2>2. r \in [0 .. 0 -> Nat] /\ r[0] = 0 /\ (\A j, k \in 0 .. 0 : ~(j < k)) /\ 1 .. 0 = {}
    OBVIOUS
  <2> HIDE DEF r
  <2>3. InBuffer(buf', idx', top', sent', nmsg', r)
    BY <2>1, <2>2 DEF InBuffer
  <2>4. \E x : InBuffer(buf', idx', top', sent', nmsg', x)
    BY <2>3
  <2>5. BufferSound'
    BY <1>11, <2>4 DEF BufferSound
  <2> QED
    BY <1>3, <1>5, <1>6, <2>5
<1>13. CASE n # 0
  <2> DEFINE r == [k \in 0 .. n |-> p[k + 1]]
  <2>1. idx' = idx + z /\ top' = top
    BY <1>5, <1>9, <1>13
  <2>2. \A k \in 0 .. n : k + 1 \in 0 .. nmsg /\ r[k] = p[k + 1] /\ r[k] \in Nat
    <3> TAKE k \in 0 .. n
    <3>1. k + 1 \in 0 .. nmsg
      BY <1>6
    <3> QED
      BY <1>7, <3>1
  <2>3. r \in [0 .. n -> Nat]
    BY <2>2
  <2> HIDE DEF r
  <2>4. r[0] = idx' /\ r[n] = top'
    <3>1. 0 \in 0 .. n /\ n \in 0 .. n /\ 0 + 1 = 1 /\ n + 1 = nmsg
      BY <1>6
    <3> QED
      BY <1>7, <1>8, <2>1, <2>2, <3>1
  <2>5. \A j, k \in 0 .. n : j < k => r[j] < r[k]
    <3> SUFFICES ASSUME NEW j \in 0 .. n, NEW k \in 0 .. n, j < k PROVE r[j] < r[k]
      OBVIOUS
    <3>1. j + 1 \in 0 .. nmsg /\ k + 1 \in 0 .. nmsg /\ j + 1 < k + 1
      BY <2>2
    <3> QED
      BY <1>7, <2>2, <3>1
  <2>6. ASSUME NEW k \in 1 .. n
        PROVE  /\ r[k] = r[k - 1] + Size(sent[Len(sent) - n + k])
               /\ \A j \in 1 .. Size(sent[Len(sent) - n + k]) : buf[r[k - 1] + j] = <<Len(sent) - n + k, j>>
    <3>1. /\ k \in 0 .. n /\ k - 1 \in 0 .. n /\ k + 1 \in 1 .. nmsg /\ (k - 1) + 1 = k /\ (k + 1) - 1 = k
          /\ Len(sent) - nmsg + (k + 1) = Len(sent) - n + k
      BY <1>6
    <3>2. r[k] = p[k + 1] /\ r[k - 1] = p[k]
      BY <2>2, <3>1
    <3>3. Message(k + 1, Len(sent) - nmsg + (k + 1), p)
      BY <1>1, <1>2, <3>1, MessageIs
    <3> QED
      BY <3>1, <3>2, <3>3 DEF Message
  <2>7. InBuffer(buf', idx', top', sent', nmsg', r)
    BY <1>3, <2>3, <2>4, <2>5, <2>6 DEF InBuffer
  <2>8. \E x : InBuffer(buf', idx', top', sent', nmsg', x)
    BY <2>7
  <2>9. BufferSound'
    BY <1>11, <2>8 DEF BufferSound
  <2> QED
    BY <1>3, <1>5, <1>6, <2>9
<1> QED
  BY <1>12, <1>13

(* A message is copied behind the others, to a buffer with room for it. *)
LEMMA CopyInKeeps ==
  ASSUME BufferSound, NEW items \in Sendable, NEW b \in Seq(Unit),
         \A i \in 1 .. top : b[i] = buf[i],
         top + Size(items) <= Len(b), InitialSize <= Len(b),
         CopyIn(items, b, top), idx' = idx
  PROVE  BufferSound' /\ nmsg' > nmsg
<1>1. PICK p : InBuffer(buf, idx, top, sent, nmsg, p)
  BY DEF BufferSound
<1>2. BufferTypes
  BY DEF BufferSound
<1> DEFINE z == Size(items)
           m == Len(sent) + 1
           u == Units(m, items)
           last == top + z
           n == nmsg + 1
           r == [k \in 0 .. n |-> IF k <= nmsg THEN p[k] ELSE last]
<1>3. /\ nmsg \in Nat /\ idx \in Nat /\ top \in Nat /\ Len(sent) \in Nat /\ Len(b) \in Nat
      /\ nmsg <= Len(sent) /\ sent \in Seq(Sendable)
  BY <1>2, LenProperties DEF BufferTypes
<1>4. z \in Nat /\ 1 <= z /\ m \in Nat /\ last \in Nat /\ last <= Len(b) /\ n \in Nat /\ last > top
  BY <1>3, SizeIs
<1>5. u = [j \in 1 .. z |-> <<m, j>>] /\ Len(u) = z
  BY <1>4, UnitsAre
<1>6. buf' = Write(b, top, u) /\ top' = last /\ nmsg' = n /\ sent' = Append(sent, items)
  BY DEF CopyIn
<1>7. p \in [0 .. nmsg -> Nat] /\ p[0] = idx /\ p[nmsg] = top
      /\ \A j, k \in 0 .. nmsg : j < k => p[j] < p[k]
  BY <1>1 DEF InBuffer
<1>8. /\ sent' \in Seq(Sendable) /\ Len(sent') = m /\ sent'[m] = items
      /\ \A k \in 1 .. Len(sent) : sent'[k] = sent[k]
  BY <1>3, <1>6, AppendProperties
<1> HIDE DEF u, z
<1>9. buf' = [i \in 1 .. Len(b) |-> IF i \in top + 1 .. top + z THEN u[i - top] ELSE b[i]]
  BY <1>5, <1>6 DEF Write
<1>10. \A i \in 1 .. top : buf'[i] = buf[i]
  <2> TAKE i \in 1 .. top
  <2>1. i \in 1 .. Len(b) /\ i \notin top + 1 .. top + z
    BY <1>3, <1>4
  <2> QED
    BY <1>9, <2>1
<1>11. \A j \in 1 .. z : buf'[top + j] = <<m, j>>
  <2> TAKE j \in 1 .. z
  <2>1. top + j \in 1 .. Len(b) /\ top + j \in top + 1 .. top + z /\ (top + j) - top = j
    BY <1>3, <1>4
  <2>2. buf'[top + j] = u[(top + j) - top]
    BY <1>9, <2>1
  <2> QED
    BY <1>5, <2>1, <2>2
<1>12. buf' \in Seq(Unit) /\ Len(buf') = Len(b)
  <2>1. ASSUME NEW i \in 1 .. Len(b) PROVE buf'[i] \in Unit
    <3>1. CASE i \in top + 1 .. top + z
      <4>1. i - top \in 1 .. z /\ i - top \in Nat
        BY <1>3, <1>4, <3>1
      <4>2. buf'[i] = <<m, i - top>>
        BY <1>5, <1>9, <3>1, <4>1
      <4> QED
        BY <1>4, <4>1, <4>2 DEF Unit
    <3>2. CASE i \notin top + 1 .. top + z
      <4>1. buf'[i] = b[i]
        BY <1>9, <3>2
      <4> QED
        BY <4>1, ElementOfSeq
    <3> QED
      BY <3>1, <3>2
  <2>2. buf' = [i \in 1 .. Len(b) |-> buf'[i]]
    BY <1>9
  <2> QED
    BY <1>3, <2>1, <2>2
<1>13. BufferTypes'
  <2>1. n <= m
    BY <1>3
  <2> QED
    BY <1>3, <1>4, <1>6, <1>8, <1>12, <2>1 DEF BufferTypes
<1> HIDE DEF last
<1>14. \A k \in 0 .. nmsg : k \in 0 .. n /\ r[k] = p[k] /\ p[k] \in Nat /\ p[k] <= top
  <2> TAKE k \in 0 .. nmsg
  <2>1. k \in 0 .. n /\ k <= nmsg
    BY <1>3
  <2>2. p[k] \in Nat /\ p[k] <= top
    BY <1>1, <1>2, PlacesAre
  <2> QED
    BY <2>1, <2>2
<1>15. r[n] = last /\ r[0] = idx /\ r \in [0 .. n -> Nat]
  <2>1. n \in 0 .. n /\ ~(n <= nmsg) /\ 0 \in 0 .. nmsg
    BY <1>3
  <2>2. r[n] = last
    BY <2>1
  <2>3. r[0] = idx
    BY <1>7, <1>14, <2>1
  <2>4. \A k \in 0 .. n : k \in 0 .. nmsg \/ k = n
    BY <1>3
  <2>5. \A k \in 0 .. n : r[k] \in Nat
    BY <1>4, <1>14, <2>2, <2>4
  <2> QED
    BY <2>2, <2>3, <2>5
<1> HIDE DEF r
<1>16. \A j, k \in 0 .. n : j < k => r[j] < r[k]
  <2> SUFFICES ASSUME NEW j \in 0 .. n, NEW k \in 0 .. n, j < k PROVE r[j] < r[k]
    OBVIOUS
  <2>1. j \in 0 .. nmsg /\ (k \in 0 .. nmsg \/ k = n)
    BY <1>3
  <2>2. CASE k \in 0 .. nmsg
    BY <1>7, <1>14, <2>1, <2>2
  <2>3. CASE k = n
    <3>1. r[k] = last
      BY <1>15, <2>3
    <3>2. r[j] = p[j] /\ p[j] \in Nat /\ p[j] <= top
      BY <1>14, <2>1, <2>3
    <3> QED
      BY <1>3, <1>4, <3>1, <3>2
  <2> QED
    BY <2>1, <2>2, <2>3
<1>17. ASSUME NEW k \in 1 .. n
       PROVE  /\ r[k] = r[k - 1] + Size(sent'[m - n + k])
              /\ \A j \in 1 .. Size(sent'[m - n + k]) : buf'[r[k - 1] + j] = <<m - n + k, j>>
  <2>1. CASE k \in 1 .. nmsg
    <3> DEFINE x == Len(sent) - nmsg + k
    <3>1. Message(k, x, p)
      BY <1>1, <1>2, <2>1, MessageIs
    <3>2. m - n + k = x
      BY <1>3, <2>1
    <3> HIDE DEF x
    <3>3. r[k] = p[k] /\ r[k - 1] = p[k - 1] /\ sent'[x] = sent[x]
      BY <1>8, <1>14, <3>1 DEF Message
    <3>4. ASSUME NEW j \in 1 .. Size(sent[x]) PROVE buf'[p[k - 1] + j] = <<x, j>>
      <4>1. p[k - 1] + j \in 1 .. top
        <5>1. p[k - 1] \in Nat /\ p[k - 1] + Size(sent[x]) <= top /\ Size(sent[x]) \in Nat
          BY <3>1 DEF Message
        <5> QED
          BY <1>3, <5>1
      <4>2. buf[p[k - 1] + j] = <<x, j>>
        BY <3>1 DEF Message
      <4> QED
        BY <1>10, <4>1, <4>2
    <3>5. p[k] = p[k - 1] + Size(sent[x])
      BY <3>1 DEF Message
    <3> QED
      BY <3>2, <3>3, <3>4, <3>5
  <2>2. CASE k = n
    <3>1. k - 1 = nmsg /\ nmsg \in 0 .. nmsg /\ m - n + k = m
      BY <1>3, <2>2
    <3>2. r[k - 1] = top /\ r[k] = last /\ sent'[m] = items
      BY <1>7, <1>8, <1>14, <1>15, <2>2, <3>1
    <3> QED
      BY <1>11, <3>1, <3>2 DEF last, z
  <2>3. k \in 1 .. nmsg \/ k = n
    BY <1>3
  <2> QED
    BY <2>1, <2>2, <2>3
<1>18. InBuffer(buf', idx', top', sent', nmsg', r)
  <2> HIDE DEF m, n
  <2>1. Len(sent') = m /\ nmsg' = n /\ idx' = idx /\ top' = last
    BY <1>6, <1>8
  <2> QED
    BY <1>15, <1>16, <1>17, <2>1 DEF InBuffer
<1>19. \E x : InBuffer(buf', idx', top', sent', nmsg', x)
  BY <1>18
<1>20. nmsg' > nmsg
  BY <1>3, <1>6
<1> QED
  BY <1>13, <1>19, <1>20 DEF BufferSound

LEMMA FitsKeeps ==
  ASSUME BufferSound, NEW items \in Sendable, SendFits(items)
  PROVE  BufferSound' /\ nmsg' > nmsg
<1>1. buf \in Seq(Unit) /\ top \in Nat /\ Len(buf) \in Nat /\ (buf = <<>> \/ InitialSize <= Len(buf))
  BY LenProperties DEF BufferSound, BufferTypes
<1>2. Size(items) \in Nat /\ 1 <= Size(items) /\ InitialSize \in Nat
  BY SizeIs
<1>3. top + Size(items) <= Len(buf)
  BY <1>1, <1>2 DEF SendFits, Needed
<1>4. InitialSize <= Len(buf)
  <2>1. Len(buf) # 0
    BY <1>1, <1>2, <1>3
  <2>2. buf # <<>>
    BY <2>1
  <2> QED
    BY <1>1, <2>2
<1>5. CopyIn(items, buf, top) /\ idx' = idx
  BY DEF SendFits
<1> QED
  BY <1>1, <1>3, <1>4, <1>5, CopyInKeeps

LEMMA GrowsKeeps ==
  ASSUME BufferSound, NEW items \in Sendable, SendGrows(items)
  PROVE  BufferSound' /\ nmsg' > nmsg
<1> DEFINE more == IF buf = <<>> THEN InitialSize ELSE Len(buf)
           add == [i \in 1 .. more |-> Junk]
           b == buf \o add
<1>1. /\ buf \in Seq(Unit) /\ top \in Nat /\ Len(buf) \in Nat /\ top <= Len(buf)
      /\ (buf = <<>> \/ InitialSize <= Len(buf))
  BY LenProperties DEF BufferSound, BufferTypes
<1>2. Size(items) \in Nat /\ Size(items) <= InitialSize /\ InitialSize \in Nat
  BY SizeIs
<1>3. CopyIn(items, b, top) /\ idx' = idx
  BY DEF SendGrows
<1>4. more \in Nat /\ InitialSize <= more
  BY <1>1, <1>2
<1> HIDE DEF more
<1>5. add \in Seq(Unit) /\ Len(add) = more
  <2>1. Junk \in Unit
    BY DEF Unit
  <2> QED
    BY <1>4, <2>1
<1> HIDE DEF add
<1>6. /\ b \in Seq(Unit) /\ Len(b) = Len(buf) + Len(add)
      /\ \A i \in 1 .. Len(buf) + Len(add) : b[i] = IF i <= Len(buf) THEN buf[i] ELSE add[i - Len(buf)]
  BY <1>1, <1>5, ConcatProperties
<1> HIDE DEF b
<1>7. \A i \in 1 .. top : b[i] = buf[i]
  <2> TAKE i \in 1 .. top
  <2>1. i \in 1 .. Len(buf) + Len(add) /\ i <= Len(buf)
    BY <1>1, <1>4, <1>5
  <2> QED
    BY <1>6, <2>1
<1>8. top + Size(items) <= Len(b) /\ InitialSize <= Len(b)
  BY <1>1, <1>2, <1>4, <1>5, <1>6
<1> QED
  BY <1>3, <1>6, <1>7, <1>8, CopyInKeeps

LEMMA BufferStays ==
  ASSUME BufferSound, UNCHANGED bufferVars
  PROVE  BufferSound'
<1>1. buf' = buf /\ idx' = idx /\ top' = top /\ nmsg' = nmsg /\ sent' = sent
  BY DEF bufferVars
<1>2. PICK p : InBuffer(buf, idx, top, sent, nmsg, p)
  BY DEF BufferSound
<1>3. BufferTypes'
  BY <1>1 DEF BufferSound, BufferTypes
<1>4. InBuffer(buf', idx', top', sent', nmsg', p)
  BY <1>1, <1>2
<1> QED
  BY <1>3, <1>4 DEF BufferSound

LEMMA BufferGoesOn ==
  ASSUME BufferSound, [GrowingNext]_bufferVars
  PROVE  BufferSound' /\ (nmsg' < nmsg => taken' = sent[Len(sent) - nmsg + 1])
<1>1. CASE thread_msg_recv
  BY <1>1, RecvKeeps
<1>2. CASE UNCHANGED bufferVars
  <2>1. nmsg' = nmsg /\ nmsg \in Nat
    BY <1>2 DEF bufferVars, BufferSound, BufferTypes
  <2> QED
    BY <1>2, <2>1, BufferStays
<1>3. ASSUME NEW items \in Messages, SendInPlace(items) \/ BuildFails(items)
      PROVE  BufferSound' /\ (nmsg' < nmsg => taken' = sent[Len(sent) - nmsg + 1])
  <2>1. CASE UNCHANGED bufferVars
    BY <1>2, <2>1
  <2>2. nmsg \in Nat
    BY DEF BufferSound, BufferTypes
  <2>3. CASE items \in Sendable /\ SendFits(items)
    <3>1. BufferSound' /\ nmsg' > nmsg
      BY <2>3, FitsKeeps
    <3>2. nmsg' \in Nat
      BY <3>1 DEF BufferSound, BufferTypes
    <3> QED
      BY <2>2, <3>1, <3>2
  <2>4. CASE items \in Sendable /\ SendGrows(items)
    <3>1. BufferSound' /\ nmsg' > nmsg
      BY <2>4, GrowsKeeps
    <3>2. nmsg' \in Nat
      BY <3>1 DEF BufferSound, BufferTypes
    <3> QED
      BY <2>2, <3>1, <3>2
  <2> QED
    BY <1>3, <2>1, <2>3, <2>4 DEF SendInPlace, SendFails, BuildFails, Sendable
<1> QED
  BY <1>1, <1>2, <1>3 DEF GrowingNext

LEMMA BufferKeeps == GrowingSpec => []BufferSound
<1>1. BufferInit => BufferSound
  BY BufferBegins
<1>2. BufferSound /\ [GrowingNext]_bufferVars => BufferSound'
  BY BufferGoesOn
<1> QED
  BY <1>1, <1>2, PTL DEF GrowingSpec

(* Until it makes room by moving messages to its front, the buffer of a VM has    *)
(* room for what is copied to it (thread_msg_send).                               *)
THEOREM BufferStaysInside == GrowingSpec => []StaysInside
<1>1. BufferSound => StaysInside
  BY DEF BufferSound, BufferTypes, StaysInside
<1> QED
  BY <1>1, BufferKeeps, PTL

(* Until then, what lies between idx and top are the unread messages, whole and   *)
(* in order.                                                                      *)
THEOREM BufferHoldsTheUnread == GrowingSpec => []HoldsTheUnread
<1>1. BufferSound => HoldsTheUnread
  BY HoldsThem
<1> QED
  BY <1>1, BufferKeeps, PTL

(* Until then, msg_recv returns the items of the oldest message: the walk of      *)
(* thread_msg_parse ends where thread_msg_build ended.                            *)
THEOREM BufferReceivesWhatWasSent == GrowingSpec => ReceivedIsSent
<1>1. BufferSound /\ [GrowingNext]_bufferVars
      => [nmsg' < nmsg => taken' = sent[Len(sent) - nmsg + 1]]_bufferVars
  BY BufferGoesOn
<1> QED
  BY <1>1, BufferKeeps, PTL DEF GrowingSpec, ReceivedIsSent

(* Programs that receive all there is before anything is sent again: idx is 0     *)
(* when they send.                                                                *)
DrainingNext == \/ thread_msg_recv
                \/ \E items \in Messages : (idx = 0 /\ thread_msg_send(items)) \/ BuildFails(items)
DrainingSpec == BufferInit /\ [][DrainingNext]_bufferVars

(* Their buffers never move messages to the front: there is no room before idx    *)
(* (thread_msg_send).                                                             *)
THEOREM DrainedBuffersGrow == DrainingSpec => GrowingSpec
<1>1. BufferSound /\ [DrainingNext]_bufferVars => [GrowingNext]_bufferVars
  <2> SUFFICES ASSUME BufferSound, DrainingNext PROVE GrowingNext
    OBVIOUS
  <2>1. ASSUME NEW items \in Messages, idx = 0, thread_msg_send(items)
        PROVE  SendInPlace(items)
    <3>1. ~SendCompacts(items)
      <4> SUFFICES ASSUME Needed(items), idx >= Missing(items) PROVE FALSE
        BY DEF SendCompacts
      <4>1. items \in Sendable
        BY <2>1 DEF thread_msg_send, Sendable
      <4>2. Size(items) \in Nat /\ top \in Nat /\ Len(buf) \in Nat
        BY <4>1, SizeIs, LenProperties DEF BufferSound, BufferTypes
      <4> QED
        BY <2>1, <4>2 DEF Needed, Missing
    <3> QED
      BY <2>1, <3>1 DEF thread_msg_send, SendInPlace
  <2> QED
    BY <2>1 DEF DrainingNext, GrowingNext
<1>2. BufferSound /\ [DrainingNext]_bufferVars => BufferSound'
  BY <1>1, BufferGoesOn
<1>3. BufferInit => BufferSound
  BY BufferBegins
<1> QED
  BY <1>1, <1>2, <1>3, PTL DEF DrainingSpec, GrowingSpec
=============================================================================
