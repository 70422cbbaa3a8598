-------------------------- MODULE MpscChannelProofs --------------------------
(***************************************************************************)
(* No publication is hidden, no receiver is stranded and disconnection is  *)
(* last, for any number of lanes, any layout of the ready index, any ring  *)
(* and any number of values.                                               *)
(***************************************************************************)
EXTENDS MpscChannel, FiniteSetTheorems, SequenceTheorems, TLAPS

\* A lane that is not in the rotation joins it at the back (queue.push_back).
LEMMA AppendOnce ==
  ASSUME NEW S, NEW s \in Seq(S), NEW e \in S,
         IsInjective(s), e \notin Range(s)
  PROVE  /\ Append(s, e) \in Seq(S) /\ Append(s, e) # << >>
         /\ IsInjective(Append(s, e))
         /\ Range(Append(s, e)) = Range(s) \union {e}
<1> USE DEF IsInjective, Range
<1> DEFINE t == Append(s, e)
<1>1. /\ t \in Seq(S) /\ t # << >> /\ Len(s) \in Nat
      /\ DOMAIN t = 1 .. Len(s) + 1 /\ DOMAIN s = 1 .. Len(s)
      /\ \A i \in 1 .. Len(s) : t[i] = s[i]
      /\ t[Len(s) + 1] = e
  OBVIOUS
<1> HIDE DEF t
<1>2. \A i, j \in DOMAIN t : t[i] = t[j] => i = j
  BY <1>1
<1>3. {t[i] : i \in DOMAIN t} = {s[i] : i \in DOMAIN s} \union {e}
  <2>1. \A i \in DOMAIN t : t[i] \in {s[j] : j \in DOMAIN s} \union {e}
    BY <1>1
  <2>2. \A i \in DOMAIN s : s[i] \in {t[j] : j \in DOMAIN t}
    BY <1>1
  <2>3. e \in {t[j] : j \in DOMAIN t}
    BY <1>1
  <2> QED
    BY <2>1, <2>2, <2>3, ZenonT(30)
<1> QED
  BY <1>1, <1>2, <1>3, Zenon DEF t

\* A lane that keeps its turn returns to the front (queue.push_front).
LEMMA PrependOnce ==
  ASSUME NEW S, NEW s \in Seq(S), NEW e \in S,
         IsInjective(s), e \notin Range(s)
  PROVE  /\ <<e>> \o s \in Seq(S)
         /\ IsInjective(<<e>> \o s)
         /\ Range(<<e>> \o s) = Range(s) \union {e}
<1> USE DEF IsInjective, Range
<1> DEFINE t == <<e>> \o s
<1>1. /\ t \in Seq(S) /\ Len(s) \in Nat
      /\ DOMAIN t = 1 .. Len(s) + 1 /\ DOMAIN s = 1 .. Len(s)
      /\ \A i \in 1 .. Len(s) : t[i + 1] = s[i]
      /\ t[1] = e
  OBVIOUS
<1> HIDE DEF t
<1>2. \A i \in DOMAIN t : i # 1 => i - 1 \in DOMAIN s /\ t[i] = s[i - 1]
  BY <1>1
<1>3. \A i, j \in DOMAIN t : t[i] = t[j] => i = j
  BY <1>1, <1>2
<1>4. {t[i] : i \in DOMAIN t} = {s[i] : i \in DOMAIN s} \union {e}
  <2>1. \A i \in DOMAIN t : t[i] \in {s[j] : j \in DOMAIN s} \union {e}
    BY <1>1, <1>2
  <2>2. \A i \in DOMAIN s : s[i] \in {t[j] : j \in DOMAIN t}
    BY <1>1
  <2>3. e \in {t[j] : j \in DOMAIN t}
    BY <1>1
  <2> QED
    BY <2>1, <2>2, <2>3, ZenonT(30)
<1> QED
  BY <1>1, <1>3, <1>4, Zenon DEF t

\* The front lane leaves the rotation to be polled (queue.pop_front).
LEMMA TailOnce ==
  ASSUME NEW S, NEW s \in Seq(S), s # << >>, IsInjective(s)
  PROVE  /\ Head(s) \in S /\ Head(s) \in Range(s)
         /\ Tail(s) \in Seq(S)
         /\ IsInjective(Tail(s))
         /\ Range(Tail(s)) = Range(s) \ {Head(s)}
<1> USE DEF IsInjective, Range
<1> DEFINE t == Tail(s)
<1>1. /\ t \in Seq(S) /\ Len(s) \in Nat \ {0} /\ s[1] = Head(s) /\ s[1] \in S
      /\ DOMAIN t = 1 .. Len(s) - 1 /\ DOMAIN s = 1 .. Len(s)
      /\ \A i \in 1 .. Len(s) - 1 : t[i] = s[i + 1]
  OBVIOUS
<1> HIDE DEF t
<1>2. \A i \in DOMAIN s : i # 1 => i - 1 \in DOMAIN t /\ t[i - 1] = s[i]
  BY <1>1
<1>3. \A i \in DOMAIN t : i + 1 \in DOMAIN s /\ t[i] = s[i + 1] /\ i \in Int /\ i + 1 # 1
  BY <1>1
<1>4. \A i, j \in DOMAIN t : t[i] = t[j] => i = j
  BY <1>3
<1>5. {t[i] : i \in DOMAIN t} = {s[i] : i \in DOMAIN s} \ {s[1]}
  <2>1. \A i \in DOMAIN t : t[i] \in {s[j] : j \in DOMAIN s} /\ t[i] # s[1]
    BY <1>1, <1>3
  <2>2. \A i \in DOMAIN s : s[i] = s[1] \/ s[i] \in {t[j] : j \in DOMAIN t}
    BY <1>1, <1>2
  <2> QED
    BY <2>1, <2>2
<1>6. s[1] \in {s[i] : i \in DOMAIN s}
  BY <1>1
<1> QED
  BY <1>1, <1>4, <1>5, <1>6, Zenon DEF t

-----------------------------------------------------------------------------
(* The initial states, and what the two sides leave alone. *)

SenderStep(l) == StartSend(l) \/ Sender(l) \/ WakeSenderEarly(l) \/ Drop(l)
ReceiverStep ==
  StartCollect \/ StartPoll \/ Receive \/ WakeReceiverEarly \/ StartDrop \/ ReceiverDrop

\* A new channel satisfies the invariant.
LEMMA InitInv == Init => IInv
<1> SUFFICES ASSUME Init PROVE IInv
  BY Zenon
<1> USE LanesAssumption DEF Init
<1>1. Cardinality(Lanes) \in Nat
  BY FS_CardinalityType
<1>2. active \in Seq(Lanes) /\ DOMAIN active = {}
  OBVIOUS
<1>3. TypeOK
  BY <1>1, <1>2 DEF TypeOK, Tokens, SenderLabels, ReceiverLabels
<1>4. ReceiverInv /\ RotationInv
  BY <1>2, Zenon DEF ReceiverInv, RotationInv, IsInjective, Range, Polling, Collecting
<1>5. RingInv /\ SenderInv
  BY DEF RingInv, SenderInv
<1>6. CountInv
  <2>1. Counted = Lanes
    BY DEF Counted
  <2> QED
    BY <2>1 DEF CountInv
<1>7. IndexInv /\ PendingInv /\ UnreadInv /\ DroppedInv /\ RetiredInv /\ ScanInv
  BY DEF IndexInv, PendingInv, UnreadInv, DroppedInv, RetiredInv, ScanInv, Unread
<1> QED
  BY <1>3, <1>4, <1>5, <1>6, <1>7 DEF IInv

\* A sender moves in its own lane: its position, its ring's tail, its signal, its bit
\* and its wait cell; marks are set and never cleared.
LEMMA SenderFrame ==
  ASSUME TypeOK, NEW l \in Lanes, SenderStep(l)
  PROVE  /\ UNCHANGED <<released, window, popped, consumerDropped, receiverVars, collectVars>>
         /\ spc' \in [Lanes -> SenderLabels]
         /\ space' \in [Lanes -> Tokens]
         /\ \A m \in Lanes \ {l} : spc'[m] = spc[m] /\ tail'[m] = tail[m] /\ space'[m] = space[m]
         /\ tail' \in [Lanes -> Nat] /\ tail[l] <= tail'[l]
         /\ pending' \in {pending, pending \union {l}}
         /\ laneBits' \in {laneBits, laneBits \union {l}}
         /\ pageBits' \in {pageBits, pageBits \union {Page[l]}}
         /\ producerDropped' \in {producerDropped, producerDropped \union {l}}
         /\ liveSenders' \in {liveSenders, liveSenders - 1}
         /\ data' \in {data, dataToken!Notified(data)}
<1> DEFINE Goto(label) == spc' = [spc EXCEPT ![l] = label]
           Cell(t) == space' = space \/ space' = [space EXCEPT ![l] = t]
           Moves == /\ \E label \in SenderLabels : Goto(label)
                    /\ \E t \in Tokens : Cell(t)
                    /\ tail' \in {tail, [tail EXCEPT ![l] = @ + 1]}
           Leaves == UNCHANGED <<released, window, popped, consumerDropped, receiverVars, collectVars>>
           Marks == /\ pending' \in {pending, pending \union {l}}
                    /\ laneBits' \in {laneBits, laneBits \union {l}}
                    /\ pageBits' \in {pageBits, pageBits \union {Page[l]}}
                    /\ producerDropped' \in {producerDropped, producerDropped \union {l}}
                    /\ liveSenders' \in {liveSenders, liveSenders - 1}
                    /\ data' \in {data, dataToken!Notified(data)}
<1>1. Moves /\ Leaves /\ Marks
  <2> USE DEF SenderGoto, ringVars, readyVars, SenderLabels, Tokens
  <2>0. \A wake \in BOOLEAN : AfterMark(l, wake) \in SenderLabels
    BY ZenonT(30) DEF AfterMark
  <2>1. CASE StartSend(l) \/ TryAgain(l)
    BY <2>1, Zenon DEF StartSend, TryAgain, Check
  <2>2. CASE Publish(l)
    BY <2>2, Zenon DEF Publish
  <2>3. CASE Full(l)
    BY <2>3, Zenon DEF Full
  <2>4. CASE Disconnected(l) \/ RegisterSpace(l)
    BY <2>4, Zenon DEF Disconnected, RegisterSpace
  <2>5. CASE WakeSender(l) \/ WakeSenderEarly(l)
    BY <2>5, Zenon DEF WakeSender, WakeSenderEarly, LeaveSpace
  <2>6. CASE Mark(l)
    BY <2>6, <2>0, Zenon DEF Mark
  <2>7. CASE MarkPage(l)
    BY <2>7, <2>0, Zenon DEF MarkPage
  <2>8. CASE MarkGroup(l)
    BY <2>8, <2>0, Zenon DEF MarkGroup
  <2>9. CASE Unregister(l)
    BY <2>9, Zenon DEF Unregister
  <2>10. CASE NotifyData(l)
    BY <2>10, Zenon DEF NotifyData
  <2>11. CASE CountDown(l)
    BY <2>11, Zenon DEF CountDown
  <2>12. CASE Drop(l)
    BY <2>12, Zenon DEF Drop
  <2> QED
    BY <2>1, <2>2, <2>3, <2>4, <2>5, <2>6, <2>7, <2>8, <2>9, <2>10, <2>11, <2>12, Zenon
    DEF SenderStep, Sender
<1>2. PICK label \in SenderLabels : Goto(label)
  BY <1>1, Zenon
<1>3. PICK t \in Tokens : Cell(t)
  BY <1>1, Zenon
<1>4. spc' \in [Lanes -> SenderLabels] /\ \A m \in Lanes \ {l} : spc'[m] = spc[m]
  BY <1>2 DEF TypeOK
<1>5. space' \in [Lanes -> Tokens] /\ \A m \in Lanes \ {l} : space'[m] = space[m]
  BY <1>3, Zenon DEF TypeOK
<1>6. tail' \in [Lanes -> Nat] /\ tail[l] <= tail'[l] /\ \A m \in Lanes \ {l} : tail'[m] = tail[m]
  <2>0. tail \in [Lanes -> Nat]
    BY Zenon DEF TypeOK
  <2>1. CASE tail' = tail
    BY <2>0, <2>1
  <2>2. CASE tail' = [tail EXCEPT ![l] = @ + 1]
    BY <2>0, <2>2
  <2> QED
    BY <1>1, <2>1, <2>2, Zenon
<1> QED
  BY <1>1, <1>4, <1>5, <1>6, Zenon

\* Steps of the receiver between two polls: registering, waking, reporting, notifying
\* a sender and closing the lanes.
QuietStep ==
  \/ Empty \/ RegisterData \/ WakeReceiver \/ WakeReceiverEarly \/ DropRegistration
  \/ ReturnDisconnected \/ NotifyReleased \/ StartDrop \/ ReceiverDrop

\* They touch neither the rings' contents nor the signals, the index and the rotation.
LEMMA QuietFrame ==
  ASSUME QuietStep
  PROVE  /\ UNCHANGED <<tail, window, popped, producerDropped, liveSenders, spc,
                        pending, laneBits, pageBits, active, queued, lanes,
                        groupsLeft, pagesLeft>>
         /\ ~Polling /\ ~Polling' /\ ~Collecting'
         /\ rpc # "checkProducer" /\ rpc' # "checkProducer"
         /\ Collecting => Visited
<1> USE DEF ringVars, readyVars, collectVars, Polling, Collecting
<1>1. CASE Empty
  BY <1>1, Zenon DEF Empty
<1>2. CASE RegisterData \/ NotifyReleased
  BY <1>2 DEF RegisterData, NotifyReleased
<1>3. CASE WakeReceiver \/ WakeReceiverEarly \/ DropRegistration \/ ReturnDisconnected
  BY <1>3, Zenon DEF WakeReceiver, WakeReceiverEarly, DropRegistration, ReturnDisconnected, LeaveData
<1>4. CASE StartDrop \/ CloseLane \/ CloseFlag
  BY <1>4, Zenon DEF StartDrop, CloseLane, CloseFlag
<1>5. CASE NotifyClosed \/ FinishDrop
  BY <1>5, Zenon DEF NotifyClosed, FinishDrop
<1> QED
  BY <1>1, <1>2, <1>3, <1>4, <1>5, Zenon DEF QuietStep, ReceiverDrop

-----------------------------------------------------------------------------
(* Types, and where the receiver is. *)

\* Steps of try_send, send, publish and drop keep the types, and leave the receiver alone.
LEMMA SenderType ==
  ASSUME IInv, NEW l \in Lanes, SenderStep(l)
  PROVE  TypeOK' /\ ReceiverInv'
<1> USE DEF IInv
<1>1. TypeOK'
  <2>1. Page[l] \in Pages
    BY PageAssumption, Zenon
  <2>2. UNCHANGED <<released, window, popped, consumerDropped, active, queued, lanes, rpc, key,
                    freed, groupsLeft, pagesLeft, lanesLeft>>
    BY SenderFrame, Zenon DEF receiverVars, collectVars
  <2>3. tail' \in [Lanes -> Nat] /\ spc' \in [Lanes -> SenderLabels] /\ space' \in [Lanes -> Tokens]
    BY SenderFrame, Zenon
  <2>4. /\ pending' \subseteq Lanes /\ laneBits' \subseteq Lanes /\ pageBits' \subseteq Pages
        /\ producerDropped' \subseteq Lanes
    <3>1. /\ pending' \in {pending, pending \union {l}}
          /\ laneBits' \in {laneBits, laneBits \union {l}}
          /\ pageBits' \in {pageBits, pageBits \union {Page[l]}}
          /\ producerDropped' \in {producerDropped, producerDropped \union {l}}
      BY SenderFrame, Zenon
    <3> QED
      BY <2>1, <3>1, Zenon DEF TypeOK
  <2>5. liveSenders' \in Int /\ data' \in Tokens
    <3>1. liveSenders' \in {liveSenders, liveSenders - 1} /\ data' \in {data, dataToken!Notified(data)}
      BY SenderFrame, Zenon
    <3> QED
      BY <3>1 DEF TypeOK, dataToken!Notified, Tokens
  <2> QED
    BY <2>2, <2>3, <2>4, <2>5, Zenon DEF TypeOK
<1>2. ReceiverInv'
  BY SenderFrame, Zenon
  DEF ReceiverInv, receiverVars, collectVars, dataToken!Notified, Polling, Collecting, ReceiverAlive
<1> QED
  BY <1>1, <1>2

\* Steps of the receiver outside a poll (scans, waits, notifications) keep the types and
\* its control state.
LEMMA QuietType ==
  ASSUME IInv, QuietStep
  PROVE  TypeOK' /\ ReceiverInv'
<1> USE DEF IInv
<1> DEFINE Changed == <<released, consumerDropped, data, space, rpc, key, freed, lanesLeft>>
           Typed == /\ released' \in [Lanes -> Nat] /\ space' \in [Lanes -> Tokens]
                    /\ consumerDropped' \subseteq Lanes /\ data' \in Tokens
                    /\ rpc' \in ReceiverLabels /\ lanesLeft' \subseteq Lanes
                    /\ key' \in Lanes \union {"none"} /\ freed' \in Lanes \union {"none"}
<1>1. Typed /\ ReceiverInv'
  <2> USE DEF ringVars, readyVars, collectVars, TypeOK, ReceiverInv, Polling, Collecting,
              ReceiverAlive, ReceiverLabels, Tokens
  <2>1. CASE Empty
    BY <2>1, ZenonT(30) DEF Empty, Visited
  <2>2. CASE RegisterData
    BY <2>2, Zenon DEF RegisterData
  <2>3. CASE WakeReceiver \/ WakeReceiverEarly
    BY <2>3, Zenon DEF WakeReceiver, WakeReceiverEarly, LeaveData
  <2>4. CASE DropRegistration \/ ReturnDisconnected
    BY <2>4, Zenon DEF DropRegistration, ReturnDisconnected, LeaveData
  <2>5. CASE NotifyReleased
    BY <2>5, Zenon DEF NotifyReleased, dataToken!Notified
  <2>6. CASE StartDrop
    BY <2>6, Zenon DEF StartDrop
  <2>7. CASE CloseLane
    BY <2>7, ZenonT(30) DEF CloseLane
  <2>8. CASE CloseFlag
    BY <2>8, Zenon DEF CloseFlag
  <2>9. CASE NotifyClosed
    BY <2>9, Zenon DEF NotifyClosed, dataToken!Notified
  <2>10. CASE FinishDrop
    BY <2>10, Zenon DEF FinishDrop
  <2> QED
    BY <2>1, <2>2, <2>3, <2>4, <2>5, <2>6, <2>7, <2>8, <2>9, <2>10, Zenon
    DEF QuietStep, ReceiverDrop
<1>2. TypeOK'
  BY <1>1, QuietFrame, Zenon DEF TypeOK
<1> QED
  BY <1>1, <1>2

-----------------------------------------------------------------------------
(* The receiver collects. *)

\* A step of the receiver that notifies no lane leaves senders and their count alone.
LEMMA SendersKept ==
  ASSUME IInv, UNCHANGED <<producerDropped, liveSenders, spc, space>>
  PROVE  SenderInv' /\ CountInv'
BY Zenon DEF IInv, SenderInv, CountInv, Counted

\* Outside of a poll, a step that leaves the lanes' signals, values and flags alone keeps
\* what is known of the rotation, the rings and the retired lanes.
LEMMA LanesKept ==
  ASSUME IInv, ~Polling, ~Polling', rpc # "checkProducer", rpc' # "checkProducer",
         UNCHANGED <<tail, window, popped, pending, producerDropped, spc, active, queued, lanes>>
  PROVE  RotationInv' /\ UnreadInv' /\ DroppedInv' /\ RetiredInv'
<1> USE DEF IInv
<1>1. RotationInv'
  BY Zenon DEF RotationInv, Polling
<1>2. UnreadInv' /\ RetiredInv'
  BY DEF UnreadInv, RetiredInv, Unread
<1>3. DroppedInv'
  BY DEF DroppedInv
<1> QED
  BY <1>1, <1>2, <1>3

\* ReadyGroup::take_all moves marks from a group into the scan and loses none.
LEMMA TakeGroupStep ==
  ASSUME IInv, NEW groups \in SUBSET Groups, NEW scan, TakeGroup(groups, scan),
         \/ /\ rpc \in {"idle", "loop"} /\ groups = Groups
            /\ scan = IF active = << >> THEN "collectAll" ELSE "collectSome"
         \/ Collecting /\ lanesLeft = {} /\ pagesLeft = {} /\ groups = groupsLeft /\ scan = rpc
  PROVE  IInv'
<1> USE DEF IInv
<1>1. PICK g \in groups :
        /\ pagesLeft' = {p \in pageBits : Group[p] = g}
        /\ pageBits' = pageBits \ pagesLeft'
        /\ groupsLeft' = IF scan = "collectSome" /\ pagesLeft' # {} THEN {} ELSE groups \ {g}
  BY Zenon DEF TakeGroup
<1>2. /\ UNCHANGED <<tail, released, window, popped, producerDropped, consumerDropped, pending,
                     laneBits, liveSenders, data, space, spc, active, queued, lanes, key, freed,
                     lanesLeft>>
      /\ rpc' = scan
  BY Zenon DEF TakeGroup, ringVars
<1>3. /\ scan \in {"collectAll", "collectSome"} /\ lanesLeft = {} /\ pagesLeft = {}
      /\ scan = "collectSome" => active # << >>
      /\ rpc \in {"idle", "loop", "collectAll", "collectSome"}
      /\ rpc = "collectAll" => groups = groupsLeft
      /\ ~Collecting => groups = Groups
  BY DEF Collecting, ReceiverInv, ReceiverAlive
<1>4. ~Polling /\ ~Polling' /\ rpc' # "checkProducer" /\ rpc # "checkProducer" /\ Collecting'
  BY <1>2, <1>3 DEF Polling, Collecting
<1>5. TypeOK'
  BY <1>1, <1>2, <1>3, Zenon DEF TypeOK, ReceiverLabels
<1>6. ReceiverInv'
  BY <1>2, <1>3, <1>4, Zenon DEF ReceiverInv
<1>7. RotationInv' /\ UnreadInv' /\ DroppedInv' /\ RetiredInv'
  BY <1>2, <1>4, LanesKept, Zenon
<1>8. RingInv'
  BY <1>2, <1>3, Zenon DEF RingInv
<1>9. SenderInv' /\ CountInv'
  BY <1>2, SendersKept, Zenon
<1>10. IndexInv'
  BY <1>1, <1>2, <1>3, Zenon DEF IndexInv, Indexed
<1>11. PendingInv'
  BY <1>2, <1>3, <1>4, Zenon DEF PendingInv
<1>12. ScanInv'
  <2> SUFFICES ASSUME data = "registered", \A l \in Lanes : ~WillNotify(l), rpc' = "collectAll",
                      NEW l \in (lanes \intersect pending) \ queued
               PROVE  Ahead(l)'
    BY <1>2, <1>3, Zenon DEF ScanInv, WillNotify
  <2>1. l \in Lanes /\ l \in laneBits /\ Page[l] \in pageBits
    BY <1>3, Zenon DEF PendingInv, IndexInv, Indexed, WillNotify, TypeOK
  <2>2. Group[Page[l]] \in groups
    <3>1. CASE Collecting
      BY <1>2, <1>3, <3>1, Zenon DEF ScanInv, Ahead, Collecting
    <3>2. CASE ~Collecting
      BY <1>3, <2>1, <3>2, PageAssumption, Zenon DEF Groups
    <3> QED
      BY <3>1, <3>2, Zenon
  <2> QED
    BY <1>1, <1>2, <2>1, <2>2, Zenon DEF Ahead
<1> QED
  BY <1>5, <1>6, <1>7, <1>8, <1>9, <1>10, <1>11, <1>12

\* ReadyPage::take moves every bit of a page into the scan.
LEMMA TakePageStep ==
  ASSUME IInv, TakePage
  PROVE  IInv'
<1> USE DEF IInv
<1>1. PICK p \in pagesLeft :
        /\ lanesLeft' = {l \in laneBits : Page[l] = p}
        /\ laneBits' = laneBits \ lanesLeft'
        /\ pagesLeft' = pagesLeft \ {p}
  BY Zenon DEF TakePage
<1>2. /\ UNCHANGED <<tail, released, window, popped, producerDropped, consumerDropped, pending,
                     pageBits, liveSenders, data, space, spc, active, queued, lanes, rpc, key,
                     freed, groupsLeft>>
      /\ Collecting /\ lanesLeft = {}
  BY Zenon DEF TakePage, ringVars, receiverVars
<1>3. ~Polling /\ ~Polling' /\ rpc' # "checkProducer" /\ rpc # "checkProducer" /\ Collecting'
  BY <1>2 DEF Polling, Collecting
<1>4. TypeOK'
  BY <1>1, <1>2, Zenon DEF TypeOK
<1>5. ReceiverInv'
  BY <1>2, <1>3, Zenon DEF ReceiverInv, Collecting
<1>6. RotationInv' /\ UnreadInv' /\ DroppedInv' /\ RetiredInv'
  BY <1>2, <1>3, LanesKept, Zenon
<1>7. RingInv'
  BY <1>2, Zenon DEF RingInv
<1>8. SenderInv' /\ CountInv'
  BY <1>2, SendersKept, Zenon
<1>9. IndexInv'
  BY <1>1, <1>2, Zenon DEF IndexInv, Indexed
<1>10. PendingInv'
  BY <1>1, <1>2, <1>3, Zenon DEF PendingInv, Collecting
<1>11. ScanInv'
  <2> SUFFICES ASSUME data = "registered", \A l \in Lanes : ~WillNotify(l), rpc = "collectAll",
                      NEW l \in (lanes \intersect pending) \ queued
               PROVE  Ahead(l)'
    BY <1>2, Zenon DEF ScanInv, WillNotify, Collecting
  <2>1. Ahead(l)
    BY DEF ScanInv
  <2> QED
    BY <1>1, <1>2, <2>1, Zenon DEF Ahead
<1> QED
  BY <1>4, <1>5, <1>6, <1>7, <1>8, <1>9, <1>10, <1>11, Zenon

\* A lane that is there, PENDING and not queued joins the rotation; another bit was stale.
LEMMA TakeLaneStep ==
  ASSUME IInv, TakeLane
  PROVE  IInv'
<1> USE DEF IInv
<1>1. PICK l \in lanesLeft :
        /\ lanesLeft' = lanesLeft \ {l}
        /\ IF l \in lanes /\ l \in pending /\ l \notin queued
           THEN active' = Append(active, l) /\ queued' = queued \union {l}
           ELSE UNCHANGED <<active, queued>>
  BY Zenon DEF TakeLane
<1>2. /\ UNCHANGED <<tail, released, window, popped, producerDropped, consumerDropped, pending,
                     laneBits, pageBits, liveSenders, data, space, spc, lanes, rpc, key,
                     freed, groupsLeft, pagesLeft>>
      /\ Collecting
  BY DEF TakeLane, ringVars, readyVars
<1>3. /\ ~Polling /\ ~Polling' /\ rpc' # "checkProducer" /\ rpc # "checkProducer" /\ Collecting'
      /\ rpc # "reload" /\ rpc # "parked" /\ rpc # "disconnected"
  BY <1>2 DEF Polling, Collecting
<1>4. /\ l \in Lanes
      /\ queued \subseteq queued' /\ queued' \subseteq queued \union ({l} \intersect lanes \intersect pending)
      /\ l \in lanes \intersect pending => l \in queued'
  BY <1>1, Zenon DEF TypeOK
<1>5. /\ active' \in Seq(Lanes)
      /\ IsInjective(active')
      /\ queued' = Range(active')
      /\ active # << >> => active' # << >>
  <2>1. active \in Seq(Lanes) /\ queued = Range(active) /\ IsInjective(active)
    BY <1>3, Zenon DEF TypeOK, RotationInv
  <2>2. CASE l \in lanes /\ l \in pending /\ l \notin queued
    <3>1. active' = Append(active, l) /\ queued' = queued \union {l}
      BY <1>1, <2>2, Zenon
    <3>2. /\ Append(active, l) \in Seq(Lanes) /\ Append(active, l) # << >>
          /\ IsInjective(Append(active, l))
          /\ Range(Append(active, l)) = Range(active) \union {l}
      BY <1>4, <2>1, <2>2, AppendOnce
    <3> QED
      BY <2>1, <3>1, <3>2, Zenon
  <2>3. CASE ~(l \in lanes /\ l \in pending /\ l \notin queued)
    <3>1. active' = active /\ queued' = queued
      BY <1>1, <2>3
    <3> QED
      BY <2>1, <3>1, Zenon
  <2> QED
    BY <2>2, <2>3
<1>6. TypeOK'
  BY <1>1, <1>2, <1>4, <1>5, Zenon DEF TypeOK
<1>7. ReceiverInv'
  BY <1>2, <1>3, <1>5, Zenon DEF ReceiverInv
<1>8. RotationInv'
  BY <1>2, <1>3, <1>4, <1>5, Zenon DEF RotationInv
<1>9. RingInv'
  BY <1>2, <1>3, <1>4, Zenon DEF RingInv, Collecting
<1>10. SenderInv' /\ CountInv'
  BY <1>2, SendersKept, Zenon
<1>11. IndexInv'
  BY <1>2, Zenon DEF IndexInv, Indexed
<1>12. PendingInv'
  BY <1>1, <1>2, <1>3, <1>4, Zenon DEF PendingInv
<1>13. UnreadInv' /\ DroppedInv' /\ RetiredInv'
  BY <1>2, <1>3, <1>4, Zenon DEF UnreadInv, DroppedInv, RetiredInv, Unread
<1>14. ScanInv'
  <2> SUFFICES ASSUME data = "registered", \A m \in Lanes : ~WillNotify(m), rpc = "collectAll",
                      NEW m \in (lanes \intersect pending) \ queued'
               PROVE  Ahead(m)'
    BY <1>2, <1>3, Zenon DEF ScanInv, WillNotify
  <2>1. m # l /\ Ahead(m)
    BY <1>4, Zenon DEF ScanInv
  <2> QED
    BY <1>1, <1>2, <2>1, Zenon DEF Ahead
<1> QED
  BY <1>6, <1>7, <1>8, <1>9, <1>10, <1>11, <1>12, <1>13, <1>14

-----------------------------------------------------------------------------
(* The receiver polls a lane. *)

\* What a poll leaves alone: the senders, the index, and the scan before a sleep.
LEMMA PollFrame ==
  ASSUME IInv, rpc' \notin {"collectAll", "parked"},
         UNCHANGED <<producerDropped, laneBits, pageBits, pagesLeft, liveSenders, spc, space>>
  PROVE  SenderInv' /\ CountInv' /\ IndexInv' /\ ScanInv'
BY SendersKept, Zenon DEF IInv, IndexInv, Indexed, ScanInv

\* The front lane leaves the rotation and stays flagged; an empty window is reloaded.
LEMMA PollStep ==
  ASSUME IInv, Poll, rpc \in {"idle", "loop"} \/ (Collecting /\ Visited)
  PROVE  IInv'
<1> USE DEF IInv
<1>1. /\ UNCHANGED <<tail, released, popped, producerDropped, consumerDropped, pending, laneBits,
                     pageBits, liveSenders, data, space, spc, queued, lanes, freed, groupsLeft,
                     pagesLeft, lanesLeft>>
      /\ rpc' \in {"settle", "pop"}
      /\ rpc' = "pop" => window'[key'] # popped[key']
      /\ key' = Head(active) /\ active' = Tail(active) /\ active # << >>
      /\ window' \in {window, [window EXCEPT ![key'] = tail[key']]}
  BY Zenon DEF Poll, readyVars, collectVars
<1>2. /\ ~Collecting' /\ Polling' /\ ~Polling /\ rpc # "checkProducer"
      /\ groupsLeft = {} /\ pagesLeft = {} /\ lanesLeft = {}
  BY <1>1, Zenon DEF Collecting, Polling, Visited, ReceiverInv, ReceiverAlive
<1>3. /\ key' \in Lanes /\ key' \in Range(active) /\ active' \in Seq(Lanes)
      /\ IsInjective(active') /\ Range(active') = Range(active) \ {key'}
  <2>1. active \in Seq(Lanes) /\ IsInjective(active)
    BY Zenon DEF TypeOK, RotationInv
  <2> QED
    BY <1>1, <2>1, TailOnce, Zenon
<1>4. window' \in [Lanes -> Nat] /\ \A l \in Lanes : popped[l] <= window'[l] /\ window'[l] <= tail[l]
  <2>1. /\ tail \in [Lanes -> Nat] /\ window \in [Lanes -> Nat] /\ popped \in [Lanes -> Nat]
        /\ \A l \in Lanes : popped[l] <= window[l] /\ window[l] <= tail[l]
    BY Zenon DEF TypeOK, RingInv
  <2>2. CASE window' = window
    BY <2>1, <2>2
  <2>3. CASE window' = [window EXCEPT ![key'] = tail[key']]
    BY <1>3, <2>1, <2>3
  <2> QED
    BY <1>1, <2>2, <2>3, Zenon
<1>5. TypeOK'
  BY <1>1, <1>3, <1>4, Zenon DEF TypeOK, ReceiverLabels
<1>6. ReceiverInv'
  BY <1>1, <1>2, <1>3, Zenon DEF ReceiverInv
<1>7. RotationInv'
  <2>1. queued = Range(active) /\ queued \subseteq lanes /\ queued \subseteq pending
    BY <1>1, <1>2, Zenon DEF RotationInv, Polling
  <2>2. queued = Range(active') \union {key'} /\ key' \notin Range(active')
    BY <1>3, <2>1, Zenon
  <2> QED
    BY <1>1, <1>2, <1>3, <2>1, <2>2, Zenon DEF RotationInv
<1>8. RingInv'
  <2>1. popped[key'] <= window'[key'] /\ popped[key'] \in Nat /\ window'[key'] \in Nat
    BY <1>3, <1>4, Zenon DEF TypeOK
  <2> QED
    BY <1>1, <1>4, <2>1, SMTT(20) DEF RingInv
<1>9. PendingInv'
  BY <1>1, <1>2, Zenon DEF PendingInv
<1>10. UnreadInv' /\ DroppedInv' /\ RetiredInv'
  BY <1>1, <1>2, Zenon DEF UnreadInv, DroppedInv, RetiredInv, Unread
<1>11. SenderInv' /\ CountInv' /\ IndexInv' /\ ScanInv'
  BY <1>1, PollFrame, Zenon
<1> QED
  BY <1>5, <1>6, <1>7, <1>8, <1>9, <1>10, <1>11

\* A value is taken and the lane rejoins the rotation, at the front or at the back.
LEMMA PopStep ==
  ASSUME IInv, Pop
  PROVE  IInv'
<1> USE DEF IInv
<1>1. /\ UNCHANGED <<tail, window, producerDropped, consumerDropped, pending, laneBits,
                     pageBits, liveSenders, data, space, spc, queued, lanes, groupsLeft,
                     pagesLeft, lanesLeft>>
      /\ rpc = "pop" /\ rpc' = "return" /\ key' = "none"
      /\ popped' = [popped EXCEPT ![key] = @ + 1]
      /\ released' \in {released, [released EXCEPT ![key] = popped'[key]]}
      /\ freed' \in {freed, key}
      /\ active' \in {<<key>> \o active, Append(active, key)}
  BY Zenon DEF Pop, readyVars, collectVars
<1>2. /\ ~Collecting /\ ~Collecting' /\ Polling /\ ~Polling'
      /\ key \in Lanes /\ key \in queued /\ key \in lanes
  BY <1>1, Zenon DEF Collecting, Polling, ReceiverInv, RotationInv
<1>3. /\ active' \in Seq(Lanes) /\ IsInjective(active') /\ Range(active') = Range(active) \union {key}
  <2>1. active \in Seq(Lanes) /\ IsInjective(active) /\ key \notin Range(active)
    BY <1>2, Zenon DEF TypeOK, RotationInv
  <2>2. CASE active' = <<key>> \o active
    BY <1>2, <2>1, <2>2, PrependOnce
  <2>3. CASE active' = Append(active, key)
    BY <1>2, <2>1, <2>3, AppendOnce
  <2> QED
    BY <1>1, <2>2, <2>3, Zenon
<1>4. /\ popped' \in [Lanes -> Nat] /\ released' \in [Lanes -> Nat]
      /\ \A l \in Lanes : released'[l] <= popped'[l] /\ popped'[l] <= window[l]
      /\ \A l \in Lanes \ {key} : released'[l] = released[l] /\ popped'[l] = popped[l]
  <2>1. popped \in [Lanes -> Nat] /\ released \in [Lanes -> Nat] /\ window \in [Lanes -> Nat]
    BY Zenon DEF TypeOK
  <2>2. popped' \in [Lanes -> Nat] /\ popped'[key] = popped[key] + 1
        /\ \A l \in Lanes \ {key} : popped'[l] = popped[l]
    BY <1>1, <1>2, <2>1
  <2>3. /\ released' \in [Lanes -> Nat] /\ released'[key] \in {released[key], popped'[key]}
        /\ \A l \in Lanes \ {key} : released'[l] = released[l]
    BY <1>1, <1>2, <2>1, <2>2, Zenon
  <2>4. popped[key] < window[key] /\ \A l \in Lanes : released[l] <= popped[l] /\ popped[l] <= window[l]
    BY <1>1, Zenon DEF RingInv
  <2>5. released'[key] <= popped'[key] /\ popped'[key] <= window[key]
    BY <1>2, <2>1, <2>2, <2>3, <2>4
  <2> QED
    BY <2>2, <2>3, <2>4, <2>5, Zenon
<1>5. TypeOK'
  BY <1>1, <1>2, <1>3, <1>4, Zenon DEF TypeOK, ReceiverLabels
<1>6. ReceiverInv'
  BY <1>1, <1>2, ZenonT(30) DEF ReceiverInv, ReceiverAlive
<1>7. RotationInv'
  BY <1>1, <1>2, <1>3, Zenon DEF RotationInv
<1>8. RingInv'
  BY <1>1, <1>2, <1>4, ZenonT(30) DEF RingInv, RotationInv, TypeOK
<1>9. PendingInv'
  BY <1>1, <1>2, ZenonT(30) DEF PendingInv
<1>10. UnreadInv' /\ DroppedInv' /\ RetiredInv'
  BY <1>1, <1>2, <1>4, ZenonT(30) DEF UnreadInv, DroppedInv, RetiredInv, Unread, TypeOK
<1>11. SenderInv' /\ CountInv' /\ IndexInv' /\ ScanInv'
  BY <1>1, PollFrame, Zenon
<1> QED
  BY <1>5, <1>6, <1>7, <1>8, <1>9, <1>10, <1>11

\* settle_empty returns what the lane has consumed ...
LEMMA SettleReleaseStep ==
  ASSUME IInv, SettleRelease
  PROVE  IInv'
<1> USE DEF IInv
<1>1. /\ UNCHANGED <<tail, window, popped, producerDropped, consumerDropped, pending, laneBits,
                     pageBits, liveSenders, data, space, spc, active, queued, lanes, key,
                     groupsLeft, pagesLeft, lanesLeft>>
      /\ rpc = "settle" /\ rpc' = "finishDrain"
      /\ released' = [released EXCEPT ![key] = popped[key]]
      /\ freed' \in {freed, key}
  BY Zenon DEF SettleRelease, readyVars, collectVars
<1>2. ~Collecting /\ ~Collecting' /\ Polling /\ Polling' /\ key \in Lanes
  BY <1>1, Zenon DEF Collecting, Polling, ReceiverInv
<1>3. /\ released' \in [Lanes -> Nat] /\ released'[key] = popped[key]
      /\ \A l \in Lanes \ {key} : released'[l] = released[l]
  BY <1>1, <1>2, Zenon DEF TypeOK
<1>4. TypeOK'
  BY <1>1, <1>2, <1>3, Zenon DEF TypeOK, ReceiverLabels
<1>5. ReceiverInv'
  BY <1>1, <1>2, Zenon DEF ReceiverInv, ReceiverAlive
<1>6. RotationInv'
  BY <1>1, <1>2, Zenon DEF RotationInv
<1>7. RingInv'
  BY <1>1, <1>2, <1>3, SMTT(20) DEF RingInv, TypeOK
<1>8. PendingInv' /\ UnreadInv' /\ DroppedInv' /\ RetiredInv'
  BY <1>1, <1>2, Zenon DEF PendingInv, UnreadInv, DroppedInv, RetiredInv, Unread
<1>9. SenderInv' /\ CountInv' /\ IndexInv' /\ ScanInv'
  BY <1>1, PollFrame, Zenon
<1> QED
  BY <1>4, <1>5, <1>6, <1>7, <1>8, <1>9, Zenon

\* ... sets it IDLE: from here on a mark of its sender goes to the index ...
LEMMA FinishDrainStep ==
  ASSUME IInv, FinishDrain
  PROVE  IInv'
<1> USE DEF IInv
<1>1. /\ UNCHANGED <<tail, released, window, popped, producerDropped, consumerDropped, laneBits,
                     pageBits, liveSenders, data, space, spc, active, queued, lanes, key, freed,
                     groupsLeft, pagesLeft, lanesLeft>>
      /\ rpc = "finishDrain" /\ rpc' = "reload"
      /\ pending' = pending \ {key}
  BY Zenon DEF FinishDrain, ringVars, collectVars
<1>2. /\ ~Collecting /\ ~Collecting' /\ Polling /\ Polling' /\ key \in Lanes
      /\ key \in queued
  BY <1>1, Zenon DEF Collecting, Polling, ReceiverInv, RotationInv
<1>3. TypeOK'
  BY <1>1, Zenon DEF TypeOK, ReceiverLabels
<1>4. ReceiverInv'
  BY <1>1, <1>2, Zenon DEF ReceiverInv, ReceiverAlive
<1>5. RotationInv'
  BY <1>1, <1>2, Zenon DEF RotationInv
<1>6. RingInv'
  BY <1>1, Zenon DEF RingInv
<1>7. PendingInv' /\ UnreadInv' /\ DroppedInv' /\ RetiredInv'
  BY <1>1, <1>2, Zenon DEF PendingInv, UnreadInv, DroppedInv, RetiredInv, Unread
<1>8. SenderInv' /\ CountInv' /\ IndexInv' /\ ScanInv'
  BY <1>1, PollFrame, Zenon
<1> QED
  BY <1>3, <1>4, <1>5, <1>6, <1>7, <1>8

\* ... and looks again.  A lane that leaves the rotation has no value, and if it was
\* marked since, the mark is in the index.
LEMMA ReloadStep ==
  ASSUME IInv, Reload
  PROVE  IInv'
<1> USE DEF IInv
<1>1. /\ UNCHANGED <<tail, released, popped, producerDropped, consumerDropped, pending, laneBits,
                     pageBits, liveSenders, data, space, spc, active, lanes, key, freed,
                     groupsLeft, pagesLeft, lanesLeft>>
      /\ rpc = "reload"
      /\ window' = [window EXCEPT ![key] = tail[key]]
      /\ \/ tail[key] = popped[key] /\ queued' = queued \ {key} /\ rpc' = "checkProducer"
         \/ queued' = queued /\ rpc' = "claim"
  BY Zenon DEF Reload, readyVars, collectVars
<1>2. /\ ~Collecting /\ ~Collecting' /\ Polling /\ key \in Lanes
      /\ rpc' = "claim" <=> Polling'
  BY <1>1, Zenon DEF Collecting, Polling, ReceiverInv
<1>3. /\ window' \in [Lanes -> Nat] /\ window'[key] = tail[key]
      /\ \A l \in Lanes \ {key} : window'[l] = window[l]
  BY <1>1, <1>2, Zenon DEF TypeOK
<1>4. TypeOK'
  BY <1>1, <1>3, Zenon DEF TypeOK, ReceiverLabels
<1>5. ReceiverInv'
  BY <1>1, <1>2, Zenon DEF ReceiverInv, ReceiverAlive
<1>6. RotationInv'
  BY <1>1, <1>2, Zenon DEF RotationInv
<1>7. RingInv'
  BY <1>1, <1>2, <1>3, SMTT(20) DEF RingInv, TypeOK
<1>8. PendingInv'
  BY <1>1, <1>2, Zenon DEF PendingInv
<1>9. UnreadInv' /\ DroppedInv' /\ RetiredInv'
  BY <1>1, <1>2, SMTT(20) DEF UnreadInv, DroppedInv, RetiredInv, Unread, TypeOK
<1>10. SenderInv' /\ CountInv' /\ IndexInv' /\ ScanInv'
  BY <1>1, PollFrame, Zenon
<1> QED
  BY <1>4, <1>5, <1>6, <1>7, <1>8, <1>9, <1>10

\* A lane that has values again is claimed back.
LEMMA ClaimStep ==
  ASSUME IInv, Claim
  PROVE  IInv'
<1> USE DEF IInv
<1>1. /\ UNCHANGED <<tail, released, window, popped, producerDropped, consumerDropped, laneBits,
                     pageBits, liveSenders, data, space, spc, queued, lanes, freed,
                     groupsLeft, pagesLeft, lanesLeft>>
      /\ rpc = "claim" /\ rpc' \in {"loop", "progressed"} /\ key' = "none"
      /\ pending' = pending \union {key}
      /\ active' = Append(active, key)
  BY Zenon DEF Claim, AfterSettle, ringVars, collectVars
<1>2. /\ ~Collecting /\ ~Collecting' /\ Polling /\ ~Polling' /\ key \in Lanes
      /\ key \in queued
  BY <1>1, Zenon DEF Collecting, Polling, ReceiverInv, RotationInv
<1>3. active' \in Seq(Lanes) /\ IsInjective(active') /\ Range(active') = Range(active) \union {key}
  <2>1. active \in Seq(Lanes) /\ IsInjective(active) /\ key \notin Range(active)
    BY <1>2, Zenon DEF TypeOK, RotationInv
  <2> QED
    BY <1>1, <1>2, <2>1, AppendOnce
<1>4. TypeOK'
  BY <1>1, <1>2, <1>3, Zenon DEF TypeOK, ReceiverLabels
<1>5. ReceiverInv'
  BY <1>1, <1>2, Zenon DEF ReceiverInv, ReceiverAlive
<1>6. RotationInv'
  BY <1>1, <1>2, <1>3, Zenon DEF RotationInv
<1>7. RingInv'
  BY <1>1, Zenon DEF RingInv
<1>8. PendingInv' /\ UnreadInv' /\ DroppedInv' /\ RetiredInv'
  BY <1>1, <1>2, Zenon DEF PendingInv, UnreadInv, DroppedInv, RetiredInv, Unread
<1>9. SenderInv' /\ CountInv' /\ IndexInv' /\ ScanInv'
  BY <1>1, PollFrame, Zenon
<1> QED
  BY <1>4, <1>5, <1>6, <1>7, <1>8, <1>9

\* A lane is retired only once its sender is gone and its last value received; one
\* that stays without its sender has been marked since it was set IDLE.
LEMMA CheckProducerStep ==
  ASSUME IInv, CheckProducer
  PROVE  IInv'
<1> USE DEF IInv
<1>1. /\ UNCHANGED <<tail, released, window, popped, producerDropped, consumerDropped, pending,
                     laneBits, pageBits, liveSenders, data, space, spc, active, queued,
                     groupsLeft, pagesLeft, lanesLeft>>
      /\ rpc = "checkProducer" /\ rpc' \in {"loop", "progressed"} /\ key' = "none"
      /\ \/ key \in producerDropped /\ tail[key] = popped[key] /\ lanes' = lanes \ {key}
         \/ (key \notin producerDropped \/ tail[key] # popped[key]) /\ lanes' = lanes
      /\ freed' \in {freed, "none"}
  BY Zenon DEF CheckProducer, AfterSettle, ringVars, readyVars, collectVars
<1>2. /\ ~Collecting /\ ~Collecting' /\ ~Polling /\ ~Polling' /\ key \in Lanes
      /\ key \notin queued /\ lanes' \subseteq lanes
  BY <1>1, Zenon DEF Collecting, Polling, ReceiverInv, RotationInv
<1>3. TypeOK'
  BY <1>1, <1>2, Zenon DEF TypeOK, ReceiverLabels
<1>4. ReceiverInv'
  BY <1>1, <1>2, Zenon DEF ReceiverInv, ReceiverAlive
<1>5. RotationInv'
  BY <1>1, <1>2, Zenon DEF RotationInv
<1>6. RingInv'
  BY <1>1, <1>2, Zenon DEF RingInv
<1>7. PendingInv' /\ UnreadInv'
  BY <1>1, <1>2, Zenon DEF PendingInv, UnreadInv, Unread
<1>8. RetiredInv'
  <2>1. tail[key] = popped[key] => ~Unread(key)
    BY <1>2 DEF Unread, TypeOK
  <2>2. \A l \in Lanes \ lanes' : l \in lanes => l = key /\ l \in producerDropped /\ ~Unread(l)
    BY <1>1, <2>1, Zenon
  <2>3. \A l \in Lanes \ lanes' : l \in producerDropped /\ ~Unread(l)
    BY <2>2, Zenon DEF RetiredInv
  <2> QED
    BY <1>1, <2>3, Zenon DEF RetiredInv, Unread
<1>9. DroppedInv'
  <2>1. tail[key] # popped[key] => Unread(key)
    BY <1>2 DEF Unread, RingInv, TypeOK
  <2> SUFFICES ASSUME NEW l \in lanes' \intersect producerDropped
               PROVE  l \in queued \union pending \/ spc[l] = "mark"
    BY <1>1, Zenon DEF DroppedInv
  <2>2. l \in lanes /\ l \in producerDropped
    BY <1>2
  <2>3. CASE l = key
    <3>1. tail[key] # popped[key]
      BY <1>1, <2>2, <2>3, Zenon
    <3> QED
      BY <2>1, <2>2, <2>3, <3>1, Zenon DEF UnreadInv
  <2>4. CASE l # key
    BY <2>2, <2>4, Zenon DEF DroppedInv
  <2> QED
    BY <2>3, <2>4
<1>10. SenderInv' /\ CountInv' /\ IndexInv' /\ ScanInv'
  BY <1>1, PollFrame, Zenon
<1> QED
  BY <1>3, <1>4, <1>5, <1>6, <1>7, <1>8, <1>9, <1>10, Zenon

\* Of the wait cells of the senders, the receiver only notifies one.
LEMMA QuietNotifies ==
  ASSUME IInv, QuietStep
  PROVE  space' = space \/ \E l \in Lanes : space' = [space EXCEPT ![l] = dataToken!Notified(@)]
<1>1. rpc = "closed" => key \in Lanes
  BY Zenon DEF IInv, ReceiverInv
<1>2. freed # "none" => freed \in Lanes
  BY Zenon DEF IInv, TypeOK
<1> QED
  BY <1>1, <1>2, Zenon
  DEF QuietStep, ReceiverDrop, Empty, RegisterData, NotifyReleased, WakeReceiver,
      WakeReceiverEarly, DropRegistration, ReturnDisconnected, LeaveData, StartDrop, CloseLane,
      CloseFlag, NotifyClosed, FinishDrop

\* Going to sleep: the scan is over, so that a PENDING lane has a sender that is about to
\* notify; the channel is not disconnected.  Nothing else of the invariant is at stake.
LEMMA QuietStepInv ==
  ASSUME IInv, QuietStep
  PROVE  IInv'
<1> USE DEF IInv
<1>1. TypeOK' /\ ReceiverInv'
  BY QuietType, Zenon
<1>2. /\ UNCHANGED <<tail, window, popped, producerDropped, liveSenders, spc, pending, laneBits,
                     pageBits, active, queued, lanes, groupsLeft, pagesLeft>>
      /\ ~Polling /\ ~Polling' /\ ~Collecting'
      /\ rpc # "checkProducer" /\ rpc' # "checkProducer"
      /\ Collecting => lanesLeft = {}
  BY QuietFrame, Zenon DEF Visited
<1>3. RotationInv' /\ UnreadInv' /\ DroppedInv' /\ RetiredInv'
  BY <1>2, LanesKept, Zenon
<1>4. IndexInv' /\ PendingInv'
  BY <1>2, Zenon DEF IndexInv, Indexed, PendingInv, Polling
<1>5. RingInv'
  <2>1. released' = released \/ \E l \in lanesLeft : released' = [released EXCEPT ![l] = popped[l]]
    BY ZenonT(30)
    DEF QuietStep, ReceiverDrop, Empty, RegisterData, NotifyReleased, WakeReceiver,
        WakeReceiverEarly, DropRegistration, ReturnDisconnected, LeaveData, StartDrop, CloseLane,
        CloseFlag, NotifyClosed, FinishDrop, ringVars
  <2>2. \A l \in Lanes : released'[l] \in {released[l], popped[l]}
    BY <2>1, Zenon DEF TypeOK
  <2>3. rpc' \notin {"pop", "finishDrain", "reload"}
    BY <1>2, Zenon DEF Polling
  <2>4. \A l \in Lanes : /\ released[l] <= popped[l] /\ popped[l] <= window[l] /\ window[l] <= tail[l]
                        /\ popped[l] \in Nat
    BY Zenon DEF RingInv, TypeOK
  <2>5. \A l \in lanes \ queued : l \in Lanes /\ released[l] = popped[l]
    BY Zenon DEF RingInv, TypeOK
  <2>6. \A l \in Lanes : released'[l] <= popped[l]
    BY <2>2, <2>4
  <2>7. \A l \in lanes \ queued : released'[l] = popped[l]
    BY <2>2, <2>5, Zenon
  <2> QED
    BY <1>2, <2>3, <2>4, <2>6, <2>7, Zenon DEF RingInv
<1>6. SenderInv'
  <2>1. space' = space \/ \E l \in Lanes : space' = [space EXCEPT ![l] = dataToken!Notified(@)]
    BY QuietNotifies, Zenon
  <2>2. \A l \in Lanes : space[l] = "out" => space'[l] = "out"
    <3>1. space \in [Lanes -> Tokens]
      BY Zenon DEF TypeOK
    <3>2. CASE space' = space
      BY <3>2
    <3>3. ASSUME NEW m \in Lanes, space' = [space EXCEPT ![m] = dataToken!Notified(@)]
          PROVE  \A l \in Lanes : space[l] = "out" => space'[l] = "out"
      BY <3>1, <3>3 DEF dataToken!Notified
    <3> QED
      BY <2>1, <3>2, <3>3, Zenon
  <2> QED
    BY <1>2, <2>2, Zenon DEF SenderInv
<1>7. CountInv'
  BY <1>2, Zenon DEF CountInv, Counted
<1>8. ScanInv'
  <2>1. CASE rpc' = "parked"
    <3>1. Empty /\ Visited /\ active = << >> /\ data' = data
      BY <2>1, Zenon DEF QuietStep, ReceiverDrop, Empty, RegisterData, NotifyReleased, WakeReceiver,
         WakeReceiverEarly, DropRegistration, ReturnDisconnected, LeaveData, StartDrop, CloseLane,
         CloseFlag, NotifyClosed, FinishDrop
    <3>2. rpc = "collectAll" /\ ~(liveSenders = 0 /\ lanes = {})
      BY <2>1, <3>1, Zenon DEF Empty, Collecting, ReceiverInv
    <3>3. liveSenders >= 0
      <4>1. IsFiniteSet(Counted)
        BY LanesAssumption, FS_Subset, Zenon DEF Counted
      <4> QED
        BY <4>1, FS_CardinalityType DEF CountInv
    <3>4. \A l : ~Ahead(l)
      BY <3>1, Zenon DEF Ahead, Visited
    <3>5. \A l \in Lanes : WillNotify(l)' <=> WillNotify(l)
      BY <1>2, Zenon DEF WillNotify
    <3> SUFFICES ASSUME data = "registered", \A l \in Lanes : ~WillNotify(l)
                 PROVE  /\ \A l : l \notin (lanes' \intersect pending') \ queued'
                        /\ lanes' = {} => liveSenders' > 0
      BY <3>1, <3>5, Zenon DEF ScanInv
    <3>6. \A l : l \notin (lanes \intersect pending) \ queued
      BY <3>2, <3>4, Zenon DEF ScanInv
    <3>7. lanes = {} => liveSenders > 0
      BY <3>2, <3>3 DEF TypeOK
    <3> QED
      BY <1>2, <3>6, <3>7, Zenon
  <2>2. CASE rpc' # "parked"
    BY <1>2, <2>2, Zenon DEF ScanInv, Collecting
  <2> QED
    BY <2>1, <2>2
<1> QED
  BY <1>1, <1>3, <1>4, <1>5, <1>6, <1>7, <1>8

\* Every step of the receiver.
LEMMA ReceiverStepInv ==
  ASSUME IInv, ReceiverStep
  PROVE  IInv'
<1>1. CASE StartCollect \/ CollectAgain \/ NextGroup
  <2>1. groupsLeft \subseteq Groups
    BY Zenon DEF IInv, TypeOK
  <2> QED
    BY <1>1, <2>1, TakeGroupStep, Zenon DEF StartCollect, CollectAgain, StartScan, NextGroup
<1>2. CASE StartPoll \/ PollFront
  BY <1>2, PollStep DEF StartPoll, PollFront
<1>3. CASE TakePage \/ TakeLane \/ Pop
  BY <1>3, TakePageStep, TakeLaneStep, PopStep, Zenon
<1>4. CASE SettleRelease \/ FinishDrain \/ Reload \/ Claim \/ CheckProducer
  BY <1>4, SettleReleaseStep, FinishDrainStep, ReloadStep, ClaimStep, CheckProducerStep, Zenon
<1>5. CASE QuietStep
  BY <1>5, QuietStepInv, Zenon
<1> QED
  BY <1>1, <1>2, <1>3, <1>4, <1>5, Zenon DEF ReceiverStep, Receive, QuietStep

-----------------------------------------------------------------------------
(* The senders. *)

\* What a step of a sender does to its own lane.  A mark follows the publication or the
\* drop that it announces, and the notification follows the mark.
MarksLane(l) ==
  /\ tail'[l] # tail[l] => spc'[l] = "mark" /\ l \notin producerDropped
  /\ l \in producerDropped' => l \in producerDropped \/ spc'[l] = "mark"
  /\ spc[l] = "mark" => l \in pending'
  /\ l \in pending' => l \in pending \/ spc'[l] = "page"
  /\ spc[l] = "page" => l \in laneBits'
  /\ laneBits' # laneBits => spc'[l] = "group" \/ \E m \in laneBits : Page[m] = Page[l]
  /\ spc[l] = "group" => Page[l] \in pageBits'
Notifies(l) ==
  /\ data' = "registered" => data = "registered" /\ (WillNotify(l) => WillNotify(l)')
  /\ l \in pending' \ pending => WillNotify(l)'
  /\ liveSenders' # liveSenders => WillNotify(l)'
Counts(l) ==
  \/ liveSenders' = liveSenders /\ (l \in Counted' <=> l \in Counted)
  \/ liveSenders' = liveSenders - 1 /\ l \in Counted /\ l \notin Counted'
Knows(l) ==
  /\ spc'[l] \in {"idle", "push", "try", "register", "parked", "drop", "dropWake"}
       => l \notin producerDropped'
  /\ spc'[l] \in {"count", "gone"} => l \in producerDropped'
  /\ spc'[l] = "register" => space'[l] = "out"

\* A sender marks its lane before it notifies, counts itself out once, and knows what it
\* has pushed: what a step of try_send, publish, mark and drop may do to its own state.
LEMMA SenderLocal ==
  ASSUME IInv, NEW l \in Lanes, SenderStep(l)
  PROVE  MarksLane(l) /\ Notifies(l) /\ Counts(l) /\ Knows(l)
<1> DEFINE Undropped == {"idle", "push", "try", "register", "parked", "drop", "dropWake"}
<1>1. /\ spc \in [Lanes -> SenderLabels] /\ space \in [Lanes -> Tokens]
      /\ spc[l] \in Undropped => l \notin producerDropped
      /\ spc[l] \in {"count", "gone"} => l \in producerDropped
      /\ spc[l] = "register" => space[l] = "out"
  BY ZenonT(30) DEF IInv, TypeOK, SenderInv
<1> USE DEF MarksLane, Notifies, Counts, Knows, Counted, WillNotify, SenderGoto, ringVars, readyVars
<1>2. CASE StartSend(l) \/ TryAgain(l)
  BY <1>1, <1>2, Zenon DEF StartSend, TryAgain, Check
<1>3. CASE Publish(l)
  BY <1>1, <1>3, Zenon DEF Publish
<1>4. CASE Full(l)
  BY <1>1, <1>4, Zenon DEF Full
<1>5. CASE Disconnected(l) \/ RegisterSpace(l)
  BY <1>1, <1>5, Zenon DEF Disconnected, RegisterSpace
<1>6. CASE WakeSender(l) \/ WakeSenderEarly(l)
  BY <1>1, <1>6, Zenon DEF WakeSender, WakeSenderEarly, LeaveSpace
<1>7. CASE Mark(l)
  BY <1>1, <1>7, Zenon DEF Mark, AfterMark
<1>8. CASE MarkPage(l)
  BY <1>1, <1>8, Zenon DEF MarkPage, AfterMark
<1>9. CASE MarkGroup(l)
  BY <1>1, <1>9, Zenon DEF MarkGroup, AfterMark
<1>10. CASE Unregister(l)
  BY <1>1, <1>10, Zenon DEF Unregister
<1>11. CASE NotifyData(l)
  BY <1>1, <1>11, Zenon DEF NotifyData, dataToken!Notified
<1>12. CASE CountDown(l)
  BY <1>1, <1>12, Zenon DEF CountDown
<1>13. CASE Drop(l)
  BY <1>1, <1>13, Zenon DEF Drop
<1> QED
  BY <1>2, <1>3, <1>4, <1>5, <1>6, <1>7, <1>8, <1>9, <1>10, <1>11, <1>12, <1>13, Zenon
  DEF SenderStep, Sender

\* Every step of a sender.
LEMMA SenderStepInv ==
  ASSUME IInv, NEW l \in Lanes, SenderStep(l)
  PROVE  IInv'
<1> USE DEF IInv
<1>1. MarksLane(l) /\ Notifies(l) /\ Counts(l) /\ Knows(l)
  BY SenderLocal, ZenonT(30)
<1>2. UNCHANGED <<released, window, popped, active, queued, lanes, rpc, key,
                  groupsLeft, pagesLeft, lanesLeft>>
  BY SenderFrame, Zenon DEF receiverVars, collectVars
<1>3. /\ \A m \in Lanes \ {l} : spc'[m] = spc[m] /\ tail'[m] = tail[m] /\ space'[m] = space[m]
      /\ tail' \in [Lanes -> Nat] /\ tail[l] <= tail'[l]
  BY SenderFrame, Zenon
<1>4. /\ pending' \in {pending, pending \union {l}}
      /\ laneBits' \in {laneBits, laneBits \union {l}}
      /\ pageBits' \in {pageBits, pageBits \union {Page[l]}}
      /\ producerDropped' \in {producerDropped, producerDropped \union {l}}
  BY SenderFrame, Zenon
<1>5. TypeOK' /\ ReceiverInv'
  BY SenderType, Zenon
<1>6. RotationInv'
  BY <1>2, <1>4, Zenon DEF RotationInv, Polling
<1>7. RingInv'
  <2>1. \A m \in Lanes : window[m] <= tail'[m]
    <3>1. \A m \in Lanes : window[m] \in Nat /\ tail[m] \in Nat /\ window[m] <= tail[m]
      BY Zenon DEF RingInv, TypeOK
    <3>2. \A m \in Lanes : tail'[m] \in Nat /\ tail[m] <= tail'[m]
      BY <1>3, <3>1, SMTT(20)
    <3> QED
      BY <3>1, <3>2
  <2> QED
    BY <1>2, <2>1, Zenon DEF RingInv
<1>8. SenderInv'
  BY <1>1, <1>3, <1>4, Zenon DEF SenderInv, Knows
<1>9. CountInv'
  <2>1. Counted \in SUBSET Lanes /\ IsFiniteSet(Counted) /\ Counted' \in SUBSET Lanes
    BY LanesAssumption, FS_Subset, Zenon DEF Counted
  <2>2. \A m \in Lanes \ {l} : m \in Counted' <=> m \in Counted
    <3>1. \A m \in Lanes \ {l} : m \in producerDropped' <=> m \in producerDropped
      BY <1>4, Zenon
    <3> QED
      BY <1>3, <3>1, Zenon DEF Counted
  <2>3. CASE liveSenders' = liveSenders /\ (l \in Counted' <=> l \in Counted)
    <3>1. Counted' = Counted
      BY <2>1, <2>2, <2>3
    <3> QED
      BY <2>3, <3>1, Zenon DEF CountInv
  <2>4. CASE liveSenders' = liveSenders - 1 /\ l \in Counted /\ l \notin Counted'
    <3>1. Counted' = Counted \ {l}
      BY <2>1, <2>2, <2>4, Zenon
    <3>2. Cardinality(Counted \ {l}) = Cardinality(Counted) - 1
      BY <2>1, <2>4, FS_RemoveElement, Zenon
    <3> QED
      BY <2>4, <3>1, <3>2, Zenon DEF CountInv
  <2> QED
    BY <1>1, <2>3, <2>4, Zenon DEF Counts
<1>10. IndexInv'
  <2> DEFINE Found(m) == \/ Page[m] \in pageBits \union pagesLeft
                         \/ \E n \in Lanes : Page[n] = Page[m] /\ spc[n] = "group"
  <2>1. \A m \in laneBits : Found(m)
    BY ZenonT(30) DEF IndexInv, Indexed
  <2>2. \A m \in laneBits : Found(m)'
    BY <1>1, <1>2, <1>3, <1>4, <2>1, SMTT(20) DEF MarksLane
  <2>3. ASSUME l \in laneBits' \ laneBits PROVE Found(l)'
    <3>1. spc'[l] = "group" \/ \E m \in laneBits : Page[m] = Page[l]
      BY <1>1, <2>3, Zenon DEF MarksLane
    <3> QED
      BY <2>2, <3>1, ZenonT(30)
  <2> QED
    BY <1>4, <2>2, <2>3, ZenonT(30) DEF IndexInv, Indexed
<1>11. PendingInv'
  BY <1>1, <1>2, <1>3, <1>4, ZenonT(30) DEF PendingInv, MarksLane, Collecting, TypeOK
<1>12. UnreadInv'
  BY <1>1, <1>2, <1>3, <1>4, ZenonT(30) DEF UnreadInv, Unread, MarksLane, TypeOK
<1>13. DroppedInv'
  BY <1>1, <1>2, <1>3, <1>4, ZenonT(30) DEF DroppedInv, MarksLane, TypeOK
<1>14. RetiredInv'
  BY <1>1, <1>2, <1>3, <1>4, ZenonT(30) DEF RetiredInv, Unread, MarksLane, TypeOK
<1>15. ScanInv'
  <2> SUFFICES ASSUME data' = "registered", \A m \in Lanes : ~WillNotify(m)'
               PROVE  /\ rpc' \in {"collectAll", "parked"} =>
                           \A m \in (lanes' \intersect pending') \ queued' : Ahead(m)'
                      /\ rpc' = "parked" /\ lanes' = {} => liveSenders' > 0
    BY ZenonT(30) DEF ScanInv
  <2>1. data = "registered" /\ ~WillNotify(l) /\ pending' = pending /\ liveSenders' = liveSenders
    BY <1>1, <1>4, Zenon DEF Notifies
  <2>2. \A m \in Lanes \ {l} : WillNotify(m)' <=> WillNotify(m)
    BY <1>3, <1>4, Zenon DEF WillNotify
  <2>3. \A m \in Lanes : ~WillNotify(m)
    BY <2>1, <2>2, Zenon
  <2> QED
    BY <1>2, <1>4, <2>1, <2>3, ZenonT(30) DEF ScanInv, Ahead
<1> QED
  BY <1>5, <1>6, <1>7, <1>8, <1>9, <1>10, <1>11, <1>12, <1>13, <1>14, <1>15, Zenon

-----------------------------------------------------------------------------
(* The theorems. *)

\* Every step of the channel preserves the invariant.
LEMMA StepInv == IInv /\ [Next]_vars => IInv'
<1> SUFFICES ASSUME IInv, [Next]_vars PROVE IInv'
  BY Zenon
<1>1. ASSUME NEW l \in Lanes, SenderStep(l) PROVE IInv'
  BY <1>1, SenderStepInv
<1>2. CASE ReceiverStep
  BY <1>2, ReceiverStepInv, Zenon
<1>3. CASE UNCHANGED vars
  <2>1. UNCHANGED <<tail, released, window, popped, producerDropped, consumerDropped, pending,
                    laneBits, pageBits, liveSenders, data, space, spc, active, queued, lanes,
                    rpc, key, freed, groupsLeft, pagesLeft, lanesLeft>>
    BY <1>3, Zenon DEF vars, ringVars, readyVars, receiverVars, collectVars
  <2>2. TypeOK' /\ ReceiverInv' /\ RotationInv'
    <3>1. TypeOK'
      BY <2>1, Zenon DEF IInv, TypeOK
    <3>2. ReceiverInv'
      BY <2>1, Zenon DEF IInv, ReceiverInv, Polling, Collecting, ReceiverAlive
    <3>3. RotationInv'
      BY <2>1, Zenon DEF IInv, RotationInv, Polling
    <3> QED
      BY <3>1, <3>2, <3>3, Zenon
  <2>3. RingInv' /\ SenderInv' /\ CountInv'
    BY <2>1, Zenon DEF IInv, RingInv, SenderInv, CountInv, Counted
  <2>4. IndexInv' /\ PendingInv' /\ UnreadInv' /\ DroppedInv' /\ RetiredInv'
    BY <2>1, ZenonT(30) DEF IInv, IndexInv, Indexed, PendingInv, UnreadInv, DroppedInv, RetiredInv, Unread,
       Collecting
  <2>5. ScanInv'
    BY <2>1, Zenon DEF IInv, ScanInv, WillNotify, Ahead
  <2> QED
    BY <2>2, <2>3, <2>4, <2>5, Zenon DEF IInv
<1> QED
  BY <1>1, <1>2, <1>3, Zenon DEF Next, SenderStep, ReceiverStep, Terminated

\* The invariant holds in every reachable state.
THEOREM Invariance == Spec => []IInv
<1> QED
  BY InitInv, StepInv, PTL DEF Spec

\* The rotation holds each lane once, its flags mirror it, and a queued lane is PENDING:
\* queue and queued flags of the receiver, and settle_empty.
LEMMA RotationIsExact == IInv => RotationExact
<1> SUFFICES ASSUME IInv PROVE RotationExact
  BY Zenon
<1>1. active \in Seq(Lanes) /\ IsInjective(active)
  BY Zenon DEF IInv, TypeOK, RotationInv
<1>2. Len(active) \in Nat /\ DOMAIN active = 1 .. Len(active)
      /\ active \in [1 .. Len(active) -> Lanes]
  BY <1>1
<1>3. active \in Surjection(1 .. Len(active), Range(active))
  BY <1>2, Zenon DEF Surjection, Range
<1>4. active \in Injection(1 .. Len(active), Range(active))
  BY <1>1, <1>3, Zenon DEF Injection, Surjection
<1>5. IsFiniteSet(1 .. Len(active)) /\ Cardinality(1 .. Len(active)) = Len(active)
  BY <1>2, FS_Interval
<1>6. Cardinality(Range(active)) = Len(active)
  BY <1>3, <1>4, <1>5, FS_Surjection, Zenon
<1> QED
  BY <1>6, Zenon DEF IInv, RotationInv, RotationExact

\* "This handshake prevents a publication from becoming permanently hidden": the protocol
\* of LaneSignal, ReadyPage, ReadyGroup and settle_empty loses no publication, for any
\* number of lanes, pages and groups.
THEOREM PublicationNotHidden == Spec => []NothingHidden
<1>1. IInv => NothingHidden
  <2> SUFFICES ASSUME IInv PROVE NothingHidden
    OBVIOUS
  <2>1. RotationExact
    BY RotationIsExact
  <2>2. ASSUME NEW l \in lanes, Unread(l)
        PROVE  \/ l \in queued \/ Indexed(l) \/ l \in lanesLeft \intersect pending
               \/ spc[l] = "mark" /\ l \notin pending
               \/ spc[l] = "page"
    BY <2>2, Zenon DEF IInv, UnreadInv, PendingInv, IndexInv
  <2> QED
    BY <2>1, <2>2, Zenon DEF NothingHidden
<1> QED
  BY <1>1, Invariance, PTL

\* Disconnected is reported after the last value of the last sender: is_drained and
\* retire_lane.
THEOREM DisconnectIsLast == Spec => []DisconnectedIsLast
<1>1. IInv => DisconnectedIsLast
  BY Zenon DEF IInv, ReceiverInv, RetiredInv, DisconnectedIsLast
<1> QED
  BY <1>1, Invariance, PTL

\* A receiver that sleeps un-notified has senders left and nothing to receive, or a sender
\* on its way to notify it, and holds no credit: prepare_recv_wait, the recheck and
\* park against publish, mark and notify.
THEOREM ReceiverIsNotStranded == Spec => []ReceiverNotStranded
<1>1. IInv => ReceiverNotStranded
  <2> SUFFICES ASSUME IInv, rpc = "parked" PROVE ReceiverNotStranded
    BY Zenon DEF ReceiverNotStranded
  <2> USE DEF IInv
  <2>1. queued = {} /\ ~Collecting /\ groupsLeft = {} /\ pagesLeft = {} /\ lanesLeft = {}
    <3>1. active = << >> /\ ~Collecting /\ ~Polling /\ ReceiverAlive
      BY ZenonT(30) DEF ReceiverInv, Collecting, Polling, ReceiverAlive
    <3>2. Range(active) = {}
      BY <3>1 DEF Range
    <3> QED
      BY <3>1, <3>2, Zenon DEF ReceiverInv, RotationInv
  <2>2. \A l \in lanes : released[l] = popped[l]
    BY <2>1, Zenon DEF RingInv
  <2>3. ASSUME data = "registered", \A l \in Lanes : ~WillNotify(l)
        PROVE  liveSenders > 0 /\ \A l \in Lanes : ~Unread(l)
    <3>1. lanes \intersect pending = {}
      BY <2>1, <2>3, Zenon DEF ScanInv, Ahead
    <3>2. \A l \in lanes : spc[l] # "mark"
      BY <2>3, <3>1, Zenon DEF WillNotify, TypeOK
    <3>3. \A l \in lanes : ~Unread(l) /\ l \notin producerDropped
      BY <2>1, <3>1, <3>2, Zenon DEF UnreadInv, DroppedInv
    <3>4. \A l \in Lanes : ~Unread(l)
      BY <3>3, Zenon DEF RetiredInv
    <3>5. CASE lanes = {}
      BY <2>3, <3>4, <3>5, Zenon DEF ScanInv
    <3>6. CASE lanes # {}
      <4>1. PICK l \in Lanes : l \in Counted
        BY <3>3, <3>6, Zenon DEF Counted, TypeOK
      <4>2. IsFiniteSet(Counted)
        BY LanesAssumption, FS_Subset, Zenon DEF Counted
      <4>3. Cardinality(Counted) \in Nat /\ Cardinality(Counted) # 0
        BY <4>1, <4>2, FS_CardinalityType, FS_EmptySet, Zenon
      <4> QED
        BY <3>4, <4>3 DEF CountInv
    <3> QED
      BY <3>5, <3>6, Zenon
  <2> QED
    BY <2>2, <2>3, Zenon DEF ReceiverNotStranded
<1> QED
  BY <1>1, Invariance, PTL

\* The receiver's wait cell goes only where a wait cell goes: prepare_recv_wait registers
\* once, every exit leaves, and a notification reaches who is registered.  WaitCell
\* implements WaitToken, so the cell modelled there can stand in for this one.
THEOREM DataCell == Spec => dataToken!Spec
<1>1. Init => dataToken!Init
  BY Zenon DEF Init, dataToken!Init
<1>2. IInv /\ [Next]_vars => [dataToken!Next]_data
  <2> SUFFICES ASSUME IInv, [Next]_vars PROVE dataToken!Next \/ UNCHANGED data
    BY Zenon
  <2> USE DEF dataToken!Next, dataToken!Register, dataToken!Notify, dataToken!Leave
  <2>1. ASSUME NEW l \in Lanes, SenderStep(l) PROVE dataToken!Next \/ UNCHANGED data
    <3>1. data' \in {data, dataToken!Notified(data)}
      BY <2>1, SenderFrame, Zenon DEF IInv
    <3> QED
      BY <3>1
  <2>2. CASE ReceiverStep
    <3>1. rpc = "register" => data = "out"
      BY Zenon DEF IInv, ReceiverInv
    <3>2. CASE \/ StartCollect \/ CollectAgain \/ NextGroup \/ TakePage \/ TakeLane
               \/ StartPoll \/ PollFront \/ Pop
      BY <3>2, Zenon DEF StartCollect, CollectAgain, NextGroup, StartScan, TakeGroup, TakePage, TakeLane,
                  StartPoll, PollFront, Poll, Pop
    <3>3. CASE SettleRelease \/ FinishDrain \/ Reload \/ Claim \/ CheckProducer \/ Empty
      BY <3>3, Zenon DEF SettleRelease, FinishDrain, Reload, Claim, CheckProducer, Empty
    <3>4. CASE RegisterData
      BY <3>1, <3>4, Zenon DEF RegisterData
    <3>5. CASE \/ WakeReceiver \/ WakeReceiverEarly \/ DropRegistration \/ ReturnDisconnected
               \/ NotifyReleased
      BY <3>5, Zenon DEF WakeReceiver, WakeReceiverEarly, DropRegistration, ReturnDisconnected, LeaveData,
                  NotifyReleased
    <3>6. CASE StartDrop \/ ReceiverDrop
      BY <3>6, Zenon DEF StartDrop, ReceiverDrop, CloseLane, CloseFlag, NotifyClosed, FinishDrop
    <3> QED
      BY <2>2, <3>2, <3>3, <3>4, <3>5, <3>6, Zenon DEF ReceiverStep, Receive
  <2>3. CASE UNCHANGED vars
    BY <2>3, Zenon DEF vars
  <2> QED
    BY <2>1, <2>2, <2>3, Zenon DEF Next, SenderStep, ReceiverStep, Terminated
<1> QED
  BY <1>1, <1>2, Invariance, PTL DEF Spec, dataToken!Spec

\* The same of the wait cell of every lane, and its sender: prepare_send_wait, the
\* exits of the blocking loop, notify_released and the drop of the receiver.
THEOREM SpaceCell == ASSUME NEW l \in Lanes PROVE Spec => spaceToken(l)!Spec
<1>1. Init => spaceToken(l)!Init
  BY Zenon DEF Init, spaceToken!Init
<1>2. IInv /\ [Next]_vars => [spaceToken(l)!Next]_(space[l])
  <2> SUFFICES ASSUME IInv, [Next]_vars PROVE spaceToken(l)!Next \/ UNCHANGED space[l]
    BY Zenon
  <2> USE DEF spaceToken!Next, spaceToken!Register, spaceToken!Notify, spaceToken!Leave
  <2>0. space \in [Lanes -> Tokens]
    BY Zenon DEF IInv, TypeOK
  <2>1. ASSUME NEW m \in Lanes \ {l}, SenderStep(m) PROVE space'[l] = space[l]
    BY <2>1, SenderFrame, Zenon DEF IInv
  <2>2. ASSUME SenderStep(l) PROVE spaceToken(l)!Next \/ UNCHANGED space[l]
    <3>1. \/ UNCHANGED space
          \/ space' = [space EXCEPT ![l] = "out"]
          \/ spc[l] = "register" /\ space' = [space EXCEPT ![l] = "registered"]
      BY <2>2, Zenon
      DEF SenderStep, Sender, StartSend, TryAgain, Check, Publish, Full, Disconnected,
          RegisterSpace, WakeSender, WakeSenderEarly, LeaveSpace, Mark, MarkPage, MarkGroup,
          Unregister, NotifyData, CountDown, Drop
    <3>2. spc[l] = "register" => space[l] = "out"
      BY Zenon DEF IInv, SenderInv
    <3> QED
      BY <2>0, <3>1, <3>2, Zenon
  <2>3. CASE QuietStep
    <3>1. space' = space \/ \E m \in Lanes : space' = [space EXCEPT ![m] = dataToken!Notified(@)]
      BY <2>3, QuietNotifies
    <3>2. space'[l] \in {space[l], dataToken!Notified(space[l])}
      BY <2>0, <3>1
    <3> QED
      BY <3>2, Zenon DEF spaceToken!Notified, dataToken!Notified
  <2>4. CASE ReceiverStep /\ ~QuietStep
    <3>1. CASE \/ StartCollect \/ CollectAgain \/ NextGroup \/ TakePage \/ TakeLane
               \/ StartPoll \/ PollFront \/ Pop
      BY <3>1, Zenon DEF StartCollect, CollectAgain, NextGroup, StartScan, TakeGroup, TakePage, TakeLane,
                  StartPoll, PollFront, Poll, Pop
    <3>2. CASE SettleRelease \/ FinishDrain \/ Reload \/ Claim \/ CheckProducer
      BY <3>2, Zenon DEF SettleRelease, FinishDrain, Reload, Claim, CheckProducer
    <3> QED
      BY <2>4, <3>1, <3>2, Zenon DEF ReceiverStep, Receive, QuietStep
  <2>5. CASE UNCHANGED vars
    BY <2>5, Zenon DEF vars
  <2> QED
    BY <2>1, <2>2, <2>3, <2>4, <2>5, Zenon DEF Next, SenderStep, ReceiverStep, Terminated
<1> QED
  BY <1>1, <1>2, Invariance, PTL DEF Spec, spaceToken!Spec
=============================================================================
