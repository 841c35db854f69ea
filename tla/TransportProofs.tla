--------------------------- MODULE TransportProofs ---------------------------
(***************************************************************************)
(* Theorems about Transport: its types, what becomes of late replies, and  *)
(* what success stands for, for every set of calls and every bound.        *)
(***************************************************************************)
EXTENDS TransportProperties, SequenceTheorems, TLAPS

USE DEF LIBMK_FIRMWARE_CTRL, LIBMK_EFFECT_CTRL, LIBMK_CUSTOM_CTRL, LIBMK_PROFILE_CTRL, LIBMK_EFF_CUSTOM

-----------------------------------------------------------------------------
(* Typing *)

\* Every call has packets to send, and they are packets.
LEMMA ScriptType == ASSUME NEW c \in Calls PROVE Script(c) \in Seq(Packets) /\ Script(c) # <<>>
<1>1. c.name \in Names /\ c.arg \in Int
  BY CallsAssumption
<1>2. /\ \A a \in Int : Mode(a) \in Packets /\ Effect(a) \in Packets
                        /\ Packet("profile", a, "required") \in Packets
      /\ EffectCtrl \in Packets /\ Led \in Packets
      /\ Query("firmware") \in Packets /\ Query("get_profile") \in Packets
      /\ Packet("save", 0, "optional") \in Packets
  BY DEF Mode, Effect, EffectCtrl, Led, Query, Packet, Packets
<1>3. \A a \in Int : EffectScript(a) \in Seq(Packets) /\ EffectScript(a) # <<>>
  BY <1>2 DEF EffectScript
<1>4. CASE c.name = "set_control_mode"
  BY <1>1, <1>2, <1>4 DEF Script
<1>a. CASE c.name = "enable_control"
  BY <1>2, <1>a DEF Script
<1>b. CASE c.name = "set_effect"
  BY <1>1, <1>3, <1>b DEF Script
<1>5. CASE c.name = "set_effect_details"
  BY <1>1, <1>2, <1>3, <1>5 DEF Script
<1>6. CASE c.name = "set_full_color"
  BY <1>2, <1>6 DEF Script
<1>c. CASE c.name = "set_single_led"
  BY <1>2, <1>c DEF Script
<1>d. CASE c.name = "get_active_profile"
  BY <1>2, <1>d DEF Script
<1>7. CASE c.name = "set_all_led_color"
  <2>1. [i \in 1..LedPackets |-> Led] \in Seq(Packets)
    BY <1>2, BoundsAssumption
  <2>2. EffectScript(LIBMK_EFF_CUSTOM) \in Seq(Packets) /\ EffectScript(LIBMK_EFF_CUSTOM) # <<>>
    BY <1>3
  <2>3. EffectScript(LIBMK_EFF_CUSTOM) \o [i \in 1..LedPackets |-> Led] \in Seq(Packets)
    BY <2>1, <2>2, ConcatProperties
  <2>4. EffectScript(LIBMK_EFF_CUSTOM) \o [i \in 1..LedPackets |-> Led] # <<>>
    BY <2>1, <2>2, ConcatEqualIffEmpty
  <2>. QED  BY <1>7, <2>3, <2>4 DEF Script
<1>8. CASE c.name = "save_profile"
  BY <1>2, <1>8 DEF Script, SaveScript
<1>9. CASE c.name = "set_active_profile"
  BY <1>1, <1>2, <1>9 DEF Script, ProfileScript
<1>. QED  BY <1>1, <1>4, <1>a, <1>b, <1>5, <1>6, <1>c, <1>d, <1>7, <1>8, <1>9 DEF Names

\* Going on with a rest of the packets keeps the fields of the library typed.
Library == todo \in Seq(Packets) /\ pc \in {"idle", "out", "in"} /\ (pc = "idle" <=> todo = <<>>)

LEMMA ContinueType ==
    ASSUME NEW rest \in Seq(Packets), Continue(rest)
    PROVE Library' /\ pc' # "in"
BY DEF Continue, Library

LEMMA FailureType ==
    ASSUME TypeOK, NEW error, FailsWith(error)
    PROVE Library' /\ pc' # "in" /\ result' = error
<1>1. CASE Ignored
  <2>1. SubSeq(todo, Len(todo) - LedPackets + 1, Len(todo)) \in Seq(Packets)
    BY <1>1, BoundsAssumption DEF Ignored, TypeOK
  <2>. QED  BY <1>1, <2>1, ContinueType DEF FailsWith
<1>2. CASE ~Ignored
  <2>1. <<>> \in Seq(Packets)
    OBVIOUS
  <2>. QED  BY <1>2, <2>1, ContinueType DEF FailsWith
<1>. QED  BY <1>1, <1>2

LEMMA SuccessType ==
    ASSUME TypeOK, todo # <<>>, Succeeds
    PROVE Library' /\ pc' # "in" /\ result' = "LIBMK_SUCCESS"
<1>1. Tail(todo) \in Seq(Packets)
  BY DEF TypeOK
<1>. QED  BY <1>1, ContinueType DEF Succeeds

\* The variables of every call and exchange keep their types.
THEOREM TransportTypes == Spec => []TypeOK
<1>1. Init => TypeOK
  <2>. SUFFICES ASSUME Init PROVE TypeOK
    OBVIOUS
  <2>1. todo \in Seq(Packets) /\ outgoing \in Seq(SentPackets) /\ incoming \in Seq(Replies)
    BY EmptySeq DEF Init
  <2>2. call \in Calls \cup {[name |-> "none", arg |-> 0]}
    BY DEF Init
  <2>3. pc \in {"idle", "out", "in"} /\ (pc = "idle" <=> todo = <<>>)
    BY DEF Init
  <2>4. result \in {"LIBMK_SUCCESS", "LIBMK_ERR_TRANSFER", "LIBMK_ERR_PROTOCOL"} /\ data \in Int
    BY DEF Init
  <2>5. /\ mode \in Int /\ effect \in Int /\ profile \in Int /\ saved \in Int
        /\ sent \in Nat
    BY DEF Init
  <2>6. calls \in 0..MaxCalls /\ late \in 0..MaxLate
    BY BoundsAssumption DEF Init
  <2>7. rejected \in BOOLEAN /\ stray \in BOOLEAN
    BY DEF Init
  <2>. QED  BY <2>1, <2>2, <2>3, <2>4, <2>5, <2>6, <2>7 DEF TypeOK
<1>2. TypeOK /\ [Next]_vars => TypeOK'
  <2>. SUFFICES ASSUME TypeOK, [Next]_vars PROVE TypeOK'
    OBVIOUS
  <2>1. ASSUME NEW c \in Calls, Call(c) PROVE TypeOK'
    <3>1. todo' \in Seq(Packets) /\ todo' # <<>>
      BY <2>1, ScriptType DEF Call
    <3>2. calls' \in 0..MaxCalls
      BY <2>1, BoundsAssumption DEF Call, TypeOK
    <3>3. call' \in Calls
      BY <2>1 DEF Call
    <3>. QED  BY <2>1, <3>1, <3>2, <3>3 DEF Call, TypeOK, keyboard
  <2>2. CASE Send
    <3>1. Head(todo) \in Packets /\ todo # <<>>
      BY <2>2 DEF Send, TypeOK
    <3>2. [packet |-> Head(todo), id |-> sent + 1] \in SentPackets
      BY <3>1 DEF TypeOK, SentPackets
    <3>3. outgoing' \in Seq(SentPackets)
      BY <2>2, <3>2, AppendProperties DEF Send, TypeOK
    <3>. QED  BY <2>2, <3>1, <3>3 DEF Send, ReadsReply, TypeOK, keyboard
  <2>3. CASE SendFails
    <3>1. Library' /\ result' = TransferError
      BY <2>3, FailureType DEF SendFails
    <3>. QED  BY <2>3, <3>1 DEF SendFails, TransferError, Library, TypeOK, keyboard
  <2>4. CASE Receive
    <3>1. Library' /\ result' \in {"LIBMK_SUCCESS", "LIBMK_ERR_PROTOCOL"}
      BY <2>4, SuccessType, FailureType DEF Receive, TypeOK
    <3>2. Head(incoming) \in Replies /\ Tail(incoming) \in Seq(Replies)
      BY <2>4, HeadTailProperties DEF Receive, TypeOK
    <3>3. data' \in Int
      BY <2>4, <3>2 DEF Receive, TypeOK, Replies
    <3>. QED  BY <2>4, <3>1, <3>2, <3>3 DEF Receive, Library, TypeOK, keyboard
  <2>5. CASE TimedOut
    <3>1. Library' /\ result' \in {"LIBMK_SUCCESS", "LIBMK_ERR_TRANSFER"}
      BY <2>5, SuccessType, FailureType DEF TimedOut, TransferError, TypeOK
    <3>. QED  BY <2>5, <3>1, BoundsAssumption DEF TimedOut, Library, TypeOK, keyboard
  <2>6. CASE Answer \/ Reject
    <3>1. Head(outgoing) \in SentPackets /\ Tail(outgoing) \in Seq(SentPackets)
      BY <2>6, HeadTailProperties DEF Answer, Reject, TypeOK
    <3>2. ASSUME NEW ok \in BOOLEAN, Reply(ok) PROVE incoming' \in Seq(Replies)
      <4>. DEFINE reply == [id |-> Head(outgoing).id, ok |-> ok,
             value |-> IF ok /\ Head(outgoing).packet.op = "get_profile" THEN profile ELSE 0]
      <4>1. reply \in Replies
        BY <3>1, <3>2 DEF Replies, SentPackets, TypeOK
      <4>2. incoming' = Append(incoming, reply)
        BY <3>2 DEF Reply
      <4>. HIDE DEF reply
      <4>. QED  BY <4>1, <4>2, AppendProperties DEF TypeOK
    <3>4. incoming' \in Seq(Replies)
      BY <2>6, <3>2 DEF Answer, Reject
    <3>3. mode' \in Int /\ effect' \in Int /\ profile' \in Int /\ saved' \in Int
      BY <2>6, <3>1 DEF Answer, Reject, Applied, Packets, SentPackets, TypeOK, keyboard
    <3>. QED  BY <2>6, <3>1, <3>3, <3>4 DEF Answer, Reject, TypeOK, library
  <2>7. CASE UNCHANGED vars
    BY <2>7 DEF vars, library, keyboard, TypeOK
  <2>. QED  BY <2>1, <2>2, <2>3, <2>4, <2>5, <2>6, <2>7 DEF Next
<1>. QED  BY <1>1, <1>2, PTL DEF Spec

-----------------------------------------------------------------------------
(* Late replies *)

\* What the exchange keeps: the count and the order of what is under way,
\* and that a reply is only ever taken for another after one was late.
LateInv == Lagging /\ (late = 0 => ~stray)

\* A packet that was sent is the last of those under way.
LEMMA SendKeepsLate == ASSUME TypeOK, LateInv, Send PROVE LateInv'
<1>1. PICK packet \in SentPackets : outgoing' = Append(outgoing, packet) /\ packet.id = sent + 1
  <2>. DEFINE packet == [packet |-> Head(todo), id |-> sent + 1]
  <2>1. Head(todo) \in Packets
    BY HeadTailProperties DEF Send, TypeOK
  <2>2. packet \in SentPackets /\ packet.id = sent + 1
    BY <2>1 DEF SentPackets, TypeOK
  <2>3. outgoing' = Append(outgoing, packet)
    BY DEF Send
  <2>. HIDE DEF packet
  <2>. QED  BY <2>2, <2>3
<1>2. /\ Len(outgoing') = Len(outgoing) + 1
      /\ \A i \in 1..Len(outgoing) : outgoing'[i] = outgoing[i]
      /\ outgoing'[Len(outgoing) + 1] = packet
  BY <1>1, AppendProperties DEF TypeOK
<1>3. Len(incoming) \in Nat /\ Len(outgoing) \in Nat /\ sent \in Nat /\ late \in Nat
  BY LenProperties, BoundsAssumption DEF TypeOK
<1>4. pc = "out" /\ pc' = "in" /\ sent' = sent + 1 /\ UNCHANGED <<incoming, late, stray>>
  BY DEF Send, ReadsReply
<1>5. Len(incoming) + Len(outgoing) = late
  BY <1>4 DEF LateInv, Lagging, UnderWay
<1>6. UnderWay' = late + 1 /\ UnderWay = late
  BY <1>2, <1>3, <1>4, <1>5 DEF UnderWay
<1>7. \A i \in 1..Len(incoming') : incoming'[i].id = sent' - UnderWay' + i
  BY <1>3, <1>4, <1>6 DEF LateInv, Lagging
<1>8. ASSUME NEW i \in 1..Len(outgoing') PROVE outgoing'[i].id = sent' - Len(outgoing') + i
  <2>1. CASE i \in 1..Len(outgoing)
    <3>1. outgoing[i].id = sent - Len(outgoing) + i
      BY <2>1 DEF LateInv, Lagging
    <3>. QED  BY <2>1, <3>1, <1>2, <1>3, <1>4
  <2>2. CASE i = Len(outgoing) + 1
    BY <2>2, <1>1, <1>2, <1>3, <1>4
  <2>. QED  BY <2>1, <2>2, <1>2, <1>3
<1>. QED  BY <1>4, <1>6, <1>7, <1>8 DEF LateInv, Lagging

\* A reply is the first under way, and another one when there are more.
LEMMA ReceiveKeepsLate == ASSUME TypeOK, LateInv, Receive PROVE LateInv'
<1>1. /\ Len(incoming') = Len(incoming) - 1
      /\ \A i \in 1..Len(incoming') : incoming'[i] = incoming[i + 1]
      /\ Len(incoming) >= 1 /\ Head(incoming) = incoming[1]
  <2>1. incoming # <<>> /\ incoming \in Seq(Replies) /\ incoming' = Tail(incoming)
    BY DEF Receive, TypeOK
  <2>2. Len(incoming) >= 1
    BY <2>1, EmptySeq
  <2>. QED  BY <2>1, <2>2, HeadTailProperties
<1>2. Len(incoming) \in Nat /\ Len(outgoing) \in Nat /\ sent \in Nat /\ late \in Nat
  BY LenProperties, BoundsAssumption DEF TypeOK
<1>3. pc = "in" /\ pc' # "in" /\ UNCHANGED <<outgoing, sent, late>>
  BY SuccessType, FailureType DEF Receive, TypeOK
<1>4. Lagging'
  <2>1. Len(incoming) + Len(outgoing) = late + 1
    BY <1>3 DEF LateInv, Lagging, UnderWay
  <2>2. UnderWay' = late /\ UnderWay = late + 1
    BY <1>1, <1>2, <1>3, <2>1 DEF UnderWay
  <2>3. ASSUME NEW i \in 1..Len(incoming') PROVE incoming'[i].id = sent' - UnderWay' + i
    <3>1. i + 1 \in 1..Len(incoming) /\ i \in Int
      BY <1>1, <1>2
    <3>2. incoming[i + 1].id = sent - UnderWay + (i + 1)
      BY <3>1 DEF LateInv, Lagging
    <3>. QED  BY <1>1, <1>2, <1>3, <2>2, <3>1, <3>2
  <2>4. \A i \in 1..Len(outgoing') : outgoing'[i].id = sent' - Len(outgoing') + i
    BY <1>3 DEF LateInv, Lagging
  <2>. QED  BY <1>3, <2>2, <2>3, <2>4 DEF Lagging
<1>5. late = 0 => Head(incoming).id = sent
  BY <1>1, <1>2, <1>3 DEF LateInv, Lagging, UnderWay
<1>6. stray' = (stray \/ Head(incoming).id # sent)
  BY DEF Receive
<1>. QED  BY <1>3, <1>4, <1>5, <1>6 DEF LateInv

\* The answer to the oldest packet joins the replies at their end.
LEMMA AnswerKeepsLate == ASSUME TypeOK, LateInv, Answer \/ Reject PROVE LateInv'
<1>1. PICK reply \in Replies : incoming' = Append(incoming, reply) /\ reply.id = Head(outgoing).id
  <2>1. Head(outgoing) \in SentPackets
    BY HeadTailProperties DEF Answer, Reject, TypeOK
  <2>2. ASSUME NEW ok \in BOOLEAN, Reply(ok)
        PROVE \E reply \in Replies : incoming' = Append(incoming, reply) /\ reply.id = Head(outgoing).id
    <3>. DEFINE reply == [id |-> Head(outgoing).id, ok |-> ok,
           value |-> IF ok /\ Head(outgoing).packet.op = "get_profile" THEN profile ELSE 0]
    <3>1. reply \in Replies /\ reply.id = Head(outgoing).id
      BY <2>1 DEF Replies, SentPackets, TypeOK
    <3>2. incoming' = Append(incoming, reply)
      BY <2>2 DEF Reply
    <3>. HIDE DEF reply
    <3>. QED  BY <3>1, <3>2
  <2>. QED  BY <2>2 DEF Answer, Reject
<1>2. /\ Len(incoming') = Len(incoming) + 1
      /\ \A i \in 1..Len(incoming) : incoming'[i] = incoming[i]
      /\ incoming'[Len(incoming) + 1] = reply
  BY <1>1, AppendProperties DEF TypeOK
<1>3. /\ Len(outgoing') = Len(outgoing) - 1
      /\ \A i \in 1..Len(outgoing') : outgoing'[i] = outgoing[i + 1]
      /\ Len(outgoing) >= 1 /\ Head(outgoing) = outgoing[1]
  <2>1. outgoing # <<>> /\ outgoing \in Seq(SentPackets) /\ outgoing' = Tail(outgoing)
    BY DEF Answer, Reject, TypeOK
  <2>2. Len(outgoing) >= 1
    BY <2>1, EmptySeq
  <2>. QED  BY <2>1, <2>2, HeadTailProperties
<1>4. Len(incoming) \in Nat /\ Len(outgoing) \in Nat /\ sent \in Nat /\ late \in Nat
  BY LenProperties, BoundsAssumption DEF TypeOK
<1>5. UNCHANGED <<pc, sent, late, stray>>
  BY DEF Answer, Reject, library
<1>6. UnderWay' = UnderWay
  BY <1>2, <1>3, <1>4 DEF UnderWay
<1>7. ASSUME NEW i \in 1..Len(incoming') PROVE incoming'[i].id = sent' - UnderWay' + i
  <2>1. CASE i \in 1..Len(incoming)
    <3>1. incoming[i].id = sent - UnderWay + i
      BY <2>1 DEF LateInv, Lagging
    <3>. QED  BY <2>1, <3>1, <1>2, <1>5, <1>6
  <2>2. CASE i = Len(incoming) + 1
    <3>1. 1 \in 1..Len(outgoing)
      BY <1>3, <1>4
    <3>2. outgoing[1].id = sent - Len(outgoing) + 1
      BY <3>1 DEF LateInv, Lagging
    <3>3. UnderWay = Len(incoming) + Len(outgoing)
      BY DEF UnderWay
    <3>. QED  BY <2>2, <3>2, <3>3, <1>1, <1>2, <1>3, <1>4, <1>5, <1>6
  <2>. QED  BY <2>1, <2>2, <1>2, <1>4
<1>8. ASSUME NEW i \in 1..Len(outgoing') PROVE outgoing'[i].id = sent' - Len(outgoing') + i
  <2>1. i + 1 \in 1..Len(outgoing) /\ i \in Int
    BY <1>3, <1>4
  <2>2. outgoing[i + 1].id = sent - Len(outgoing) + (i + 1)
    BY <2>1 DEF LateInv, Lagging
  <2>. QED  BY <1>3, <1>4, <1>5, <2>1, <2>2
<1>. QED  BY <1>5, <1>6, <1>7, <1>8 DEF LateInv, Lagging

LEMMA LateIsKept == TypeOK /\ LateInv /\ [Next]_vars => LateInv'
<1>. SUFFICES ASSUME TypeOK, LateInv, [Next]_vars PROVE LateInv'
  OBVIOUS
<1>0. Len(incoming) \in Nat /\ Len(outgoing) \in Nat /\ sent \in Nat /\ late \in Nat
  BY LenProperties, BoundsAssumption DEF TypeOK
<1>1. ASSUME NEW c \in Calls, Call(c) PROVE LateInv'
  BY <1>0, <1>1 DEF Call, LateInv, Lagging, UnderWay
<1>2. CASE Send
  BY <1>2, SendKeepsLate
<1>3. CASE SendFails
  <2>1. pc = "out" /\ pc' # "in" /\ UNCHANGED <<incoming, outgoing, sent, late, stray>>
    BY <1>3, FailureType DEF SendFails
  <2>. QED  BY <1>0, <2>1 DEF LateInv, Lagging, UnderWay
<1>4. CASE Receive
  BY <1>4, ReceiveKeepsLate
<1>5. CASE TimedOut
  <2>1. /\ pc = "in" /\ pc' # "in" /\ late' = late + 1
        /\ UNCHANGED <<incoming, outgoing, sent, stray>>
    BY <1>5, FailureType, SuccessType DEF TimedOut, TypeOK
  <2>. QED  BY <1>0, <2>1 DEF LateInv, Lagging, UnderWay
<1>6. CASE Answer \/ Reject
  BY <1>6, AnswerKeepsLate
<1>7. CASE UNCHANGED vars
  BY <1>7 DEF vars, library, LateInv, Lagging, UnderWay
<1>. QED  BY <1>1, <1>2, <1>3, <1>4, <1>5, <1>6, <1>7 DEF Next

LEMMA LateAlways == Spec => []LateInv
<1>1. Init => LateInv
  BY EmptySeq DEF Init, LateInv, Lagging, UnderWay
<1>. QED  BY <1>1, LateIsKept, TransportTypes, PTL DEF Spec

\* A reply that came too late is never made up for: from then on every read
\* takes the reply to an earlier packet, as many packets back as there were
\* late replies.
THEOREM LateRepliesStay == Spec => []Lagging
<1>1. LateInv => Lagging
  BY DEF LateInv
<1>. QED  BY <1>1, LateAlways, PTL

\* Without a late reply calls leave nothing behind, whatever failed, and
\* read the replies to their own packets.
THEOREM NothingIsLeft == Spec => []NothingUnderWay
<1>1. TypeOK /\ LateInv => NothingUnderWay
  <2>. SUFFICES ASSUME TypeOK, LateInv, late = 0, Idle PROVE outgoing = <<>> /\ incoming = <<>>
    BY DEF NothingUnderWay, LateInv
  <2>1. Len(incoming) + Len(outgoing) = 0
    BY DEF LateInv, Lagging, UnderWay, Idle
  <2>2. Len(incoming) = 0 /\ Len(outgoing) = 0
    BY <2>1, LenProperties DEF TypeOK
  <2>. QED  BY <2>2, EmptySeq DEF TypeOK
<1>. QED  BY <1>1, LateAlways, TransportTypes, PTL
-----------------------------------------------------------------------------
(* Success *)

\* The first n packets of a plan have had their effect on the keyboard, but
\* for what a later one of them undid.
Did(plan, n) ==
    \A i \in 1..n :
        /\ plan[i].op = "mode" /\ (\A j \in (i + 1)..n : plan[j].op # "mode") => mode = plan[i].arg
        /\ plan[i].op = "effect" /\ (\A j \in (i + 1)..n : plan[j].op # "effect") => effect = plan[i].arg
        /\ plan[i].op = "profile" /\ (\A j \in (i + 1)..n : plan[j].op # "profile") => profile = plan[i].arg
        /\ plan[i].op = "save" /\ (\A j \in (i + 1)..n : plan[j].op # "profile") => saved = profile

LEMMA AppliedDoes ==
    ASSUME NEW plan, NEW n \in Nat, Did(plan, n), Applied(plan[n + 1])
    PROVE  Did(plan, n + 1)'
<1>. SUFFICES ASSUME NEW i \in 1..(n + 1)
     PROVE /\ plan[i].op = "mode" /\ (\A j \in (i + 1)..(n + 1) : plan[j].op # "mode") => mode' = plan[i].arg
           /\ plan[i].op = "effect" /\ (\A j \in (i + 1)..(n + 1) : plan[j].op # "effect") => effect' = plan[i].arg
           /\ plan[i].op = "profile" /\ (\A j \in (i + 1)..(n + 1) : plan[j].op # "profile") => profile' = plan[i].arg
           /\ plan[i].op = "save" /\ (\A j \in (i + 1)..(n + 1) : plan[j].op # "profile") => saved' = profile'
  BY DEF Did
<1>1. CASE i = n + 1
  BY <1>1 DEF Applied
<1>2. CASE i \in 1..n
  <2>1. n + 1 \in (i + 1)..(n + 1) /\ \A j \in (i + 1)..n : j \in (i + 1)..(n + 1)
    BY <1>2
  <2>. QED  BY <1>2, <2>1 DEF Did, Applied
<1>. QED  BY <1>1, <1>2

\* The packets still to send are the end of the plan, those before them have
\* had their effect, and the one under way is the next.
Followed(plan) ==
    LET n == Len(plan) - Len(todo) IN
    /\ pc # "idle" => n \in Nat /\ \A i \in 1..Len(todo) : todo[i] = plan[n + i]
    /\ pc = "out" => Did(plan, n)
    /\ pc = "in" /\ outgoing # <<>> => outgoing[1].packet = todo[1] /\ Did(plan, n)
    /\ pc = "in" /\ incoming # <<>> =>
         /\ incoming[1].ok \/ todo[1].reply = "query" => Did(plan, n + 1)
         /\ todo[1] = Query("get_profile") => incoming[1].value = profile
    /\ pc = "idle" /\ result = "LIBMK_SUCCESS" =>
         /\ Did(plan, Len(plan))
         /\ plan = <<Query("get_profile")>> => data = profile

Single == call \in Calls /\ call.name # "set_all_led_color"
ScriptInv == late = 0 /\ Single => Followed(Script(call))

\* What is under way while no reply was late.
LEMMA OneUnderWay ==
    ASSUME TypeOK, LateInv, late = 0
    PROVE  /\ Len(incoming) \in Nat /\ Len(outgoing) \in Nat
           /\ pc # "in" => incoming = <<>> /\ outgoing = <<>>
           /\ pc = "in" => \/ incoming = <<>> /\ Len(outgoing) = 1
                           \/ outgoing = <<>> /\ Len(incoming) = 1
<1>1. /\ Len(incoming) \in Nat /\ Len(outgoing) \in Nat
      /\ Len(incoming) = 0 => incoming = <<>>
      /\ Len(outgoing) = 0 => outgoing = <<>>
  BY EmptySeq, LenProperties DEF TypeOK
<1>2. Len(incoming) + Len(outgoing) = IF pc = "in" THEN 1 ELSE 0
  BY DEF LateInv, Lagging, UnderWay
<1>3. CASE pc # "in"
  BY <1>1, <1>2, <1>3
<1>4. CASE pc = "in"
  <2>1. Len(incoming) + Len(outgoing) = 1
    BY <1>2, <1>4
  <2>2. (Len(incoming) = 0 /\ Len(outgoing) = 1) \/ (Len(outgoing) = 0 /\ Len(incoming) = 1)
    <3>1. \A m, n \in Nat : m + n = 1 => (m = 0 /\ n = 1) \/ (n = 0 /\ m = 1)
      OBVIOUS
    <3>. QED  BY <1>1, <2>1, <3>1
  <2>. QED  BY <1>1, <1>4, <2>2
<1>. QED  BY <1>1, <1>3, <1>4

LEMMA ScriptInvLibrary ==
    ASSUME TypeOK, LateInv, ScriptInv, late = 0, Single, Send \/ SendFails \/ Receive
    PROVE  ScriptInv'
<1>p. PICK plan, n : plan = Script(call) /\ n = Len(plan) - Len(todo)
  OBVIOUS
<1>0. plan \in Seq(Packets) /\ Len(plan) \in Nat /\ call' = call /\ late' = late
  BY <1>p, ScriptType DEF Single, Send, SendFails, Receive
<1>1. /\ todo \in Seq(Packets) /\ todo # <<>> /\ Len(todo) \in Nat /\ Len(todo) >= 1
      /\ Head(todo) = todo[1] /\ pc # "idle"
  BY EmptySeq, LenProperties DEF TypeOK, Send, SendFails, Receive
<1>2. Followed(plan)
  BY <1>p DEF ScriptInv
<1>3. ASSUME Followed(plan)'  PROVE ScriptInv'
  BY <1>p, <1>0, <1>3 DEF ScriptInv
<1>4. n \in Nat /\ n < Len(plan) /\ \A i \in 1..Len(todo) : todo[i] = plan[n + i]
  <2>1. n \in Nat /\ \A i \in 1..Len(todo) : todo[i] = plan[n + i]
    BY <1>p, <1>1, <1>2 DEF Followed
  <2>. QED  BY <1>p, <1>0, <1>1, <2>1
<1>5. CASE Send
  <2>1. /\ pc' = "in" /\ UNCHANGED <<todo, result, incoming, data, mode, effect, profile, saved>>
        /\ outgoing' = Append(outgoing, [packet |-> Head(todo), id |-> sent + 1])
    BY <1>5 DEF Send, ReadsReply, keyboard
  <2>2. incoming = <<>> /\ outgoing = <<>> /\ Did(plan, n)
    BY <1>p, <1>2, <1>5, OneUnderWay DEF Send, Followed
  <2>3. outgoing'[1].packet = todo[1]
    BY <1>1, <2>1, <2>2
  <2>4. Did(plan, n)'
    BY <2>1, <2>2 DEF Did
  <2>5. Len(todo') = Len(todo)
    BY <2>1
  <2>6. Followed(plan)'
    BY <1>p, <1>0, <1>4, <2>1, <2>2, <2>3, <2>4, <2>5 DEF Followed
  <2>. QED  BY <1>3, <2>6
<1>6. ASSUME FailsWith("LIBMK_ERR_TRANSFER") \/ FailsWith("LIBMK_ERR_PROTOCOL")  PROVE ScriptInv'
  <2>1. pc' = "idle" /\ result' # "LIBMK_SUCCESS"
    BY <1>6 DEF FailsWith, Ignored, Single, Continue
  <2>. QED  BY <1>3, <2>1 DEF Followed
<1>7. CASE SendFails
  BY <1>6, <1>7 DEF SendFails, TransferError
<1>8. CASE Receive
  <2>1. pc = "in" /\ Len(incoming) = 1 /\ incoming # <<>> /\ Head(incoming) = incoming[1]
    BY <1>8, OneUnderWay, EmptySeq DEF Receive, TypeOK
  <2>2. CASE ~Accepts(Head(incoming))
    BY <1>6, <1>8, <2>2 DEF Receive
  <2>3. CASE Accepts(Head(incoming))
    <3>1. /\ result' = "LIBMK_SUCCESS" /\ Continue(Tail(todo)) /\ UNCHANGED <<mode, effect, profile, saved>>
          /\ data' = IF Head(todo).reply = "query" THEN Head(incoming).value ELSE data
      BY <1>8, <2>3 DEF Receive, Succeeds, keyboard
    <3>2. Did(plan, n + 1)
      BY <1>p, <1>1, <1>2, <2>1, <2>3 DEF Followed, Accepts
    <3>3. Tail(todo) \in Seq(Packets) /\ Len(Tail(todo)) = Len(todo) - 1
          /\ \A i \in 1..(Len(todo) - 1) : Tail(todo)[i] = todo[i + 1]
      BY <1>1, HeadTailProperties
    <3>6. Did(plan, n + 1)'
      BY <3>1, <3>2 DEF Did
    <3>7. CASE Tail(todo) = <<>>
      <4>1. Len(todo) = 1 /\ n + 1 = Len(plan)
        <5>1. Len(Tail(todo)) = 0
          BY <3>3, <3>7, EmptySeq
        <5>2. Len(todo) = 1
          <6>1. Len(todo) \in Nat /\ 0 = Len(todo) - 1
            BY <1>1, <3>3, <5>1
          <6>. QED  BY <6>1
        <5>. QED  BY <1>p, <1>0, <5>2
      <4>2. pc' = "idle" /\ todo' = <<>>
        BY <3>1, <3>7 DEF Continue
      <4>3. Did(plan, Len(plan))'
        BY <3>6, <4>1
      <4>4. ASSUME plan = <<Query("get_profile")>>  PROVE data' = profile'
        <5>1. todo[1] = Query("get_profile")
          BY <1>4, <4>1, <4>4
        <5>2. incoming[1].value = profile
          BY <1>2, <2>1, <5>1 DEF Followed
        <5>. QED  BY <1>1, <2>1, <3>1, <5>1, <5>2 DEF Query, Packet
      <4>. QED  BY <1>3, <4>2, <4>3, <4>4 DEF Followed
    <3>8. CASE Tail(todo) # <<>>
      <4>1. pc' = "out" /\ todo' = Tail(todo)
        BY <3>1, <3>8 DEF Continue
      <4>2. Len(plan) - Len(todo') = n + 1
        BY <1>p, <1>0, <1>1, <3>3, <4>1
      <4>3. \A i \in 1..Len(todo') : todo'[i] = plan[(n + 1) + i]
        <5>. SUFFICES ASSUME NEW i \in 1..Len(todo')  PROVE todo'[i] = plan[(n + 1) + i]
          OBVIOUS
        <5>1. i + 1 \in 1..Len(todo) /\ n + (i + 1) = (n + 1) + i
          <6>1. Len(todo') = Len(todo) - 1
            BY <3>3, <4>1
          <6>2. i \in Nat /\ i + 1 >= 1 /\ i + 1 <= Len(todo)
            BY <1>1, <6>1
          <6>. QED  BY <1>1, <1>4, <6>2
        <5>. QED  BY <1>4, <3>3, <4>1, <5>1
      <4>4. Did(plan, Len(plan) - Len(todo))'
        BY <3>6, <4>2
      <4>5. n + 1 \in Nat
        BY <1>4
      <4>6. Followed(plan)'
        BY <4>1, <4>2, <4>3, <4>4, <4>5 DEF Followed
      <4>. QED  BY <1>3, <4>6
    <3>. QED  BY <3>7, <3>8
  <2>. QED  BY <2>2, <2>3
<1>. QED  BY <1>5, <1>7, <1>8

LEMMA ScriptInvKeyboard ==
    ASSUME "reject_query" \notin Faults,
           TypeOK, LateInv, ScriptInv, late = 0, Single, Answer \/ Reject
    PROVE  ScriptInv'
<1>p. PICK plan, n : plan = Script(call) /\ n = Len(plan) - Len(todo)
  OBVIOUS
<1>1. /\ outgoing # <<>> /\ UNCHANGED <<call, todo, pc, result, data, late>>
      /\ outgoing' = Tail(outgoing)
  BY DEF Answer, Reject, library
<1>2. pc = "in" /\ Len(outgoing) = 1 /\ incoming = <<>> /\ outgoing' = <<>>
  BY <1>1, OneUnderWay, EmptySeq, HeadTailProperties DEF TypeOK
<1>3. /\ n \in Nat /\ Followed(plan) /\ Did(plan, n)
      /\ Head(outgoing).packet = todo[1] /\ todo[1] = plan[n + 1] /\ Head(todo) = todo[1]
  <2>1. todo # <<>> /\ todo \in Seq(Packets)
    BY <1>2 DEF TypeOK
  <2>2. 1 \in 1..Len(todo) /\ Head(todo) = todo[1]
    BY <2>1, EmptySeq
  <2>3. Head(outgoing) = outgoing[1]
    BY <1>1 DEF TypeOK
  <2>4. Followed(plan)
    BY <1>p DEF ScriptInv
  <2>. QED  BY <1>p, <1>1, <1>2, <2>2, <2>3, <2>4 DEF Followed
<1>5. ASSUME NEW ok \in BOOLEAN, Reply(ok),
             ok \/ todo[1].reply = "query" => Did(plan, n + 1)',
             todo[1] = Query("get_profile") => ok /\ profile' = profile
      PROVE  ScriptInv'
  <2>1. /\ incoming' # <<>> /\ incoming'[1].ok = ok
        /\ incoming'[1].value = IF ok /\ todo[1].op = "get_profile" THEN profile ELSE 0
    BY <1>2, <1>3, <1>5 DEF Reply
  <2>2. Followed(plan)'
    BY <1>p, <1>1, <1>2, <1>3, <1>5, <2>1 DEF Followed, Query, Packet
  <2>. QED  BY <1>p, <1>1, <2>2 DEF ScriptInv
<1>6. CASE Answer
  <2>1. Did(plan, n + 1)'
    BY <1>3, <1>6, AppliedDoes DEF Answer
  <2>2. todo[1] = Query("get_profile") => profile' = profile
    BY <1>3, <1>6 DEF Answer, Applied, Query, Packet
  <2>. QED  BY <1>5, <1>6, <2>1, <2>2 DEF Answer
<1>7. CASE Reject
  <2>1. todo[1].reply # "query"
    BY <1>3, <1>7 DEF Reject
  <2>2. todo[1] # Query("get_profile")
    BY <2>1 DEF Query, Packet
  <2>3. Reply(FALSE)
    BY <1>7 DEF Reject
  <2>. QED  BY <1>5, <2>1, <2>2, <2>3
<1>. QED  BY <1>6, <1>7

LEMMA ScriptInvNext ==
    "reject_query" \notin Faults /\ TypeOK /\ LateInv /\ ScriptInv /\ [Next]_vars => ScriptInv'
<1>. SUFFICES ASSUME "reject_query" \notin Faults, TypeOK, LateInv, ScriptInv, [Next]_vars,
                     late' = 0, Single'
              PROVE  Followed(Script(call))'
  BY DEF ScriptInv
<1>1. ASSUME NEW c \in Calls, Call(c)  PROVE Followed(Script(call))'
  <2>1. Script(c) \in Seq(Packets) /\ call' = c /\ todo' = Script(c) /\ pc' = "out"
    BY <1>1, ScriptType DEF Call
  <2>2. Len(Script(c)) - Len(Script(c)) = 0 /\ \A i \in 1..Len(Script(c)) : Script(c)[i] = Script(c)[0 + i]
    BY <2>1, LenProperties
  <2>. QED  BY <2>1, <2>2 DEF Followed, Did
<1>2. CASE Send \/ SendFails \/ Receive
  <2>1. late = 0 /\ Single
    BY <1>2 DEF Send, SendFails, Receive, Single
  <2>. QED  BY <1>2, <2>1, ScriptInvLibrary DEF ScriptInv
<1>3. CASE TimedOut
  BY <1>3, BoundsAssumption DEF TimedOut, TypeOK
<1>4. CASE Answer \/ Reject
  <2>1. late = 0 /\ Single
    BY <1>4 DEF Answer, Reject, library, Single
  <2>. QED  BY <1>4, <2>1, ScriptInvKeyboard DEF ScriptInv
<1>5. CASE UNCHANGED vars
  BY <1>5 DEF vars, library, keyboard, ScriptInv, Single, Followed, Did
<1>. QED  BY <1>1, <1>2, <1>3, <1>4, <1>5 DEF Next

\* After all packets of its script the keyboard is as a call asked.
LEMMA DoneIsObeyed ==
    ASSUME TypeOK, Idle, result = "LIBMK_SUCCESS",
           Single => Did(Script(call), Len(Script(call)))
    PROVE  Obeyed
<1>. USE DEF Returned, Idle
<1>0. call \in Calls \/ call.name = "none"
  BY DEF TypeOK
<1>1. ASSUME Single  PROVE Did(Script(call), Len(Script(call)))
  BY <1>1
<1>2. ASSUME call.name = "set_control_mode"  PROVE mode = call.arg
  <2>1. Script(call) = <<Mode(call.arg)>>
    BY <1>2 DEF Script
  <2>. QED  BY <1>0, <1>1, <1>2, <2>1 DEF Single, Did, Mode, Packet
<1>3. ASSUME call.name = "enable_control"  PROVE mode = LIBMK_CUSTOM_CTRL
  <2>1. Script(call) = <<Mode(LIBMK_CUSTOM_CTRL), Query("firmware")>>
    BY <1>3 DEF Script
  <2>. QED  BY <1>0, <1>1, <1>3, <2>1 DEF Single, Did, Mode, Query, Packet
<1>4. ASSUME call.name = "set_effect"  PROVE mode = LIBMK_EFFECT_CTRL /\ effect = call.arg
  <2>1. Script(call) = <<EffectCtrl, Effect(call.arg)>>
    BY <1>4 DEF Script, EffectScript
  <2>. QED  BY <1>0, <1>1, <1>4, <2>1 DEF Single, Did, EffectCtrl, Effect, Packet
<1>5. ASSUME call.name = "set_effect_details"  PROVE mode = LIBMK_EFFECT_CTRL /\ effect = call.arg
  <2>1. ASSUME NEW a, NEW b
        PROVE  LET s == Append(<<a, b>>, b) IN Len(s) = 3 /\ s[1] = a /\ s[2] = b /\ s[3] = b
    <3>1. <<a, b>> \in Seq({a, b}) /\ Len(<<a, b>>) = 2 /\ b \in {a, b}
      OBVIOUS
    <3>. QED  BY <3>1, AppendProperties
  <2>2. Script(call) = Append(<<EffectCtrl, Effect(call.arg)>>, Effect(call.arg))
    BY <1>5 DEF Script, EffectScript
  <2>. QED  BY <1>0, <1>1, <1>5, <2>1, <2>2 DEF Single, Did, EffectCtrl, Effect, Packet
<1>6. ASSUME call.name = "set_single_led"  PROVE mode = LIBMK_CUSTOM_CTRL
  <2>1. Script(call) = <<Mode(LIBMK_CUSTOM_CTRL), Led>>
    BY <1>6 DEF Script
  <2>. QED  BY <1>0, <1>1, <1>6, <2>1 DEF Single, Did, Mode, Led, Packet
<1>7. ASSUME call.name = "save_profile"  PROVE mode = LIBMK_CUSTOM_CTRL /\ saved = profile
  <2>1. Script(call) = <<Mode(LIBMK_PROFILE_CTRL), Packet("save", 0, "optional"), Mode(LIBMK_CUSTOM_CTRL)>>
    BY <1>7 DEF Script, SaveScript
  <2>. QED  BY <1>0, <1>1, <1>7, <2>1 DEF Single, Did, Mode, Packet
<1>8. ASSUME call.name = "set_active_profile"  PROVE mode = LIBMK_CUSTOM_CTRL /\ profile = call.arg
  <2>1. Script(call) = <<Mode(LIBMK_PROFILE_CTRL), Packet("profile", call.arg, "required"), Mode(LIBMK_CUSTOM_CTRL)>>
    BY <1>8 DEF Script, ProfileScript
  <2>. QED  BY <1>0, <1>1, <1>8, <2>1 DEF Single, Did, Mode, Packet
<1>. QED  BY <1>2, <1>3, <1>4, <1>5, <1>6, <1>7, <1>8 DEF Obeyed

\* Unless the keyboard rejects queries, a call that returns success before
\* any reply was late has been obeyed, whatever failed or was rejected in
\* the calls before (send_recv_packet, lines 560-595, and its callers).
THEOREM SuccessIsTrue == "reject_query" \notin Faults => (Spec => []SuccessIsObeyed)
<1>. SUFFICES ASSUME "reject_query" \notin Faults  PROVE Spec => []SuccessIsObeyed
  OBVIOUS
<1>1. Init => ScriptInv
  BY CallsAssumption DEF Init, ScriptInv, Single, Names
<1>2. TypeOK /\ ScriptInv => SuccessIsObeyed
  <2>. SUFFICES ASSUME TypeOK, ScriptInv, late = 0
                PROVE  Obeyed /\ (Returned("get_active_profile") => data = profile)
    BY DEF SuccessIsObeyed
  <2>1. CASE Idle /\ result = "LIBMK_SUCCESS"
    <3>1. Obeyed
      BY <2>1, DoneIsObeyed DEF ScriptInv, Followed, Idle
    <3>2. ASSUME call.name = "get_active_profile"  PROVE data = profile
      <4>1. Script(call) = <<Query("get_profile")>>
        BY <3>2 DEF Script
      <4>2. Single
        BY <3>2 DEF Single, TypeOK
      <4>. QED  BY <2>1, <4>1, <4>2 DEF ScriptInv, Followed, Idle
    <3>. QED  BY <3>1, <3>2 DEF Returned
  <2>2. CASE ~(Idle /\ result = "LIBMK_SUCCESS")
    BY <2>2 DEF Obeyed, Returned
  <2>. QED  BY <2>1, <2>2
<1>. QED  BY <1>1, <1>2, ScriptInvNext, LateAlways, TransportTypes, PTL DEF Spec
-----------------------------------------------------------------------------
(* Success in the end *)

\* Once the packets q under way are worked off, what op sets is v.
EndsAs(q, op, now, v) ==
    \/ \E k \in 1..Len(q) :
         /\ q[k].packet.op = op /\ q[k].packet.arg = v
         /\ \A j \in (k + 1)..Len(q) : q[j].packet.op # op
    \/ now = v /\ \A k \in 1..Len(q) : q[k].packet.op # op

\* Once they are worked off, the profile that was saved last is the active one.
EndsSaved(q, s, p) ==
    \/ \E k \in 1..Len(q) :
         /\ q[k].packet.op = "save"
         /\ \A j \in (k + 1)..Len(q) : q[j].packet.op # "profile"
    \/ s = p /\ \A k \in 1..Len(q) : q[k].packet.op \notin {"save", "profile"}

\* A packet joins the end of those under way.
LEMMA EndsAppend ==
    ASSUME NEW S, NEW q \in Seq(S), NEW e \in S, NEW op, NEW now, NEW v
    PROVE  /\ e.packet.op = op => EndsAs(Append(q, e), op, now, e.packet.arg)
           /\ e.packet.op # op /\ EndsAs(q, op, now, v) => EndsAs(Append(q, e), op, now, v)
<1> DEFINE m == Len(q)
           r == Append(q, e)
<1>1. m \in Nat /\ Len(r) = m + 1 /\ r[m + 1] = e /\ \A k \in 1..m : r[k] = q[k]
  BY AppendProperties
<1> HIDE DEF r
<1>2. \A k \in 1..(m + 1) : k = m + 1 \/ k \in 1..m
  BY <1>1
<1>3. m + 1 \in 1..(m + 1) /\ \A j \in ((m + 1) + 1)..(m + 1) : FALSE
  BY <1>1
<1>4. ASSUME e.packet.op = op  PROVE EndsAs(r, op, now, e.packet.arg)
  BY <1>1, <1>3, <1>4 DEF EndsAs
<1>5. ASSUME e.packet.op # op, EndsAs(q, op, now, v)  PROVE EndsAs(r, op, now, v)
  <2>1. CASE \E k \in 1..m : /\ q[k].packet.op = op /\ q[k].packet.arg = v
                              /\ \A j \in (k + 1)..m : q[j].packet.op # op
    <3>1. PICK k \in 1..m : /\ q[k].packet.op = op /\ q[k].packet.arg = v
                            /\ \A j \in (k + 1)..m : q[j].packet.op # op
      BY <2>1
    <3>2. k \in 1..(m + 1)
      BY <1>1
    <3>3. \A j \in (k + 1)..(m + 1) : (j = m + 1 /\ r[j] = e) \/ (j \in (k + 1)..m /\ r[j] = q[j])
      BY <1>1
    <3>4. \A j \in (k + 1)..Len(r) : r[j].packet.op # op
      BY <1>1, <1>5, <3>1, <3>3
    <3>5. r[k] = q[k] /\ k \in 1..Len(r)
      BY <1>1, <3>2
    <3> QED  BY <3>1, <3>4, <3>5 DEF EndsAs
  <2>2. CASE now = v /\ \A k \in 1..m : q[k].packet.op # op
    BY <1>1, <1>2, <1>5, <2>2 DEF EndsAs
  <2> QED  BY <1>5, <2>1, <2>2 DEF EndsAs
<1> QED  BY <1>4, <1>5 DEF r

LEMMA EndsSavedAppend ==
    ASSUME NEW S, NEW q \in Seq(S), NEW e \in S, NEW s, NEW p,
           e.packet.op = "save" \/ (e.packet.op # "profile" /\ EndsSaved(q, s, p))
    PROVE  EndsSaved(Append(q, e), s, p)
<1> DEFINE m == Len(q)
           r == Append(q, e)
<1>1. m \in Nat /\ Len(r) = m + 1 /\ r[m + 1] = e /\ \A k \in 1..m : r[k] = q[k]
  BY AppendProperties
<1> HIDE DEF r
<1>2. \A k \in 1..(m + 1) : k = m + 1 \/ k \in 1..m
  BY <1>1
<1>3. m + 1 \in 1..(m + 1) /\ \A j \in ((m + 1) + 1)..(m + 1) : FALSE
  BY <1>1
<1>4. CASE e.packet.op = "save"
  BY <1>1, <1>3, <1>4 DEF EndsSaved, r
<1>5. CASE e.packet.op \notin {"save", "profile"} /\ EndsSaved(q, s, p)
  <2>1. CASE \E k \in 1..m : /\ q[k].packet.op = "save"
                              /\ \A j \in (k + 1)..m : q[j].packet.op # "profile"
    <3>1. PICK k \in 1..m : /\ q[k].packet.op = "save"
                            /\ \A j \in (k + 1)..m : q[j].packet.op # "profile"
      BY <2>1
    <3>2. k \in 1..(m + 1)
      BY <1>1
    <3>3. \A j \in (k + 1)..(m + 1) : (j = m + 1 /\ r[j] = e) \/ (j \in (k + 1)..m /\ r[j] = q[j])
      BY <1>1
    <3>4. \A j \in (k + 1)..Len(r) : r[j].packet.op # "profile"
      BY <1>1, <1>5, <3>1, <3>3
    <3>5. r[k] = q[k] /\ k \in 1..Len(r)
      BY <1>1, <3>2
    <3>6. EndsSaved(r, s, p)
      BY <3>1, <3>4, <3>5 DEF EndsSaved
    <3> QED  BY <3>6 DEF r
  <2>2. CASE s = p /\ \A k \in 1..m : q[k].packet.op \notin {"save", "profile"}
    BY <1>1, <1>2, <1>5, <2>2 DEF EndsSaved, r
  <2> QED  BY <1>5, <2>1, <2>2 DEF EndsSaved
<1> QED  BY <1>4, <1>5

\* The keyboard works off the first packet under way.
LEMMA EndsTail ==
    ASSUME NEW S, NEW q \in Seq(S), q # <<>>, NEW op, NEW now, NEW v, EndsAs(q, op, now, v)
    PROVE  EndsAs(Tail(q), op, IF q[1].packet.op = op THEN q[1].packet.arg ELSE now, v)
<1> DEFINE m == Len(q)
           r == Tail(q)
<1>1. m \in Nat /\ m >= 1 /\ Len(r) = m - 1 /\ \A k \in 1..(m - 1) : r[k] = q[k + 1]
  BY HeadTailProperties, EmptySeq, LenProperties
<1> HIDE DEF r
<1>2. CASE \E k \in 1..m : /\ q[k].packet.op = op /\ q[k].packet.arg = v
                            /\ \A j \in (k + 1)..m : q[j].packet.op # op
  <2>1. PICK k \in 1..m : /\ q[k].packet.op = op /\ q[k].packet.arg = v
                          /\ \A j \in (k + 1)..m : q[j].packet.op # op
    BY <1>2
  <2>2. \A j \in k..(m - 1) : j + 1 \in (k + 1)..m /\ r[j] = q[j + 1]
    BY <1>1
  <2>3. CASE k = 1
    BY <1>1, <2>1, <2>2, <2>3 DEF EndsAs, r
  <2>4. CASE k > 1
    <3>1. k - 1 \in 1..(m - 1) /\ (k - 1) + 1 = k
      BY <1>1, <2>4
    <3>2. r[k - 1] = q[k]
      BY <1>1, <3>1
    <3>3. \A j \in ((k - 1) + 1)..(m - 1) : r[j].packet.op # op
      BY <2>1, <2>2, <3>1
    <3> QED  BY <1>1, <2>1, <3>1, <3>2, <3>3 DEF EndsAs, r
  <2> QED  BY <1>1, <2>3, <2>4
<1>3. CASE now = v /\ \A k \in 1..m : q[k].packet.op # op
  <2>1. 1 \in 1..m /\ \A k \in 1..(m - 1) : k + 1 \in 1..m
    BY <1>1
  <2> QED  BY <1>1, <1>3, <2>1 DEF EndsAs, r
<1> QED  BY <1>2, <1>3 DEF EndsAs

LEMMA EndsSavedTail ==
    ASSUME NEW S, NEW q \in Seq(S), q # <<>>, NEW s, NEW p, EndsSaved(q, s, p)
    PROVE  EndsSaved(Tail(q), IF q[1].packet.op = "save" THEN p ELSE s,
                              IF q[1].packet.op = "profile" THEN q[1].packet.arg ELSE p)
<1> DEFINE m == Len(q)
           r == Tail(q)
<1>1. m \in Nat /\ m >= 1 /\ Len(r) = m - 1 /\ \A k \in 1..(m - 1) : r[k] = q[k + 1]
  BY HeadTailProperties, EmptySeq, LenProperties
<1> HIDE DEF r
<1>2. CASE \E k \in 1..m : /\ q[k].packet.op = "save"
                            /\ \A j \in (k + 1)..m : q[j].packet.op # "profile"
  <2>1. PICK k \in 1..m : /\ q[k].packet.op = "save"
                          /\ \A j \in (k + 1)..m : q[j].packet.op # "profile"
    BY <1>2
  <2>2. \A j \in k..(m - 1) : j + 1 \in (k + 1)..m /\ r[j] = q[j + 1]
    BY <1>1
  <2>3. CASE k = 1
    <3>1. \A j \in 1..(m - 1) : r[j].packet.op # "profile"
      BY <1>1, <2>1, <2>2, <2>3
    <3>2. \A j \in 1..(m - 1) : \A i \in (j + 1)..(m - 1) : i \in 1..(m - 1)
      BY <1>1
    <3> QED  BY <1>1, <2>1, <2>3, <3>1, <3>2 DEF EndsSaved, r
  <2>4. CASE k > 1
    <3>1. k - 1 \in 1..(m - 1) /\ (k - 1) + 1 = k
      BY <1>1, <2>4
    <3>2. r[k - 1] = q[k]
      BY <1>1, <3>1
    <3>3. \A j \in ((k - 1) + 1)..(m - 1) : r[j].packet.op # "profile"
      BY <2>1, <2>2, <3>1
    <3> QED  BY <1>1, <2>1, <3>1, <3>2, <3>3 DEF EndsSaved, r
  <2> QED  BY <1>1, <2>3, <2>4
<1>3. CASE s = p /\ \A k \in 1..m : q[k].packet.op \notin {"save", "profile"}
  <2>1. 1 \in 1..m /\ \A k \in 1..(m - 1) : k + 1 \in 1..m
    BY <1>1
  <2> QED  BY <1>1, <1>3, <2>1 DEF EndsSaved, r
<1> QED  BY <1>2, <1>3 DEF EndsSaved

\* The first n packets of a plan have been sent: the keyboard will have done
\* them once it has worked off what is under way.
WillDo(plan, n) ==
    \A i \in 1..n :
        /\ plan[i].op = "mode" /\ (\A j \in (i + 1)..n : plan[j].op # "mode")
             => EndsAs(outgoing, "mode", mode, plan[i].arg)
        /\ plan[i].op = "effect" /\ (\A j \in (i + 1)..n : plan[j].op # "effect")
             => EndsAs(outgoing, "effect", effect, plan[i].arg)
        /\ plan[i].op = "profile" /\ (\A j \in (i + 1)..n : plan[j].op # "profile")
             => EndsAs(outgoing, "profile", profile, plan[i].arg)
        /\ plan[i].op = "save" /\ (\A j \in (i + 1)..n : plan[j].op # "profile")
             => EndsSaved(outgoing, saved, profile)

\* With nothing under way, it has.
LEMMA WorkedOff == ASSUME outgoing = <<>>, NEW plan, NEW n, WillDo(plan, n)  PROVE Did(plan, n)
<1>1. Len(outgoing) = 0 /\ \A k \in 1..Len(outgoing) : FALSE
  OBVIOUS
<1> QED  BY <1>1 DEF WillDo, Did, EndsAs, EndsSaved

\* The next packet of the plan is sent.
LEMMA SentWillBeDone ==
    ASSUME outgoing \in Seq(SentPackets), NEW plan, NEW n \in Nat, WillDo(plan, n),
           NEW e \in SentPackets, e.packet = plan[n + 1], outgoing' = Append(outgoing, e),
           UNCHANGED keyboard
    PROVE  WillDo(plan, n + 1)'
<1> DEFINE q == Append(outgoing, e)
<1>1. UNCHANGED <<mode, effect, profile, saved>>
  BY DEF keyboard
<1> SUFFICES ASSUME NEW i \in 1..(n + 1)
    PROVE /\ plan[i].op = "mode" /\ (\A j \in (i + 1)..(n + 1) : plan[j].op # "mode")
               => EndsAs(q, "mode", mode, plan[i].arg)
          /\ plan[i].op = "effect" /\ (\A j \in (i + 1)..(n + 1) : plan[j].op # "effect")
               => EndsAs(q, "effect", effect, plan[i].arg)
          /\ plan[i].op = "profile" /\ (\A j \in (i + 1)..(n + 1) : plan[j].op # "profile")
               => EndsAs(q, "profile", profile, plan[i].arg)
          /\ plan[i].op = "save" /\ (\A j \in (i + 1)..(n + 1) : plan[j].op # "profile")
               => EndsSaved(q, saved, profile)
  BY <1>1 DEF WillDo
<1>2. CASE i = n + 1
  BY <1>2, EndsAppend, EndsSavedAppend
<1>3. CASE i \in 1..n
  <2>1. n + 1 \in (i + 1)..(n + 1) /\ \A j \in (i + 1)..n : j \in (i + 1)..(n + 1)
    BY <1>3
  <2>2. ASSUME NEW op, plan[n + 1].op # op, NEW now, NEW v, EndsAs(outgoing, op, now, v)
        PROVE  EndsAs(q, op, now, v)
    BY <2>2, EndsAppend
  <2>3. ASSUME plan[n + 1].op # "profile", EndsSaved(outgoing, saved, profile)
        PROVE  EndsSaved(q, saved, profile)
    BY <2>3, EndsSavedAppend
  <2> HIDE DEF q
  <2> QED  BY <1>3, <2>1, <2>2, <2>3 DEF WillDo
<1> QED  BY <1>2, <1>3

\* The keyboard works off a packet: nothing changes about how it will end.
LEMMA AppliedWillDo ==
    ASSUME outgoing \in Seq(SentPackets), outgoing # <<>>, NEW plan, NEW n, WillDo(plan, n),
           outgoing' = Tail(outgoing), Applied(Head(outgoing).packet)
    PROVE  WillDo(plan, n)'
<1>1. Head(outgoing) = outgoing[1]
  OBVIOUS
<1>2. ASSUME NEW v, EndsAs(outgoing, "mode", mode, v)
      PROVE  EndsAs(Tail(outgoing), "mode", mode', v)
  BY <1>1, <1>2, EndsTail DEF Applied
<1>3. ASSUME NEW v, EndsAs(outgoing, "effect", effect, v)
      PROVE  EndsAs(Tail(outgoing), "effect", effect', v)
  BY <1>1, <1>3, EndsTail DEF Applied
<1>4. ASSUME NEW v, EndsAs(outgoing, "profile", profile, v)
      PROVE  EndsAs(Tail(outgoing), "profile", profile', v)
  BY <1>1, <1>4, EndsTail DEF Applied
<1>5. ASSUME EndsSaved(outgoing, saved, profile)
      PROVE  EndsSaved(Tail(outgoing), saved', profile')
  BY <1>1, <1>5, EndsSavedTail DEF Applied
<1> QED  BY <1>2, <1>3, <1>4, <1>5 DEF WillDo

\* Where a call is in its plan, if no packet of any call was rejected.
Sending(plan) ==
    LET n == Len(plan) - Len(todo) IN
    /\ pc # "idle" => n \in Nat /\ \A i \in 1..Len(todo) : todo[i] = plan[n + i]
    /\ pc = "out" => WillDo(plan, n)
    /\ pc = "in" => WillDo(plan, n + 1)
    /\ pc = "idle" /\ result = "LIBMK_SUCCESS" => WillDo(plan, Len(plan))

SendingInv == ~rejected /\ Single => Sending(Script(call))

LEMMA SendingLibrary ==
    ASSUME TypeOK, Single, Sending(Script(call)), Send \/ SendFails \/ Receive \/ TimedOut
    PROVE  Sending(Script(call))'
<1>p. PICK plan, n : plan = Script(call) /\ n = Len(plan) - Len(todo)
  OBVIOUS
<1>0. plan \in Seq(Packets) /\ Len(plan) \in Nat /\ call' = call
  BY <1>p, ScriptType DEF Single, Send, SendFails, Receive, TimedOut
<1>1. /\ todo \in Seq(Packets) /\ todo # <<>> /\ Len(todo) \in Nat /\ Len(todo) >= 1
      /\ Head(todo) = todo[1] /\ todo[1] \in Packets /\ pc # "idle"
  BY EmptySeq, LenProperties DEF TypeOK, Send, SendFails, Receive, TimedOut
<1>2. Sending(plan)
  BY <1>p
<1>3. ASSUME Sending(plan)'  PROVE Sending(Script(call))'
  BY <1>p, <1>0, <1>3
<1>4. n \in Nat /\ n < Len(plan) /\ \A i \in 1..Len(todo) : todo[i] = plan[n + i]
  <2>1. n \in Nat /\ \A i \in 1..Len(todo) : todo[i] = plan[n + i]
    BY <1>p, <1>1, <1>2 DEF Sending
  <2> QED  BY <1>p, <1>0, <1>1, <2>1
<1>5. CASE Send
  <2> DEFINE e == [packet |-> Head(todo), id |-> sent + 1]
  <2>1. /\ pc = "out" /\ pc' = "in" /\ UNCHANGED <<todo, result, keyboard>>
        /\ outgoing' = Append(outgoing, e)
    BY <1>5 DEF Send, ReadsReply
  <2>2. e \in SentPackets /\ e.packet = plan[n + 1] /\ outgoing \in Seq(SentPackets)
    <3>1. sent + 1 \in Nat /\ todo[1] = plan[n + 1]
      BY <1>1, <1>4 DEF TypeOK
    <3> QED  BY <1>1, <3>1 DEF SentPackets, TypeOK
  <2>3. WillDo(plan, n)
    BY <1>p, <1>2, <2>1 DEF Sending
  <2> HIDE DEF e
  <2>4. WillDo(plan, n + 1)'
    BY <1>4, <2>1, <2>2, <2>3, SentWillBeDone
  <2>5. Len(plan) - Len(todo') = n
    BY <1>p, <2>1
  <2>6. Sending(plan)'
    BY <1>4, <2>1, <2>4, <2>5 DEF Sending
  <2> QED  BY <1>3, <2>6
<1>6. ASSUME FailsWith("LIBMK_ERR_TRANSFER") \/ FailsWith("LIBMK_ERR_PROTOCOL")
      PROVE  Sending(Script(call))'
  <2>1. pc' = "idle" /\ result' # "LIBMK_SUCCESS"
    BY <1>6 DEF FailsWith, Ignored, Single, Continue
  <2> QED  BY <1>3, <2>1 DEF Sending
<1>7. ASSUME Succeeds, pc = "in", UNCHANGED <<outgoing, keyboard>>
      PROVE  Sending(Script(call))'
  <2>1. result' = "LIBMK_SUCCESS" /\ Continue(Tail(todo)) /\ UNCHANGED <<outgoing, mode, effect, profile, saved>>
    BY <1>7 DEF Succeeds, keyboard
  <2>2. WillDo(plan, n + 1)
    BY <1>p, <1>2, <1>7 DEF Sending
  <2>3. WillDo(plan, n + 1)'
    BY <2>1, <2>2 DEF WillDo
  <2>4. /\ Tail(todo) \in Seq(Packets) /\ Len(Tail(todo)) = Len(todo) - 1
        /\ \A i \in 1..(Len(todo) - 1) : Tail(todo)[i] = todo[i + 1]
    BY <1>1, HeadTailProperties
  <2>5. CASE Tail(todo) = <<>>
    <3>1. Len(Tail(todo)) = 0
      BY <2>4, <2>5, EmptySeq
    <3>2. n + 1 = Len(plan)
      <4>1. Len(todo) \in Nat /\ 0 = Len(todo) - 1
        BY <1>1, <2>4, <3>1
      <4>2. Len(todo) = 1
        BY <4>1
      <4> QED  BY <1>p, <1>0, <4>2
    <3>3. pc' = "idle"
      BY <2>1, <2>5 DEF Continue
    <3>4. WillDo(plan, Len(plan))'
      BY <2>3, <3>2
    <3>5. Sending(plan)'
      BY <3>3, <3>4 DEF Sending
    <3> QED  BY <1>3, <3>5
  <2>6. CASE Tail(todo) # <<>>
    <3>1. pc' = "out" /\ todo' = Tail(todo)
      BY <2>1, <2>6 DEF Continue
    <3>2. Len(plan) - Len(todo') = n + 1
      BY <1>p, <1>0, <1>1, <2>4, <3>1
    <3>3. \A i \in 1..Len(todo') : todo'[i] = plan[(n + 1) + i]
      <4> SUFFICES ASSUME NEW i \in 1..Len(todo')  PROVE todo'[i] = plan[(n + 1) + i]
        OBVIOUS
      <4>1. i \in 1..(Len(todo) - 1) /\ i + 1 \in 1..Len(todo) /\ n + (i + 1) = (n + 1) + i
        <5>1. Len(todo') = Len(todo) - 1
          BY <2>4, <3>1
        <5> QED  BY <1>1, <1>4, <5>1
      <4> QED  BY <1>4, <2>4, <3>1, <4>1
    <3>4. n + 1 \in Nat
      BY <1>4
    <3>5. WillDo(plan, Len(plan) - Len(todo))'
      BY <2>3, <3>2
    <3>6. Sending(plan)'
      BY <3>1, <3>2, <3>3, <3>4, <3>5 DEF Sending
    <3> QED  BY <1>3, <3>6
  <2> QED  BY <2>5, <2>6
<1>8. CASE SendFails
  BY <1>6, <1>8 DEF SendFails, TransferError
<1>9. CASE Receive
  BY <1>6, <1>7, <1>9 DEF Receive
<1>10. CASE TimedOut
  BY <1>6, <1>7, <1>10 DEF TimedOut, TransferError
<1> QED  BY <1>5, <1>8, <1>9, <1>10

LEMMA SendingNext == TypeOK /\ SendingInv /\ [Next]_vars => SendingInv'
<1> SUFFICES ASSUME TypeOK, SendingInv, [Next]_vars, ~rejected', Single'
             PROVE  Sending(Script(call))'
  BY DEF SendingInv
<1>1. ASSUME NEW c \in Calls, Call(c)  PROVE Sending(Script(call))'
  <2>1. Script(c) \in Seq(Packets) /\ call' = c /\ todo' = Script(c) /\ pc' = "out"
    BY <1>1, ScriptType DEF Call
  <2>2. /\ Len(Script(c)) - Len(Script(c)) = 0
        /\ \A i \in 1..Len(Script(c)) : Script(c)[i] = Script(c)[0 + i]
    BY <2>1, LenProperties
  <2> QED  BY <2>1, <2>2 DEF Sending, WillDo
<1>2. CASE Send \/ SendFails \/ Receive \/ TimedOut
  <2>1. ~rejected /\ Single
    BY <1>2 DEF Send, SendFails, Receive, TimedOut, Single
  <2> QED  BY <1>2, <2>1, SendingLibrary DEF SendingInv
<1>3. CASE Answer
  <2>1. ~rejected /\ Single /\ UNCHANGED <<call, todo, pc, result>>
    BY <1>3 DEF Answer, library, Single
  <2>2. /\ outgoing # <<>> /\ outgoing' = Tail(outgoing) /\ Applied(Head(outgoing).packet)
        /\ outgoing \in Seq(SentPackets)
    BY <1>3 DEF Answer, TypeOK
  <2>3. PICK plan : plan = Script(call)
    OBVIOUS
  <2>4. \A n : WillDo(plan, n) => WillDo(plan, n)'
    BY <2>2, AppliedWillDo
  <2>5. Sending(plan)
    BY <2>1, <2>3 DEF SendingInv
  <2>6. Sending(plan)'
    BY <2>1, <2>4, <2>5 DEF Sending
  <2> QED  BY <2>1, <2>3, <2>6
<1>4. CASE Reject
  BY <1>4 DEF Reject
<1>5. CASE UNCHANGED vars
  BY <1>5 DEF vars, library, keyboard, SendingInv, Single, Sending, WillDo
<1> QED  BY <1>1, <1>2, <1>3, <1>4, <1>5 DEF Next

\* Whatever came late or failed: what a call was told succeeded is done when
\* the keyboard has worked off what was sent to it, unless it rejects packets.
THEOREM SuccessIsTrueInTheEnd == Spec => []ObeyedInTheEnd
<1>1. Init => SendingInv
  BY CallsAssumption DEF Init, SendingInv, Single, Names
<1>2. TypeOK /\ SendingInv => ObeyedInTheEnd
  <2> SUFFICES ASSUME TypeOK, SendingInv, outgoing = <<>>, ~rejected  PROVE Obeyed
    BY DEF ObeyedInTheEnd
  <2>1. CASE Idle /\ result = "LIBMK_SUCCESS"
    <3>1. Single => WillDo(Script(call), Len(Script(call)))
      BY <2>1 DEF SendingInv, Sending, Idle
    <3>2. Single => Did(Script(call), Len(Script(call)))
      BY <3>1, WorkedOff
    <3> QED  BY <2>1, <3>2, DoneIsObeyed
  <2>2. CASE ~(Idle /\ result = "LIBMK_SUCCESS")
    BY <2>2 DEF Obeyed, Returned
  <2> QED  BY <2>1, <2>2
<1> QED  BY <1>1, <1>2, SendingNext, TransportTypes, PTL DEF Spec
=============================================================================
