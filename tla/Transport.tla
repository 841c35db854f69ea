------------------------------ MODULE Transport ------------------------------
(***************************************************************************)
(* The packet exchange of libmk/libmk.c with the keyboard.  A call sends   *)
(* its packets one by one on the OUT endpoint and after each reads one     *)
(* reply on the IN endpoint, waiting LIBMK_PACKET_TIMEOUT for it.  The     *)
(* keyboard works on its own: it takes packets in order, and its replies   *)
(* queue until somebody reads them, also when the reader has given up.     *)
(*                                                                         *)
(* Replies carry nothing that says which packet they answer; the field id  *)
(* is here for the properties only.                                        *)
(***************************************************************************)
EXTENDS Integers, Sequences, FiniteSets

CONSTANTS
    Calls,      \* the calls a program makes, records [name, arg]
    LedPackets, \* packets of set_all_led_color, LIBMK_ALL_LED_PCK_NUM
    MaxCalls,   \* bound on the number of calls
    MaxLate,    \* bound on the replies that come too late
    Faults      \* late: a reply takes longer than the timeout; out: a
                \* transfer out fails; reject, reject_query: the keyboard
                \* answers a command, a query with HEADER_ERROR

ASSUME BoundsAssumption == MaxCalls \in Nat /\ MaxLate \in Nat /\ LedPackets \in Nat
ASSUME TransportFaultsAssumption == Faults \subseteq {"late", "out", "reject", "reject_query"}

Names == {"set_control_mode", "enable_control", "set_effect", "set_effect_details",
          "set_full_color", "set_all_led_color", "set_single_led", "save_profile",
          "set_active_profile", "get_active_profile"}
ASSUME CallsAssumption == Calls \subseteq [name : Names, arg : Int]

\* enum LibMK_ControlMode, and one member of enum LibMK_Effect.
LIBMK_FIRMWARE_CTRL == 0
LIBMK_EFFECT_CTRL == 1
LIBMK_CUSTOM_CTRL == 2
LIBMK_PROFILE_CTRL == 3
LIBMK_EFF_CUSTOM == 10

VARIABLES
    \* The library: the call, the packets it still has to send, where it is
    \* (idle, out, in), what it returned, and the value read by a query.
    call, todo, pc, result, data,
    \* The two endpoints: packets and replies under way.
    outgoing, incoming,
    \* The keyboard.
    mode, effect, profile, saved,
    \* History: calls made, packets sent, replies that came too late, whether
    \* the keyboard rejected a packet, and whether this call took the reply to
    \* another packet for its own.
    calls, sent, late, rejected, stray

library == <<call, todo, pc, result, data>>
keyboard == <<mode, effect, profile, saved>>
vars == <<library, outgoing, incoming, keyboard, calls, sent, late, rejected, stray>>

-----------------------------------------------------------------------------
(* Packets: optional replies may be missing, queries take data from them. *)

Packets == [op : {"mode", "effect", "profile", "save", "leds", "firmware", "get_profile"},
            arg : Int, reply : {"optional", "required", "query"}]
Packet(op, arg, reply) == [op |-> op, arg |-> arg, reply |-> reply]
Mode(m) == Packet("mode", m, "optional")
EffectCtrl == Packet("mode", LIBMK_EFFECT_CTRL, "required")
Effect(e) == Packet("effect", e, "required")
Led == Packet("leds", 0, "required")
Query(op) == Packet(op, 0, "query")

SaveScriptBug == <<Mode(LIBMK_PROFILE_CTRL), Packet("save", 0, "optional")>>
SaveScript ==
    <<Mode(LIBMK_PROFILE_CTRL), Packet("save", 0, "optional"), Mode(LIBMK_CUSTOM_CTRL)>>

\* The check of its argument in set_active_profile, !(1 <= profile <= 4),
\* compares the truth value of 1 <= profile with 4 and refuses no profile.
ProfileScript(p) ==
    <<Mode(LIBMK_PROFILE_CTRL), Packet("profile", p, "required"), Mode(LIBMK_CUSTOM_CTRL)>>

EffectScript(e) == <<EffectCtrl, Effect(e)>>

\* The packets of every call, in their order.
Script(c) ==
    CASE c.name = "set_control_mode" -> <<Mode(c.arg)>>
      [] c.name = "enable_control" -> <<Mode(LIBMK_CUSTOM_CTRL), Query("firmware")>>
      [] c.name = "set_effect" -> EffectScript(c.arg)
      [] c.name = "set_effect_details" -> Append(EffectScript(c.arg), Effect(c.arg))
      [] c.name = "set_full_color" -> <<Led>>
      [] c.name = "set_all_led_color" ->
            EffectScript(LIBMK_EFF_CUSTOM) \o [i \in 1..LedPackets |-> Led]
      [] c.name = "set_single_led" -> <<Mode(LIBMK_CUSTOM_CTRL), Led>>
      [] c.name = "save_profile" -> SaveScript
      [] c.name = "set_active_profile" -> ProfileScript(c.arg)
      [] c.name = "get_active_profile" -> <<Query("get_profile")>>

\* set_all_led_color does not look at what set_effect returned.
Ignored == call.name = "set_all_led_color" /\ Len(todo) > LedPackets

SentPackets == [packet : Packets, id : Nat]
Replies == [id : Nat, ok : BOOLEAN, value : Int]

TypeOK ==
    /\ call \in Calls \cup {[name |-> "none", arg |-> 0]}
    /\ todo \in Seq(Packets) /\ pc \in {"idle", "out", "in"} /\ (pc = "idle" <=> todo = <<>>)
    /\ result \in {"LIBMK_SUCCESS", "LIBMK_ERR_TRANSFER", "LIBMK_ERR_PROTOCOL"} /\ data \in Int
    /\ outgoing \in Seq(SentPackets)
    /\ incoming \in Seq(Replies)
    /\ mode \in Int /\ effect \in Int /\ profile \in Int /\ saved \in Int
    /\ calls \in 0..MaxCalls /\ sent \in Nat /\ late \in 0..MaxLate
    /\ rejected \in BOOLEAN /\ stray \in BOOLEAN

Init ==
    /\ call = [name |-> "none", arg |-> 0] /\ todo = <<>> /\ pc = "idle"
    /\ result = "LIBMK_SUCCESS" /\ data = 0
    /\ outgoing = <<>> /\ incoming = <<>>
    /\ mode = LIBMK_FIRMWARE_CTRL /\ effect = 0 /\ profile = 1 /\ saved = 0
    /\ calls = 0 /\ sent = 0 /\ late = 0 /\ rejected = FALSE /\ stray = FALSE

-----------------------------------------------------------------------------
(* The library *)

Call(c) ==
    /\ pc = "idle" /\ calls < MaxCalls
    /\ call' = c /\ todo' = Script(c) /\ pc' = "out"
    /\ calls' = calls + 1 /\ stray' = FALSE
    /\ UNCHANGED <<result, data, outgoing, incoming, keyboard, sent, late, rejected>>

\* The packet at hand is done with: the next one, or back to the caller.
Continue(rest) ==
    IF rest = <<>> THEN todo' = <<>> /\ pc' = "idle" ELSE todo' = rest /\ pc' = "out"

Succeeds == result' = "LIBMK_SUCCESS" /\ Continue(Tail(todo))

\* The call ends with the error; set_all_led_color goes on with the colors.
FailsWith(error) ==
    /\ result' = error
    /\ IF Ignored THEN Continue(SubSeq(todo, Len(todo) - LedPackets + 1, Len(todo)))
       ELSE Continue(<<>>)

TransferError == "LIBMK_ERR_TRANSFER"

\* What is read after a packet was sent.
ReadsReplyBug(packet) == packet.reply # "optional"
ReadsReply(packet) == TRUE

Send ==
    /\ pc = "out" /\ sent' = sent + 1
    /\ outgoing' = Append(outgoing, [packet |-> Head(todo), id |-> sent + 1])
    /\ IF ReadsReply(Head(todo)) THEN pc' = "in" /\ UNCHANGED <<todo, result>> ELSE Succeeds
    /\ UNCHANGED <<call, data, incoming, keyboard, calls, late, stray, rejected>>

SendFails ==
    /\ pc = "out" /\ "out" \in Faults
    /\ FailsWith(TransferError)
    /\ UNCHANGED <<call, data, outgoing, incoming, keyboard, calls, sent, late, stray, rejected>>

\* A reply is there.  exch_packet, for queries, does not look at its header.
AcceptsBug(reply) == TRUE
Accepts(reply) == reply.ok \/ Head(todo).reply = "query"

Receive ==
    /\ pc = "in" /\ incoming # <<>>
    /\ incoming' = Tail(incoming)
    /\ stray' = (stray \/ Head(incoming).id # sent)
    /\ data' = IF Head(todo).reply = "query" THEN Head(incoming).value ELSE data
    /\ IF Accepts(Head(incoming)) THEN Succeeds ELSE FailsWith("LIBMK_ERR_PROTOCOL")
    /\ UNCHANGED <<call, outgoing, keyboard, calls, sent, late, rejected>>

\* None came in time.  The keyboard still answers, whenever it does.
TimedOut ==
    /\ pc = "in" /\ incoming = <<>>
    /\ "late" \in Faults /\ late < MaxLate /\ late' = late + 1
    /\ IF Head(todo).reply = "optional" THEN Succeeds ELSE FailsWith(TransferError)
    /\ UNCHANGED <<call, data, outgoing, incoming, keyboard, calls, sent, stray, rejected>>

-----------------------------------------------------------------------------
(* The keyboard *)

Applied(packet) ==
    /\ mode' = IF packet.op = "mode" THEN packet.arg ELSE mode
    /\ effect' = IF packet.op = "effect" THEN packet.arg ELSE effect
    /\ profile' = IF packet.op = "profile" THEN packet.arg ELSE profile
    /\ saved' = IF packet.op = "save" THEN profile ELSE saved

Reply(ok) ==
    incoming' = Append(incoming,
        [id |-> Head(outgoing).id, ok |-> ok,
         value |-> IF ok /\ Head(outgoing).packet.op = "get_profile" THEN profile ELSE 0])

Answer ==
    /\ outgoing # <<>> /\ outgoing' = Tail(outgoing)
    /\ Applied(Head(outgoing).packet) /\ Reply(TRUE)
    /\ UNCHANGED <<library, calls, sent, late, stray, rejected>>

Reject ==
    /\ outgoing # <<>> /\ outgoing' = Tail(outgoing)
    /\ (IF Head(outgoing).packet.reply = "query" THEN "reject_query" ELSE "reject") \in Faults
    /\ Reply(FALSE)
    /\ rejected' = TRUE
    /\ UNCHANGED <<library, keyboard, calls, sent, late, stray>>

Next ==
    \/ \E c \in Calls : Call(c)
    \/ Send \/ SendFails \/ Receive \/ TimedOut
    \/ Answer \/ Reject

Spec == Init /\ [][Next]_vars
=============================================================================
