------------------------- MODULE TransportProperties -------------------------
(***************************************************************************)
(* What the exchange of packets keeps, and what the documentation says of  *)
(* it that the code does not do.                                           *)
(***************************************************************************)
EXTENDS Transport

Idle == pc = "idle"
Returned(name) == Idle /\ result = "LIBMK_SUCCESS" /\ call.name = name

\* The keyboard is as the call that returned success asked for.  The effect
\* that set_all_led_color asks for first is not promised by its result.
Obeyed ==
    /\ Returned("set_control_mode") => mode = call.arg
    /\ Returned("enable_control") => mode = LIBMK_CUSTOM_CTRL
    /\ Returned("set_effect") => mode = LIBMK_EFFECT_CTRL /\ effect = call.arg
    /\ Returned("set_effect_details") => mode = LIBMK_EFFECT_CTRL /\ effect = call.arg
    /\ Returned("set_single_led") => mode = LIBMK_CUSTOM_CTRL
    /\ Returned("save_profile") => mode = LIBMK_CUSTOM_CTRL /\ saved = profile
    /\ Returned("set_active_profile") => mode = LIBMK_CUSTOM_CTRL /\ profile = call.arg

\* As long as no reply came too late, a call that returns success has been
\* obeyed, and the answer to a query is the keyboard's, whatever was rejected
\* or failed to be sent before (send_recv_packet 560-595 and its callers).
SuccessIsObeyed ==
    late = 0 => Obeyed /\ (Returned("get_active_profile") => data = profile)

\* As long as no reply came too late, every packet and reply of a call is
\* used up when it returns, also from a failure, and every reply it read
\* answered the packet it had sent: calls do not see each other's replies.
NothingUnderWay ==
    late = 0 => ~stray /\ (Idle => outgoing = <<>> /\ incoming = <<>>)

\* Also with late replies, what a call was told succeeded is done once the
\* keyboard has worked off what was sent, unless it rejects packets: they are
\* never reordered, and a timeout cuts no call short that succeeds.
ObeyedInTheEnd == outgoing = <<>> /\ ~rejected => Obeyed

\* Every reply that came too late stays: packets and replies under way are
\* as many as were late, and the next read gets the reply to a packet that
\* many packets back, for ever (576-594 and 609-618 read one reply each).
UnderWay == Len(incoming) + Len(outgoing)
Lagging ==
    /\ UnderWay = IF pc = "in" THEN late + 1 ELSE late
    /\ \A i \in 1..Len(incoming) : incoming[i].id = sent - UnderWay + i
    /\ \A i \in 1..Len(outgoing) : outgoing[i].id = sent - Len(outgoing) + i

-----------------------------------------------------------------------------
(* What the documentation says, and the code does not do. *)

\* "verifies the response of the keyboard by checking the header of the
\* response packet" (libmk.h:336): success stands for a reply to the
\* packet that was sent.
RepliesAreOwn == Idle /\ result = "LIBMK_SUCCESS" => ~stray

\* "supports four individual lighting profiles" (libmk.h:431), and the
\* code checks for 1 to 4: no other profile is sent to the keyboard.
ProfileIsInRange ==
    \A i \in DOMAIN outgoing : outgoing[i].packet.op = "profile" => outgoing[i].packet.arg \in 1..4

\* "Sends packet to put the keyboard in LIBMK_EFFECT_CTRL" (libmk.h:300).
ControlIsEffect == Returned("enable_control") => mode = LIBMK_EFFECT_CTRL

\* "Effect LIBMK_EFF_CUSTOM should be enabled before sending these packets"
\* (INTERFACE.md:116): set_all_led_color succeeds only with that effect on.
ColorsAreCustom == Returned("set_all_led_color") => effect = LIBMK_EFF_CUSTOM
=============================================================================
