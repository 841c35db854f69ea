----------------------------- MODULE MCTransport -----------------------------
(***************************************************************************)
(* Instances of TransportProperties for TLC.                               *)
(***************************************************************************)
EXTENDS TransportProperties

Make(name, arg) == [name |-> name, arg |-> arg]
AllCalls ==
    {Make("set_control_mode", LIBMK_FIRMWARE_CTRL), Make("set_control_mode", LIBMK_PROFILE_CTRL)}
    \cup {Make("set_effect", e) : e \in {4, LIBMK_EFF_CUSTOM}}
    \cup {Make("set_active_profile", p) : p \in {2, 3}}
    \cup {Make(name, 5) : name \in {"enable_control", "set_effect_details", "set_full_color",
            "set_all_led_color", "set_single_led", "save_profile", "get_active_profile"}}
ProfileCalls == {Make("set_active_profile", 2), Make("get_active_profile", 0)}
DisputedCalls ==
    {Make("set_control_mode", LIBMK_CUSTOM_CTRL), Make("set_active_profile", 9)}
    \cup {Make(name, 0) : name \in {"enable_control", "set_full_color", "set_all_led_color"}}
=============================================================================
