----------------------------- MODULE DeviceIdent -----------------------------
(***************************************************************************)
(* What libmk sees of a device on the USB bus: whether it can be opened,   *)
(* whether its manufacturer string is Cooler Master's, and which of the    *)
(* words that libmk_ident_model looks for are in its product string.       *)
(***************************************************************************)
EXTENDS Integers, Sequences

Words == {"MasterKeys", "White", "L", "S"}

Devices == [maker : BOOLEAN, product : SUBSET Words,
            usb : {"opens", "no_descriptor", "no_open"}]

\* The members of enum LibMK_Model that name a keyboard.
SizeOf == [DEV_RGB_L |-> "LIBMK_L", DEV_WHITE_L |-> "LIBMK_L",
           DEV_RGB_M |-> "LIBMK_M", DEV_WHITE_M |-> "LIBMK_M",
           DEV_RGB_S |-> "LIBMK_S", DEV_WHITE_S |-> "LIBMK_S"]
Models == DOMAIN SizeOf

libmk_ident_model(product) ==
    CASE "MasterKeys" \notin product -> "DEV_UNKNOWN"
      [] {"MasterKeys", "White", "L"} \subseteq product -> "DEV_WHITE_L"
      [] {"MasterKeys", "White", "S"} \subseteq product /\ "L" \notin product -> "DEV_WHITE_S"
      [] {"MasterKeys", "White"} \subseteq product /\ {"L", "S"} \cap product = {} -> "DEV_WHITE_M"
      [] {"MasterKeys", "L"} \subseteq product /\ "White" \notin product -> "DEV_RGB_L"
      [] {"MasterKeys", "S"} \subseteq product /\ {"White", "L"} \cap product = {} -> "DEV_RGB_S"
      [] OTHER -> "DEV_RGB_M"

\* Does libmk_open_device return a LibMK_Device, rather than NULL?
Supported(d) ==
    d.usb = "opens" /\ d.maker /\ libmk_ident_model(d.product) # "DEV_UNKNOWN"

\* Every other return of libmk_open_device is before its libusb_close.
LeftOpen(d) == d.usb = "opens" /\ ~Supported(d)
=============================================================================
