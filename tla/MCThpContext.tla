----------------------------- MODULE MCThpContext -----------------------------
(* Hosts for model-checking ThpContext.                                    *)
EXTENDS ThpContext

CONSTANTS usb, ble, k1, k2

(* Two hosts on one interface, one of which is on the other one as well.   *)
ThreeHosts == {<<usb, k1>>, <<usb, k2>>, <<ble, k1>>}
===============================================================================
