---------------------------- MODULE MCSseStream ----------------------------
(***************************************************************************)
(* SseStream with one frame of each kind that is handled differently.      *)
(***************************************************************************)
EXTENDS SseStream

Frame(meant, form, type, direction) ==
    [meant |-> meant, form |-> form, type |-> type, direction |-> direction,
     fits |-> form = "json", whole |-> form = "json"]

Inbound == Frame("inbound", "json", "dm", "in")
Untyped == Frame("inbound", "json", "", "in")
Echo == Frame("echo", "json", "sent_dm", "out")
EchoByType == Frame("echo", "json", "sent_dm", "")
EchoByDirection == Frame("echo", "json", "dm", "out")
ChannelMessage == Frame("channel", "json", "dm", "in")
Foreign == Frame("foreign", "json", "dm.recv", "in")
NoText == [Frame("none", "json", "dm", "in") EXCEPT !.whole = FALSE]
NoDm == [Frame("none", "json", "sent_dm", "out") EXCEPT !.fits = FALSE]
Status == Frame("none", "json", "status", "in")
Malformed == Frame("none", "malformed", "", "")
Cut == Frame("none", "malformed, cut", "", "")
Empty == Frame("none", "empty", "", "")

EveryFrame == {Inbound, Untyped, Echo, EchoByType, EchoByDirection,
               ChannelMessage, Foreign, NoText, NoDm, Status, Malformed, Cut, Empty}
=============================================================================
