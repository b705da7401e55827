--------------------------- MODULE MCDeviceUpdate ---------------------------
(* A small instance of DeviceUpdate for TLC: the file sent is an image of     *)
(* three chunks, of which the device gathers two before it writes; the card   *)
(* holds another file; the server offers an image and another board's.        *)
EXTENDS DeviceUpdate

MCSource == <<2, 3, 4>>
MCEarlier == <<9>>
MCFactory == <<8>>
MCImages == {<<2, 3, 4>>, <<5, 6>>, <<8>>}
MCReleases == {<<5, 6>>, <<5, 7>>}

=============================================================================
