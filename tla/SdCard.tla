------------------------------- MODULE SdCard -------------------------------
(* The card's files as SerialTransfer writes them and FirmwareUpdate reads    *)
(* them: a file is the sequence of its chunks, which are positive numbers.    *)
EXTENDS Naturals, Sequences

CONSTANT Paths   \* names on the card

VARIABLE card    \* what each name holds

Absent == <<0>>  \* there is no file of this name

=============================================================================
