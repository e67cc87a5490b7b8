------------------------ MODULE MCTelegramListener ------------------------
(* Small instances of TelegramListener.                                    *)
EXTENDS TelegramListener

CONSTANTS g1, g2, a, b
TwoGates == {g1, g2}
OneChat  == {a}
TwoSent  == <<a, a>>
=============================================================================
