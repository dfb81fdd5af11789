--------------------------- MODULE MCProtocolClient ---------------------------
(* A small instance of ProtocolClient: a threshold that compresses  *)
(* everything and one that switches compression off.                        *)
EXTENDS ProtocolClient

MCThresholds == {-1, 0}
=============================================================================
