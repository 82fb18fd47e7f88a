--------------------------- MODULE MCConversions ---------------------------
(* A small alphabet for TLC: a zero byte, the delimiter ".", a letter, the *)
(* "#" of account keys, and bytes with the high bits set.                  *)
EXTENDS Conversions, TLC

SomeBytes == {0, 46, 65, 35, 200, 255}
=============================================================================
