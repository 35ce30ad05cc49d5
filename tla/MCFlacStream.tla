---------------------------- MODULE MCFlacStream ----------------------------
\* A call of 2 and a frame of 3 units, so that one call in three gives no
\* frame; a reset the client notices by itself, and one it does not.
EXTENDS FlacStream

SmallAndLarge == {5, 11}
=============================================================================
