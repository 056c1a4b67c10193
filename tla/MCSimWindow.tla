---------------------------- MODULE MCSimWindow -----------------------------
(* An arrow key: two bytes when it is pressed, three when it is released.    *)
EXTENDS SimWindow
MCKeys == {<<224, 107>>}
=============================================================================
