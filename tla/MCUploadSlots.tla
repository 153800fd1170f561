---------------------------- MODULE MCUploadSlots ----------------------------
\* Three users, two or three connections at a time; slots are reserved for one of the users.
EXTENDS UploadSlots

CONSTANTS u1, u2, u3, c1, c2, c3, nobody

Three == {u1, u2, u3}
TwoConns == {c1, c2}
ThreeConns == {c1, c2, c3}
First == {u1}
Nothing == {}
=============================================================================
