----------------------------- MODULE MCMsgBuild -----------------------------
EXTENDS MsgBuild, TLC

\* Lengths of bodies of vendor actions: none, the longest that fits in a
\* flow_mod, one more, and the first whose action has a length that wraps.
VendorBodies == {0, 65455, 65456, 65528}

\* Entries without a body, with one, and one of which the largest message has
\* room for one.
LongBodies == {0, 8, 65432}

\* Frames to be padded, of the smallest size, the longest that fits in an
\* echo, and longer than any message.
FourFrames == {20, 60, 65527, 65544}

CellSymmetry == Permutations(Cells)
=============================================================================
