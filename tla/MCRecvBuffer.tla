---------------------------- MODULE MCRecvBuffer ----------------------------
(* TLC instances of RecvBuffer.                                            *)
EXTENDS RecvBuffer

\* Streams of up to three frames.  In a buffer of 5 bytes a frame of 6 does
\* not fit, one of 5 fills it exactly, and one of 2 in front of a longer one
\* makes the buffer fill up with a frame half received.
FrameSizes == {2, 3, 5, 6}
SmallLayouts ==
    {<<a>> : a \in FrameSizes}
        \cup {<<a, a + b>> : a, b \in FrameSizes}
        \cup {<<a, a + b, a + b + c>> : a, b, c \in FrameSizes \ {6}}

\* Behind them nothing, or a header that announces less than itself and a byte.
SmallRests == {0, 3}
=============================================================================
