------------------------------- MODULE MCCran -------------------------------
\* Three frames of two or three samples, read one to five at a time: less than a frame, more than
\* one, two tags "end" in one call. Output buffers smaller than a packet and as large as one.
EXTENDS Cran

MCLens == {2, 3}
MCModes == {[modus |-> TRUE, reply |-> TRUE, debug_mode |-> TRUE],
            [modus |-> TRUE, reply |-> TRUE, debug_mode |-> FALSE],
            [modus |-> FALSE, reply |-> TRUE, debug_mode |-> TRUE]}
MCDebug == {m \in MCModes : m.modus /\ m.debug_mode}
MCStarting == {"starting"}
MCRooms == {1, 3}
MCExpires == {"starting", "running"}
=============================================================================
