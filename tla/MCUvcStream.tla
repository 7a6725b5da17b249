----------------------------- MODULE MCUvcStream -----------------------------
(***************************************************************************)
(* Instances of UvcStream for TLC.                                         *)
(***************************************************************************)
EXTENDS UvcStream

\* Every failure the model knows, for as long as the program runs.
MCAllFaults == {"reqbufs", "more", "fewer", "query", "size", "dup", "mmap", "streamon",
                "qbuf", "dqbuf", "reset"}
MCNoFaults == {}
MCReset == {"reset"}
=============================================================================
