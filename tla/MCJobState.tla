----------------------------- MODULE MCJobState -----------------------------
(* Small instances of JobState for TLC.                                    *)
EXTENDS JobState, TLC

\* Processes are interchangeable, and so are reset commands.
MCSymmetry == Permutations(Workers) \cup Permutations(Operators)
=============================================================================
