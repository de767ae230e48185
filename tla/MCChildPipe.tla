---------------------------- MODULE MCChildPipe ----------------------------
(* Instances of ChildPipe for TLC.  Two byte values let a delimiter be one   *)
(* byte, two bytes or absent; IntMax = 2 and DurationMax = 9 scale the int   *)
(* of poll and the duration_t of the caller down, so that a timeout of 3 is  *)
(* longer than one poll can wait.                                            *)
EXTENDS ChildPipe

MCBytes == {"a", "d"}
MCDescendants == {"forked"}
MCSizeMax == 9
MCDurationMax == 9

\* Nothing, one byte, and everything until EOF.
MCCounts == {0, 1, MCSizeMax}

\* The empty delimiter, one byte, and two different bytes.
MCDelimiters == {<<>>, <<"d">>, <<"a", "d">>}

\* Negative, zero, within and beyond one poll, and no deadline.
MCTimeouts == {-1, 0, 1, 3, MCDurationMax}
=============================================================================
