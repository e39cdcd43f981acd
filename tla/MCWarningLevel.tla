--------------------------- MODULE MCWarningLevel ---------------------------
EXTENDS WarningLevel

\* two sources and a file the name filter passes over
MCFiles == {"a.h", "b.cpp", "c.hpp"}
MCSources == {"a.h", "b.cpp"}

\* every file of up to three lines: a run of includes at the start, in the
\* middle, at the end, or split by other text
MCContents == BoundedSeq({Mongo, Text}, 3)

=============================================================================
