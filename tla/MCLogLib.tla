------------------------------ MODULE MCLogLib ------------------------------
EXTENDS LogLib
\* The clock is set back by a day after the second log.
MCTime == <<17, 18, 16>>
MCRanges == {<<16, 18>>}
MCNodes == 1..3
=============================================================================
