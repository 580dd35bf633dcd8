-------------------------- MODULE MCCopySequencing --------------------------
\* CopySequencing on every set of copies between three variables and a
\* temporary.
EXTENDS CopySequencing

CONSTANTS x, y, z, tmp

MCVars == {x, y, z}
MCOthers == {tmp}
Sources == [MCVars -> MCVars \union MCOthers]

\* Any tracing, right or wrong.
AnyJobs == [pending : SUBSET MCVars, reads : Sources, root : Sources]
=============================================================================
