----------------------------- MODULE MCWriteback -----------------------------
\* Writeback for three variables that are assigned up to four times.
EXTENDS Writeback

CONSTANTS x, y, z, t1, t2, t3, t4, param

MCVars == {x, y, z}
MCOrder == <<x, y, z>>
MCTemps == {t1, t2, t3, t4, param}
NoJobs == {}
=============================================================================
