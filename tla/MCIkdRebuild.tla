----------------------------- MODULE MCIkdRebuild -----------------------------
\* Two points, two searching threads.
EXTENDS IkdRebuild

CONSTANTS p1, p2, r1, r2

MCPoints == {p1, p2}
MCBoxSets == {{p1}, {p1, p2}}
MCReaders == {r1, r2}
=============================================================================
