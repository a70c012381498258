------------------------------ MODULE MCIkdTree ------------------------------
\* A small ikd-Tree: two dimensions, a few points, voxels of edge 2.
EXTENDS IkdTree

Box(x0, y0, x1, y1) == [lo |-> <<x0, y0>>, hi |-> <<x1, y1>>]

MCPoints == {<<0, 0>>, <<1, 1>>, <<1, 3>>, <<3, 2>>}
MCBoxes == {Box(0, 0, 2, 4), Box(1, 1, 4, 3), Box(0, 0, 4, 4)}
MCClouds == {<< <<0, 0>>, <<3, 2>> >>, << <<0, 0>>, <<1, 1>>, <<1, 3>> >>}
MCQueries == {<<2, 1>>}
=============================================================================
