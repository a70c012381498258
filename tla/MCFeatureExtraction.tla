------------------------- MODULE MCFeatureExtraction -------------------------
\* A group of two points and a surface point for every two.
EXTENDS FeatureExtraction
=============================================================================
