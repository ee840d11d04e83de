----------------------------- MODULE MCG1Nights -----------------------------
EXTENDS G1Nights
\* The nights on two or three specs: g1_nights.cfg.
=============================================================================
