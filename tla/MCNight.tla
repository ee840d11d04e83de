------------------------------ MODULE MCNight ------------------------------
EXTENDS Night
\* The night on a handful of decisions: night.cfg.
=============================================================================
