------------------------------ MODULE MCBuddy ------------------------------
\* Instances of Buddy for TLC.
EXTENDS Buddy
=============================================================================
