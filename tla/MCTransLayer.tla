---------------------------- MODULE MCTransLayer ----------------------------
\* TransLayer with the constants of the MCTransLayer*.cfg files.
EXTENDS TransLayer
=============================================================================
