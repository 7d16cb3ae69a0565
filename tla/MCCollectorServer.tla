------------------------- MODULE MCCollectorServer -------------------------
\* CollectorServer with the constants of MCCollectorServer.cfg.
EXTENDS CollectorServer
=============================================================================
