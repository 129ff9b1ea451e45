--------------------------- MODULE MCStopDelivery ---------------------------
EXTENDS StopDelivery
=============================================================================
