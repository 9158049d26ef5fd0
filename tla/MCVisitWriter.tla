--------------------------- MODULE MCVisitWriter ---------------------------
EXTENDS VisitWriter, MCVisits
=============================================================================
