------------------------------- MODULE MCSeat -------------------------------
EXTENDS Seat

=============================================================================
