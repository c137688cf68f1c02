------------------------------- MODULE MCFeed -------------------------------
EXTENDS Feed, MCLedger
=============================================================================
