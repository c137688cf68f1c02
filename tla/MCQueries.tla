----------------------------- MODULE MCQueries ------------------------------
EXTENDS Queries, MCLedger
=============================================================================
