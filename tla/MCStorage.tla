----------------------------- MODULE MCStorage -----------------------------
EXTENDS Storage
=============================================================================
