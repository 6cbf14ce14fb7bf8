-------------------------- MODULE MCReleaseUpdate --------------------------
EXTENDS ReleaseUpdate
=============================================================================
