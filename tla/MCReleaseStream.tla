---------------------------- MODULE MCReleaseStream ----------------------------
EXTENDS ReleaseStream
===============================================================================
