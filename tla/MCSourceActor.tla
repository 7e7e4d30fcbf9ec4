--------------------------- MODULE MCSourceActor ---------------------------
EXTENDS SourceActor
============================================================================
