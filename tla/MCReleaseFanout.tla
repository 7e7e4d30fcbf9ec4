---------------------------- MODULE MCReleaseFanout ----------------------------
EXTENDS ReleaseFanout
================================================================================
