----------------------------- MODULE MCPollAndFetch -----------------------------
EXTENDS PollAndFetch
===============================================================================
