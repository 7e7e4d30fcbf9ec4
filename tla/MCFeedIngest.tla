---------------------------- MODULE MCFeedIngest ----------------------------
EXTENDS FeedIngest
=============================================================================
