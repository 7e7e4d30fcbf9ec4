-------------------------- MODULE MCCollectionDigests --------------------------
EXTENDS CollectionDigests
================================================================================
