------------------------------ MODULE MCStatusHub ------------------------------
EXTENDS StatusHub
===============================================================================
