------------------------------ MODULE MC_Polling ------------------------------
EXTENDS Polling
===============================================================================
