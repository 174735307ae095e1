------------------------------- MODULE MC_Graph -------------------------------
EXTENDS Graph
===============================================================================
