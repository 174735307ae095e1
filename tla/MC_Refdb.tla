------------------------------- MODULE MC_Refdb -------------------------------
EXTENDS Refdb
AllRefs == {<<"heads", 1>>, <<"heads", 2>>, <<"tags", 1>>}
===============================================================================
