------------------------------- MODULE MCState -------------------------------
EXTENDS StateRuntime
===============================================================================
