------------------------ MODULE MCAccountCredentials ------------------------
EXTENDS AccountCredentials
=============================================================================
