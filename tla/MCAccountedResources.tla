------------------------ MODULE MCAccountedResources ------------------------
EXTENDS AccountedResources

\* Both guards off, or both on.
MCFlags == {<<FALSE, FALSE>>, <<TRUE, TRUE>>}
=============================================================================
