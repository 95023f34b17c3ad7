------------------------------- MODULE MCAodv -------------------------------
EXTENDS Aodv

Chain == {{{0, 1}, {1, 2}, {2, 3}}}
OneSource == {<<0, 3>>}
TwoSources == {<<0, 3>>, <<2, 3>>}
=============================================================================
