-------------------------------- MODULE MCTcp -------------------------------
EXTENDS Tcp

MCKinds == {<<"Tahoe", FALSE>>, <<"Reno", TRUE>>, <<"Newreno", FALSE>>}
=============================================================================
