------------------------ MODULE MCReconciliationGate ------------------------
EXTENDS ReconciliationGate

\* The first service may be started a second time, the second one once.
MCLoops == {<<1, 1>>, <<1, 2>>, <<2, 1>>}
=============================================================================
