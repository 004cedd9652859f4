-------------------------- MODULE MCQuotaScheduler --------------------------
EXTENDS QuotaScheduler, TLC
CONSTANTS order, history

MCCallers == {order, history}
MCCritical == {order}
MCMaxWait == (order :> 1) @@ (history :> 2)
\* One token per tick with a burst of two, a quarter of it reserved; a window
\* of two tokens and one of one token, each accruing half a token per tick.
MCChain == << [rate |-> 2, capacity |-> 4, reserved |-> 1],
              [rate |-> 1, capacity |-> 4, reserved |-> 0],
              [rate |-> 1, capacity |-> 2, reserved |-> 0] >>
=============================================================================
