------------------------- MODULE MCUpstoxTransport -------------------------
EXTENDS UpstoxTransport, TLC
CONSTANTS t1, t2
MCThreads == {t1, t2}
\* Both threads read and place orders; the second also runs the daily
\* login.
MCCalls == (t1 :> {"read", "write"}) @@ (t2 :> {"read", "write"})
\* One breaker for both categories: it sees every mix of outcomes that one of
\* its own would see.
MCBreakerOf == [k \in Kinds |-> "upstox_api"]
MCScheduler == {t2}
=============================================================================
