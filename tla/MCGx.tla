-------------------------------- MODULE MCGx --------------------------------
EXTENDS GxSystem

\* One subscriber leaves and the other gets the address.
HandOn == [pool |-> 2, reqs |-> <<2, 1>>, restarts |-> FALSE, refusable |-> {},
           rule |-> FALSE, media |-> {"audio"}]
\* The MME restarts and asks again for a session it has.
Again == [pool |-> 2, reqs |-> <<3, 0>>, restarts |-> TRUE, refusable |-> {},
          rule |-> TRUE, media |-> {"audio"}]
\* The database fails, the medium has no rule or needs none.
Refused == [pool |-> 1, reqs |-> <<3, 1>>, restarts |-> FALSE,
            refusable |-> {"I", "T"}, rule |-> FALSE, media |-> {"none", "bad"}]

MCSettings == {HandOn, Again, Refused}
=============================================================================
