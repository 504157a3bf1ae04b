-------------------------------- MODULE Hss --------------------------------
(***************************************************************************)
(* The HSS as far as authentication goes: the callback that answers an     *)
(* Authentication-Information-Request (AIR).  freeDiameter runs callbacks  *)
(* in several threads; one callback makes three accesses to the subscriber *)
(* database, each under the database lock but the three together not.      *)
(*                                                                         *)
(* One subscriber.  RAND values are numbers, in the order they are drawn,  *)
(* 0 for the RAND of a subscriber that was never authenticated.  A vector  *)
(* is the SQN and the RAND it was computed from: XRES depends on the RAND, *)
(* KASME on both.                                                          *)
(***************************************************************************)
EXTENDS Naturals, FiniteSets

CONSTANTS MaxSqn,       \* HSS_MAX_SQN: a power of two less one
          Threads       \* threads that run callbacks

VARIABLES s6anet,       \* Diameter messages between the MME and the HSS
          db,           \* the subscriber's sqn and rand in the database
          drawn,        \* RANDs drawn
          hcb           \* callbacks that run

hssVars == <<s6anet, db, drawn, hcb>>

NoVector == [sqn |-> 0, rand |-> 0]

Masked(n) == n % (MaxSqn + 1)

Error(m) == [t |-> "AIA", id |-> m.id, ctx |-> m.ctx, ok |-> FALSE, av |-> NoVector]
Answer(m, av) == [t |-> "AIA", id |-> m.id, ctx |-> m.ctx, ok |-> TRUE, av |-> av]

HssInit(sqn, rand) ==
  s6anet = {} /\ db = [sqn |-> sqn, rand |-> rand] /\ drawn = rand /\ hcb = {}


\* What the callback goes on with after it has read `info': the RAND is drawn
\* once and again at every re-synchronisation, which takes over the SQN of the
\* USIM.
AuthInfo(m, info, fresh) ==
  IF m.resync = NoVector THEN [info EXCEPT !.rand = IF @ = 0 THEN fresh ELSE @]
  ELSE [sqn |-> Masked(m.resync.sqn + 32 + 1), rand |-> fresh]

\* hss_db_auth_info, and the re-synchronisation the request may ask for.  Its
\* MAC is right if the RAND beside it is the one the USIM was challenged with.
AirRead(m, fails) ==
  /\ Cardinality(hcb) < Threads
  /\ \/ /\ fails
        /\ s6anet' = (s6anet \ {m}) \cup {Error(m)}
        /\ UNCHANGED <<db, drawn, hcb>>
     \/ /\ m.resync # NoVector /\ m.resync.rand # m.rand
        /\ s6anet' = (s6anet \ {m}) \cup {Error(m)}
        /\ UNCHANGED <<db, drawn, hcb>>
     \/ /\ m.resync = NoVector \/ m.resync.rand = m.rand
        /\ LET info == AuthInfo(m, db, drawn + 1)
           IN  /\ drawn' = IF info.rand = drawn + 1 THEN drawn + 1 ELSE drawn
               /\ hcb' = hcb \cup {[m |-> m, pc |-> "update", av |-> info]}
        /\ s6anet' = s6anet \ {m}
        /\ UNCHANGED db

Failed(c) ==
  /\ hcb' = hcb \ {c}
  /\ s6anet' = s6anet \cup {Error(c.m)}
  /\ UNCHANGED <<db, drawn>>

\* hss_db_update_rand_and_sqn writes back what was read.
AirUpdate(c, fails) ==
  /\ c.pc = "update"
  /\ \/ fails /\ Failed(c)
     \/ /\ db' = c.av
        /\ hcb' = (hcb \ {c}) \cup {[c EXCEPT !.pc = "increment"]}
        /\ UNCHANGED <<s6anet, drawn>>

\* Mutant: the SQN is not advanced.
AirIncrementNone(c, fails) ==
  /\ c.pc = "increment"
  /\ \/ fails /\ Failed(c)
     \/ /\ hcb' = hcb \ {c}
        /\ s6anet' = s6anet \cup {Answer(c.m, c.av)}
        /\ UNCHANGED <<db, drawn>>

\* hss_db_increment_sqn, and the answer.
AirIncrement(c, fails) ==
  /\ c.pc = "increment"
  /\ \/ fails /\ Failed(c)
     \/ /\ db' = [db EXCEPT !.sqn = Masked(@ + 32)]
        /\ hcb' = hcb \ {c}
        /\ s6anet' = s6anet \cup {Answer(c.m, c.av)}
        /\ UNCHANGED drawn

\* hss_s6a_ulr_cb: the subscription data.
UlrAnswer(m, fails) ==
  /\ \E ok \in {TRUE, ~fails} :
       s6anet' = (s6anet \ {m})
         \cup {[t |-> "ULA", id |-> m.id, ctx |-> m.ctx, ok |-> ok, av |-> NoVector]}
  /\ UNCHANGED <<db, drawn, hcb>>

HssNext(fails) ==
  \/ \E m \in s6anet : m.t = "AIR" /\ AirRead(m, fails)
  \/ \E c \in hcb : AirUpdate(c, fails) \/ AirIncrement(c, fails)
  \/ \E m \in s6anet : m.t = "ULR" /\ UlrAnswer(m, fails)
=============================================================================
