----------------------------- MODULE S6aSystem -----------------------------
(***************************************************************************)
(* The MME and the HSS with a UE that attaches, asks for service, loses    *)
(* its connection and detaches.  The UE is external: its USIM takes a      *)
(* vector whose SQN is greater than the last it took and otherwise answers *)
(* with that one (33.102), it takes a vector into use when the MME says so *)
(* (24.301), and its eNB checks the KeNB.  `mark' holds what the           *)
(* properties make an exception for.                                       *)
(***************************************************************************)
EXTENDS Emm

CONSTANT Settings   \* what surrounds the two in a behaviour: a set of records
\*   sqn       SQN in the database     usim   SQN in the USIM
\*   tries     attach requests         again  they may come before an answer
\*   fails     the database may fail   drops  connections that are lost
\*   calls     service requests and tracking area updates
\*   lost      how many uplink messages may get lost in a row
\*   count     NAS COUNT at the start, of a UE that is registered, or -1

VARIABLES env, ue, up, mark

vars == <<hssVars, mme, env, ue, up, mark>>

\* Uplink messages, with the protection the UE puts on them.
Plain(u, m) == m @@ [cid |-> u.cid, sec |-> "plain", key |-> NoVector,
                     cnt |-> 0, ksi |-> u.key # NoVector]
Secured(u, m, sec) == m @@ [cid |-> u.cid, sec |-> sec, key |-> u.key,
                            cnt |-> u.ul, ksi |-> TRUE]

\* The UE sends m: protected once protection is in use on the connection.
Say(u, m) ==
  IF u.secure THEN /\ up' = Append(up, Secured(u, m, "int"))
                   /\ ue' = [u EXCEPT !.ul = @ + 1]
  ELSE up' = Append(up, Plain(u, m)) /\ ue' = u

Connected(u) ==
  IF u.conn THEN u ELSE [u EXCEPT !.conn = TRUE, !.cid = @ + 1, !.secure = FALSE]

\* Nothing is under way.
Quiet == /\ up = <<>> /\ mme.dn = <<>> /\ mme.s11 = <<>> /\ mme.esm = <<>>
         /\ s6anet = {} /\ hcb = {}

\* The first attach, or another one when the timer of the last has run out: it
\* may do so before the network is done with the last (env.again).
UeAttach ==
  /\ ue.st \in {"off", "trying"} /\ (env.again \/ Quiet)
  /\ ue.tries > 0
  /\ LET n == [Connected(ue) EXCEPT !.st = "trying", !.tries = @ - 1]
     IN  \/ /\ ue.key # NoVector
            /\ up' = Append(up, Secured(n, [t |-> "Attach"], "int"))
            /\ ue' = [n EXCEPT !.ul = @ + 1, !.kcnt = n.ul]
         \/ /\ ue.key = NoVector
            /\ up' = Append(up, Plain(n, [t |-> "Attach"]))
            /\ ue' = n
  /\ mark' = [mark EXCEPT !.again = ~Quiet, !.raced = @ \/ ~Quiet,
                           !.synch = IF Quiet THEN 0 ELSE @, !.radio = @ /\ ~Quiet,
                           !.tau = FALSE]
  /\ UNCHANGED <<hssVars, mme, env>>

\* Switched off and on, without the keys.
UeForget ==
  /\ ue.st = "off" /\ ~ue.conn /\ ue.key # NoVector
  /\ ue' = [ue EXCEPT !.key = NoVector]
  /\ UNCHANGED <<hssVars, mme, env, up, mark>>

\* A request of an idle UE, or of one that moved; what was lost before it and is
\* more than the MME can make up for is marked.
UeRequest(m, sec, bound) ==
  /\ ue.st = "registered" /\ ue.calls > 0
  /\ LET n == [Connected(ue) EXCEPT !.calls = @ - 1]
     IN  /\ up' = Append(up, Secured(n, m, sec))
         /\ ue' = [n EXCEPT !.ul = @ + 1, !.kcnt = n.ul]
  /\ mark' = [mark EXCEPT !.lost = 0, !.beyond = @ \/ mark.lost > bound,
                          !.radio = FALSE, !.tau = (m.t = "Tau")]
  /\ UNCHANGED <<hssVars, mme, env>>

UeService == ~ue.conn /\ UeRequest([t |-> "ServiceRequest"], "sr", 30)

UeTau(active) ==
  /\ ue.conn => ue.secure /\ ~active
  /\ UeRequest([t |-> "Tau", init |-> ~ue.conn, active |-> active], "int", 254)

\* k messages of the UE get lost on the radio.
UeLoses(k) ==
  /\ ue.st = "registered" /\ ~ue.conn /\ ue.calls > 0 /\ mark.lost = 0
  /\ ue' = [ue EXCEPT !.ul = @ + k]
  /\ mark' = [mark EXCEPT !.lost = k]
  /\ UNCHANGED <<hssVars, mme, env, up>>

UeDetach ==
  /\ ue.st = "registered" /\ ue.conn /\ ue.secure /\ ue.tries > 0
  /\ up' = Append(up, Secured(ue, [t |-> "Detach"], "int"))
  /\ ue' = [ue EXCEPT !.ul = @ + 1, !.st = "off"]
  /\ UNCHANGED <<hssVars, mme, env, mark>>

\* The eNB gives the connection up: it was not used, or it was lost.
RadioLost ==
  /\ ue.conn /\ ue.drops > 0
  /\ up' = Append(up, [t |-> "ReleaseRequest", cid |-> ue.cid])
  /\ ue' = [ue EXCEPT !.conn = FALSE, !.drops = @ - 1]
  /\ UNCHANGED <<hssVars, mme, env, mark>>

-----------------------------------------------------------------------------
(* What the UE makes of a downlink message *)

Challenge(d) ==
  IF d.av.sqn > ue.sqn
  THEN /\ Say([ue EXCEPT !.sqn = d.av.sqn, !.av = d.av],
              [t |-> "AuthenticationResponse", rand |-> d.av.rand])
       /\ mark' = [mark EXCEPT !.synch = 0]
  ELSE /\ Say(ue, [t |-> "SynchFailure", auts |-> [sqn |-> ue.sqn, rand |-> d.av.rand]])
       /\ mark' = [mark EXCEPT !.synch = @ + 1]

TakeKeys(d) ==
  IF d.key = ue.av
  THEN LET n == [ue EXCEPT !.key = ue.av, !.ul = 0, !.secure = TRUE]
       IN  /\ up' = Append(up, Secured(n, [t |-> "SecurityModeComplete"], "new"))
           /\ ue' = [n EXCEPT !.ul = 1, !.kcnt = 0]
  ELSE Say(ue, [t |-> "SecurityModeReject"])

\* The eNB and the UE start to use the KeNB.
RadioSecured(kenb) == kenb = [av |-> ue.key, ul |-> ue.kcnt]

RadioFails ==
  /\ up' = Append(up, [t |-> "ReleaseRequest", cid |-> ue.cid])
  /\ ue' = [ue EXCEPT !.conn = FALSE]

Accept(d) ==
  IF RadioSecured(d.kenb)
  THEN Say([ue EXCEPT !.st = "registered", !.secure = TRUE], [t |-> "AttachComplete"])
  ELSE RadioFails

UeHears ==
  /\ mme.dn # <<>>
  /\ mme' = [mme EXCEPT !.dn = Tail(@)]
  /\ LET d == Head(mme.dn)
         here == ue.conn /\ d.cid = ue.cid
     IN  \/ /\ d.t = "Release"
            /\ up' = Append(up, [t |-> "ReleaseComplete", cid |-> d.cid])
            /\ ue' = IF here THEN [ue EXCEPT !.conn = FALSE] ELSE ue
            /\ UNCHANGED mark
         \/ /\ here /\ d.t = "AuthenticationRequest" /\ ue.st # "off"
            /\ Challenge(d)
         \/ /\ here /\ d.t = "SecurityModeCommand" /\ ue.st # "off"
            /\ TakeKeys(d) /\ UNCHANGED mark
         \/ /\ here /\ d.t = "AttachAccept" /\ ue.st = "trying" /\ d.key = ue.key
            /\ Accept(d)
            /\ mark' = [mark EXCEPT !.radio = @ \/ ~RadioSecured(d.kenb)]
         \/ /\ here /\ d.t = "ContextSetup" /\ ue.st = "registered"
            /\ \/ RadioSecured(d.kenb) /\ ue' = [ue EXCEPT !.secure = TRUE]
                  /\ UNCHANGED up
               \/ ~RadioSecured(d.kenb) /\ RadioFails
            /\ mark' = [mark EXCEPT !.radio = @ \/ ~RadioSecured(d.kenb)]
         \/ /\ here /\ d.t \in {"AuthenticationReject", "AttachReject"}
            /\ ue' = [ue EXCEPT !.st = "refused"]
            /\ UNCHANGED <<up, mark>>
         \/ /\ here /\ d.t \in {"ServiceReject", "TauReject"}
            /\ ue' = [ue EXCEPT !.st = "off", !.key = NoVector]
            /\ UNCHANGED <<up, mark>>
         \/ /\ \/ ~here /\ d.t # "Release"
               \/ d.t \in {"DetachAccept", "ActivateDefault", "TauAccept"}
               \/ ue.st = "off" /\ d.t \in {"AuthenticationRequest", "SecurityModeCommand"}
               \/ d.t = "AttachAccept" /\ ~(ue.st = "trying" /\ d.key = ue.key)
               \/ d.t = "ContextSetup" /\ ue.st # "registered"
            /\ UNCHANGED <<ue, up, mark>>
  /\ UNCHANGED <<hssVars, env>>

-----------------------------------------------------------------------------
\* The requests a handler made leave with it.
Sent(m) ==
  /\ mme' = [m EXCEPT !.out = {}]
  /\ s6anet' = s6anet \cup m.out

MmeS1ap ==
  /\ up # <<>>
  /\ up' = Tail(up)
  /\ LET msg == Head(up)
     IN  \/ msg.t = "ReleaseRequest" /\ Sent(ReleaseRequest(mme, msg))
         \/ msg.t = "ReleaseComplete" /\ Sent(ReleaseComplete(mme, msg))
         \/ /\ msg.t \notin {"ReleaseRequest", "ReleaseComplete"}
            /\ Sent(NasMessage(mme, msg))
  /\ mark' = [mark EXCEPT !.late = @ /\ ~\E i \in Slots :
                 /\ mme.ctx[i].emm # "security_mode"
                 /\ mme'.ctx[i].emm = "security_mode"]
  /\ UNCHANGED <<db, drawn, hcb, env, ue>>

MmeS6a(a) ==
  /\ LET m == S6aMessage(mme, a)
     IN  mme' = m /\ s6anet' = s6anet \ {a}
  /\ mark' = [mark EXCEPT !.late = @ \/ (/\ a.t = "AIA" /\ a.ok
                                         /\ mme.ctx[a.ctx].emm # "authentication")]
  /\ UNCHANGED <<db, drawn, hcb, env, ue, up>>

MmeS11 ==
  /\ mme.s11 # <<>> /\ Sent(S11Message(mme))
  /\ UNCHANGED <<db, drawn, hcb, env, ue, up, mark>>

MmeEsm ==
  /\ mme.esm # <<>> /\ Sent(PdnConnectivity(mme))
  /\ UNCHANGED <<db, drawn, hcb, env, ue, up, mark>>

\* The vectors the HSS gives out, and whether its callbacks overlapped.
HssStep ==
  /\ HssNext(env.fails)
  /\ LET new == {a.av : a \in {x \in s6anet' \ s6anet : x.t = "AIA" /\ x.ok}}
     IN  mark' = [mark EXCEPT
           !.overlap = @ \/ Cardinality(hcb') > 1,
           !.twice = @ \/ \E a \in new : \E b \in mark.given : a.sqn = b.sqn,
           !.given = @ \cup new]
  /\ UNCHANGED <<mme, env, ue, up>>

FirstVector == [sqn |-> 32, rand |-> 1]

Registered(c) ==
  [NoContext EXCEPT !.emm = "registered", !.type = "attach", !.ksi = TRUE,
     !.avail = TRUE, !.av = FirstVector, !.knas = FirstVector, !.ul = c,
     !.sess = "up", !.s11 = TRUE]

Init ==
  /\ env \in Settings
  /\ HssInit(env.sqn, IF env.count < 0 THEN 0 ELSE 1)
  /\ MmeInit(IF env.count < 0 THEN <<>> ELSE <<Registered(env.count)>>)
  /\ up = <<>>
  /\ ue = [st |-> IF env.count < 0 THEN "off" ELSE "registered",
           sqn |-> env.usim, av |-> NoVector,
           key |-> IF env.count < 0 THEN NoVector ELSE FirstVector,
           ul |-> env.count + 1, kcnt |-> 0, secure |-> FALSE,
           conn |-> FALSE, cid |-> 0, tries |-> env.tries,
           calls |-> env.calls, drops |-> env.drops]
  /\ mark = [again |-> FALSE, raced |-> FALSE, late |-> FALSE, overlap |-> FALSE,
             twice |-> FALSE, synch |-> 0, radio |-> FALSE, lost |-> 0,
             beyond |-> FALSE, tau |-> FALSE,
             given |-> IF env.count < 0 THEN {} ELSE {FirstVector}]

Ue == \/ UeAttach \/ UeForget \/ UeService \/ UeDetach \/ RadioLost
      \/ \E active \in BOOLEAN : UeTau(active)
      \/ \E k \in env.lost : UeLoses(k)

System == \/ UeHears \/ MmeS1ap \/ MmeS11 \/ MmeEsm \/ HssStep
          \/ \E a \in s6anet : a.t \in {"AIA", "ULA"} /\ MmeS6a(a)

Next == Ue \/ System

Spec == Init /\ [][Next]_vars

-----------------------------------------------------------------------------
(* Properties *)

Live == {i \in Slots : mme.ctx[i].emm # "none"}
Attached(i) == mme.ctx[i].emm \in {"initial_context_setup", "registered"}

\* Contexts, counts and vectors have their types, and no more callbacks run
\* than the dispatcher has threads.
TypeOK ==
  /\ env \in Settings
  /\ mme.free \in Seq(Slots) /\ mme.cur \in Slots \cup {0} /\ mme.s1 \in Slots \cup {0}
  /\ \A i \in Slots : /\ mme.ctx[i].emm \in EmmStates
                      /\ mme.ctx[i].ul \in 0..(2^24 - 1)
                      /\ mme.ctx[i].sess \in {"none", "asked", "up"}
  /\ db.sqn \in 0..MaxSqn /\ db.rand \in 0..drawn
  /\ Cardinality(hcb) <= Threads
  /\ ue.st \in {"off", "trying", "registered", "refused"}

\* An honest UE is refused, by AUTHENTICATION REJECT or ATTACH REJECT, only if
\* it repeated its attach while the last was being answered, or the database
\* failed: in all other orders of events XRES, RAND and AUTS belong together.
RefusedOnlyInRace == ue.st = "refused" => mark.again \/ env.fails

\* The HSS gives no SQN out twice, through re-synchronisation and failures in
\* the middle of hss_s6a_air_cb, unless two of its callbacks run at the same
\* time: their reads and writes of the database are not one transaction.
VectorsUnique == mark.twice => mark.overlap



\* The KeNB the MME hands to the eNB, at an attach and at a service request, is
\* the one the UE computes from its own key and count.  It is not at a tracking
\* area update with the active flag, as emm_handle_tau_request leaves KeNB alone,
\* nor after a wrong MAC during authentication, as mac_failed outlives it.
RadioKeysAgree ==
  mark.radio => mark.late \/ mark.again \/ mark.tau \/ mark.beyond


\* When nothing is under way any more, the MME has a UE that takes itself for
\* registered in its tables as such, with a session and with the same NAS
\* keys, whatever went wrong before the last attach.  A connection lost in the
\* middle of the authentication that a wrong MAC led to leaves the context in
\* that state, where a service request is an unknown message.
AgreeAtRest ==
  Quiet /\ ue.st = "registered" /\ ~mark.again /\ ~mark.beyond
    => /\ mme.cur # 0
       /\ mme.ctx[mme.cur].emm = "registered" /\ mme.ctx[mme.cur].sess = "up"
       /\ mme.ctx[mme.cur].knas = ue.key

\* The session a Delete Session Response will remove was not removed before,
\* unless an attach was repeated: the transaction keeps a pointer to it, and
\* mme_sess_remove would put it back into its pool a second time.
DeleteFindsSession ==
  \A k \in 1..Len(mme.s11) :
    mme.s11[k].t = "delete" => mme.ctx[mme.s11[k].ctx].sess # "none" \/ mark.again
=============================================================================
