-------------------------------- MODULE Emm --------------------------------
(***************************************************************************)
(* Authentication, security mode and the keys in the MME: the EMM state    *)
(* machine of a UE, the S6a answers, and the session an attach asks for.   *)
(*                                                                         *)
(* One subscriber.  An mme_ue_t is a slot of mme_ue_pool; it is found by   *)
(* its IMSI (`cur'), by the S1 connection (`s1') or by the slot number a   *)
(* pending request keeps.  A handler is an operator from the state of the  *)
(* MME to its next state; an S1AP event and the EMM event it becomes are   *)
(* one step, what may come between them is the subject of S1System.        *)
(***************************************************************************)
EXTENDS Naturals, Sequences, TLC, NasSecurity, Hss

CONSTANT Slots          \* slots of mme_ue_pool: 1..n

VARIABLE mme
\*   ctx   the contexts        free  the free slots, in order
\*   cur   the context of the IMSI, or 0
\*   cid   the S1 connection, or 0       s1  its context, or 0
\*   rel   what its release is to do
\*   dn    messages to the UE  out   Diameter requests to send
\*   nid   their next number   s11   requests the SGW has
\*   esm   contexts whose PDN connectivity request is queued for ESM

EmmStates == {"none", "de_registered", "authentication", "security_mode",
              "initial_context_setup", "registered", "exception"}

NoKenb == [av |-> NoVector, ul |-> 0]

\* A context: the last vector (XRES, KASME and RAND), the vector the NAS keys
\* were made of, the KeNB, and the fields SECURITY_CONTEXT_IS_VALID reads.
NoContext ==
  [emm |-> "none", type |-> "none", ksi |-> FALSE, avail |-> FALSE,
   macf |-> FALSE, av |-> NoVector, knas |-> NoVector, kenb |-> NoKenb,
   ul |-> 0, sess |-> "none", s11 |-> FALSE, enb |-> FALSE]

\* The contexts in use at the start are cs.
MmeInit(cs) ==
  mme = [ctx |-> [i \in Slots |-> IF i \in DOMAIN cs THEN cs[i] ELSE NoContext],
         free |-> [k \in 1..(Cardinality(Slots) - Len(cs)) |-> k + Len(cs)],
         cur |-> Len(cs), cid |-> 0, s1 |-> 0, rel |-> "none",
         dn |-> <<>>, out |-> {}, nid |-> 1, s11 |-> <<>>, esm |-> <<>>]

Valid(c) == c.avail /\ ~c.macf /\ c.ksi

Enter(m, i, state) == [m EXCEPT !.ctx[i].emm = state]

\* nas_send_to_downlink_nas_transport: nothing is sent without a connection.
Down(m, i, d) ==
  IF m.ctx[i].enb THEN [m EXCEPT !.dn = Append(@, d @@ [cid |-> m.cid])]
  ELSE m

\* nas_security_encode makes the security context available, whatever the
\* message, once algorithms were chosen.
Protected(m, i, d) ==
  Down([m EXCEPT !.ctx[i].avail = @ \/ m.ctx[i].knas # NoVector], i,
       d @@ [key |-> m.ctx[i].knas])

Release(m, action) ==
  [m EXCEPT !.rel = action, !.dn = Append(@, [t |-> "Release", cid |-> m.cid])]

\* Mutant: a re-synchronisation goes without the RAND of the challenge.
AskNoRand(m, i, t, resync) ==
  [m EXCEPT !.nid = @ + 1,
            !.out = @ \cup {[t |-> t, id |-> m.nid, ctx |-> i, resync |-> resync,
                             rand |-> 0]}]

Ask(m, i, t, resync) ==
  [m EXCEPT !.nid = @ + 1,
            !.out = @ \cup {[t |-> t, id |-> m.nid, ctx |-> i, resync |-> resync,
                             rand |-> m.ctx[i].av.rand]}]


\* CLEAR_SECURITY_CONTEXT sets the key set identifier to 0, a valid one.
mme_s6a_send_air(m, i, auts) ==
  Ask([m EXCEPT !.ctx[i].avail = FALSE, !.ctx[i].macf = FALSE,
                !.ctx[i].ksi = TRUE], i, "AIR", auts)

mme_gtp_send_delete_all_sessions(m, i) ==
  LET n == [m EXCEPT !.ctx[i].s11 = FALSE]
  IN  IF m.ctx[i].sess = "up"
      THEN [n EXCEPT !.s11 = Append(@, [t |-> "delete", ctx |-> i])]
      ELSE [n EXCEPT !.ctx[i].sess = "none"]

nas_send_detach_accept(m, i) ==
  IF m.ctx[i].enb
  THEN Release(Protected(m, i, [t |-> "DetachAccept"]), "S1_NORMAL_RELEASE")
  ELSE m

\* nas_security_decode: the count goes on before the MAC is checked, and a MAC
\* that is wrong is remembered, not refused.
nas_security_decode(c, msg) ==
  LET ul == SqnReceived(IF msg.sec = "new" THEN 0 ELSE c.ul, Sqn(msg.cnt))
  IN  CASE msg.sec = "plain" -> c
        [] msg.sec = "sr" ->
             LET sr == ServiceRequestReceived(c.ul, Low(msg.cnt))
             IN  [c EXCEPT !.ul = sr, !.macf = @ \/ sr # msg.cnt \/ c.knas # msg.key]
        [] OTHER -> IF ~c.avail THEN c
                    ELSE [c EXCEPT !.ul = ul,
                            !.macf = @ \/ ul # msg.cnt \/ c.knas # msg.key]

\* Mutant: KeNB is derived from the count of the last security mode.
UpdateKenbOldCount(c) ==
  IF Valid(c) THEN [c EXCEPT !.kenb = [av |-> c.av, ul |-> 0]] ELSE c

UpdateKenb(c) ==
  IF Valid(c) THEN [c EXCEPT !.kenb = [av |-> c.av, ul |-> c.ul]] ELSE c

emm_handle_attach_request(m, i, msg) ==
  [m EXCEPT !.cur = i,
            !.ctx[i] = UpdateKenb([@ EXCEPT !.type = "attach", !.ksi = msg.ksi])]

-----------------------------------------------------------------------------
(* The EMM states *)

mme_send_delete_session_or_detach(m, i) ==
  IF m.ctx[i].s11 THEN mme_gtp_send_delete_all_sessions(m, i)
  ELSE nas_send_detach_accept(m, i)

Detach(m, i, msg) ==
  LET n == [m EXCEPT !.ctx[i].type = "detach", !.ctx[i].ksi = msg.ksi]
  IN  Enter(mme_send_delete_session_or_detach(n, i), i, "de_registered")

\* s1ap_send_initial_context_setup_request
SetUp(m, i) == Down(m, i, [t |-> "ContextSetup", kenb |-> m.ctx[i].kenb])

ServiceRequest(m, i, msg) ==
  LET n == [m EXCEPT !.ctx[i] = UpdateKenb([@ EXCEPT !.type = "service",
                                                     !.ksi = msg.ksi])]
  IN  IF Valid(n.ctx[i]) THEN SetUp(n, i)
      ELSE Release(Down(n, i, [t |-> "ServiceReject"]), "S1_NORMAL_RELEASE")

\* nas_send_tau_accept, inside an initial context setup request or alone.
TauAccept(m, i, setup) ==
  IF setup THEN SetUp(Protected(m, i, [t |-> "TauAccept"]), i)
  ELSE Protected(m, i, [t |-> "TauAccept"])

\* A tracking area update leaves KeNB as it is.  A UE that came for nothing else
\* is released.
TrackingAreaUpdate(m, i, msg) ==
  LET n == [m EXCEPT !.ctx[i].type = "tau", !.ctx[i].ksi = msg.ksi]
  IN  CASE ~m.ctx[i].s11 -> Enter(Down(n, i, [t |-> "TauReject"]), i, "exception")
        [] m.ctx[i].s11 /\ ~Valid(n.ctx[i]) ->
             Enter(mme_s6a_send_air(n, i, NoVector), i, "authentication")
        [] OTHER -> IF msg.init /\ ~msg.active
                    THEN Release(TauAccept(n, i, FALSE), "S1_NORMAL_RELEASE")
                    ELSE TauAccept(n, i, msg.init)

\* Mutant: authentication starts while the sessions are being deleted.
CommonAttachAtOnce(m, i) ==
  IF Valid(m.ctx[i])
  THEN Enter([m EXCEPT !.esm = Append(@, i)], i, "initial_context_setup")
  ELSE Enter(IF m.ctx[i].s11
             THEN mme_s6a_send_air(mme_gtp_send_delete_all_sessions(m, i), i, NoVector)
             ELSE mme_s6a_send_air(m, i, NoVector), i, "authentication")

CommonAttach(m, i) ==
  IF Valid(m.ctx[i])
  THEN Enter([m EXCEPT !.esm = Append(@, i)], i, "initial_context_setup")
  ELSE Enter(IF m.ctx[i].s11 THEN mme_gtp_send_delete_all_sessions(m, i)
             ELSE mme_s6a_send_air(m, i, NoVector), i, "authentication")

common_register_state(m, i, msg) ==
  CASE msg.t = "ServiceRequest" -> ServiceRequest(m, i, msg)
    [] msg.t = "Attach" -> CommonAttach(emm_handle_attach_request(m, i, msg), i)
    [] msg.t = "Tau" -> TrackingAreaUpdate(m, i, msg)
    [] msg.t = "Detach" -> Detach(m, i, msg)
    [] OTHER -> m

\* Entry of emm_state_security_mode: the NAS keys come from the last KASME,
\* and both counts start again.
SecurityMode(m, i) ==
  Protected([m EXCEPT !.ctx[i] = [@ EXCEPT !.emm = "security_mode",
                                           !.knas = m.ctx[i].av, !.ul = 0]],
            i, [t |-> "SecurityModeCommand"])

AuthenticationReject(m, i) ==
  Enter(Down(m, i, [t |-> "AuthenticationReject"]), i, "exception")

AuthenticationResponse(m, i, msg) ==
  IF msg.rand = m.ctx[i].av.rand THEN SecurityMode(m, i)
  ELSE AuthenticationReject(m, i)

AttachAgain(m, i, msg) ==
  Enter(mme_s6a_send_air(emm_handle_attach_request(m, i, msg), i, NoVector),
        i, "authentication")

emm_state_authentication(m, i, msg) ==
  CASE msg.t = "AuthenticationResponse" -> AuthenticationResponse(m, i, msg)
    [] msg.t = "SynchFailure" -> mme_s6a_send_air(m, i, msg.auts)
    [] msg.t = "Attach" -> AttachAgain(m, i, msg)
    [] msg.t = "Detach" -> Detach(m, i, msg)
    [] OTHER -> m

SecurityModeComplete(m, i) ==
  LET n == Ask([m EXCEPT !.ctx[i] = UpdateKenb(@)], i, "ULR", NoVector)
  IN  Enter(n, i, IF m.ctx[i].type = "attach" THEN "initial_context_setup"
                  ELSE "registered")

emm_state_security_mode(m, i, msg) ==
  CASE msg.t = "SecurityModeComplete" -> SecurityModeComplete(m, i)
    [] msg.t = "SecurityModeReject" -> Enter(m, i, "exception")
    [] msg.t = "Attach" -> AttachAgain(m, i, msg)
    [] msg.t = "Detach" -> Detach(m, i, msg)
    [] OTHER -> m

emm_state_initial_context_setup(m, i, msg) ==
  CASE msg.t = "AttachComplete" -> Enter(m, i, "registered")
    [] msg.t = "Attach" ->
         Enter(mme_gtp_send_delete_all_sessions(
                 emm_handle_attach_request(m, i, msg), i), i, "authentication")
    [] msg.t = "Detach" -> Detach(m, i, msg)
    [] OTHER -> m

Dispatch(m, i, msg) ==
  CASE m.ctx[i].emm \in {"de_registered", "registered"} ->
         common_register_state(m, i, msg)
    [] m.ctx[i].emm = "authentication" -> emm_state_authentication(m, i, msg)
    [] m.ctx[i].emm = "security_mode" -> emm_state_security_mode(m, i, msg)
    [] m.ctx[i].emm = "initial_context_setup" ->
         emm_state_initial_context_setup(m, i, msg)
    [] OTHER -> m

\* mme_send_delete_session_or_ue_context_release
Leave(m, i) ==
  IF m.ctx[i].s11 THEN mme_gtp_send_delete_all_sessions(m, i)
  ELSE Release(m, "UE_CONTEXT_REMOVE")

-----------------------------------------------------------------------------
(* Events *)

\* mme_ue_add
mme_ue_add(m) ==
  [m EXCEPT !.free = Tail(@),
            !.ctx[Head(m.free)] = [NoContext EXCEPT !.emm = "de_registered"]]

\* An uplink NAS message.  The context is that of the connection or, on a new
\* connection, the one the message names, or a new one; an older connection
\* of the context is released without a word.
NasMessage(m, msg) ==
  LET i == CASE m.cid = msg.cid -> m.s1 [] m.cur # 0 -> m.cur [] OTHER -> Head(m.free)
      a == IF m.cid # msg.cid /\ m.cur = 0 THEN mme_ue_add(m) ELSE m
      b == [a EXCEPT !.cid = msg.cid, !.s1 = i, !.ctx[i].enb = TRUE]
      c == [b EXCEPT !.ctx[i] = nas_security_decode(@, msg)]
      d == Dispatch(c, i, msg)
  IN  IF d.ctx[i].emm = "exception" THEN Leave(d, i) ELSE d

\* UE context release request of the eNB.
ReleaseRequest(m, msg) ==
  IF m.cid = msg.cid THEN Release(m, "S1_NORMAL_RELEASE") ELSE m

\* Mutant: every release removes the context.
ReleaseCompleteRemove(m, msg) ==
  LET n == [m EXCEPT !.cid = 0, !.s1 = 0, !.ctx[m.s1].enb = FALSE]
  IN  CASE m.cid # msg.cid -> m
        [] OTHER -> [n EXCEPT !.ctx[m.s1].emm = "none", !.ctx[m.s1].sess = "none",
                              !.cur = 0, !.free = Append(@, m.s1)]

\* A context that is removed keeps what it holds until its slot is used again.
ReleaseComplete(m, msg) ==
  LET n == [m EXCEPT !.cid = 0, !.s1 = 0, !.ctx[m.s1].enb = FALSE]
  IN  CASE m.cid # msg.cid -> m
        [] m.rel = "S1_NORMAL_RELEASE" -> n
        [] OTHER -> [n EXCEPT !.ctx[m.s1].emm = "none", !.ctx[m.s1].sess = "none",
                              !.cur = 0, !.free = Append(@, m.s1)]

\* mme_s6a_handle_aia, in whatever state the UE is.
mme_s6a_handle_aia(m, i, av) ==
  Down([m EXCEPT !.ctx[i].av = av], i, [t |-> "AuthenticationRequest", av |-> av])

UlaReceived(m, i) ==
  CASE m.ctx[i].emm = "initial_context_setup" /\ m.ctx[i].type = "attach" ->
         [m EXCEPT !.esm = Append(@, i)]
    [] m.ctx[i].emm = "registered" /\ m.ctx[i].type = "tau" -> TauAccept(m, i, TRUE)
    [] m.ctx[i].emm = "registered" /\ m.ctx[i].type = "service" -> SetUp(m, i)
    [] OTHER -> m

S6aRefused(m, i) ==
  LET n == Down(m, i, [t |-> "AttachReject"])
  IN  IF m.ctx[i].enb THEN Release(n, "UE_CONTEXT_REMOVE") ELSE n

S6aMessage(m, a) ==
  CASE ~a.ok -> S6aRefused(m, a.ctx)
    [] a.ok /\ a.t = "AIA" -> mme_s6a_handle_aia(m, a.ctx, a.av)
    [] OTHER -> UlaReceived(m, a.ctx)

\* esm_handle_pdn_connectivity_request: without a valid security context the
\* session is removed.
PdnConnectivity(m) ==
  LET i == Head(m.esm)
      n == [m EXCEPT !.esm = Tail(@)]
  IN  IF Valid(m.ctx[i])
      THEN [n EXCEPT !.ctx[i].sess = IF @ = "none" THEN "asked" ELSE @,
                     !.s11 = Append(@, [t |-> "create", ctx |-> i])]
      ELSE [n EXCEPT !.ctx[i].sess = "none"]

CreateSessionResponse(m, i) ==
  LET n == [m EXCEPT !.ctx[i].sess = "up", !.ctx[i].s11 = TRUE]
  IN  CASE m.ctx[i].sess = "none" -> m
        [] m.ctx[i].emm = "initial_context_setup" ->
             Protected(n, i, [t |-> "AttachAccept", kenb |-> n.ctx[i].kenb])
        [] m.ctx[i].emm = "registered" -> Protected(n, i, [t |-> "ActivateDefault"])
        [] OTHER -> n

\* mme_s11_handle_delete_session_response, for the last session.
DeleteSessionResponse(m, i) ==
  LET a == m.ctx[i].emm
      n == CASE a = "authentication" -> mme_s6a_send_air(m, i, NoVector)
             [] a = "de_registered" -> nas_send_detach_accept(m, i)
             [] a \in {"initial_context_setup", "exception"} /\ m.ctx[i].enb ->
                  Release(m, "UE_CONTEXT_REMOVE")
             [] OTHER -> m
  IN  [n EXCEPT !.ctx[i].sess = "none", !.ctx[i].s11 = FALSE]

S11Message(m) ==
  LET a == Head(m.s11)
      n == [m EXCEPT !.s11 = Tail(@)]
  IN  IF a.t = "create" THEN CreateSessionResponse(n, a.ctx)
      ELSE DeleteSessionResponse(n, a.ctx)
=============================================================================
