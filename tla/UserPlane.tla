----------------------------- MODULE UserPlane -----------------------------
(***************************************************************************)
(* The downlink of one subscriber: the MME's UE contexts and the eNBs of   *)
(* S1System with the SGW's half of S11 and its user plane in place of the  *)
(* SGW that only answers.                                                  *)
(*                                                                         *)
(* The SPGW has one thread.  It handles S11 messages, downlink packets     *)
(* from the TUN device (each at once) and the events it sends to itself    *)
(* when a packet finds the UE idle.  The sgw_ue of a subscriber is never   *)
(* removed, so its two state bits outlive its sessions; the bearer, its    *)
(* S1-U tunnel, its forwarding tunnels and its buffer go with the session. *)
(* A path stands for an eNB and a TEID.  Buffered packets are counted, not *)
(* told apart.  The exchange with the PGW and the PCRF within Create and   *)
(* Delete Session Request is GxSystem's matter and one step here.          *)
(***************************************************************************)
EXTENDS S1System

CONSTANTS MAX_NUM_BUFFER_PKT,   \* packets a bearer buffers
          MaxPackets            \* bound: downlink packets in a behaviour

ASSUME OneSubscriber == Cardinality(UE) = 1

VARIABLES sgw,    \* the sgw_ue, its bearer, and what the SGW has sent
          ear,    \* where the UE is, and whether it has heard a Paging
          pkts,   \* downlink packets so far
          mark    \* which races have happened, for the properties

userVars == <<sgw, ear, pkts, mark>>

x0 == CHOOSE u \in UE : TRUE

NoBearer == [sess |-> FALSE, remote_teid |-> NoPath, fwd |-> <<>>, kept |-> 0]

-----------------------------------------------------------------------------
(* The SGW's handlers: from its state to its next state *)

\* The message the handler sends on its way out
Respond(s, t) == [s EXCEPT !.out = <<[type |-> t, ue |-> s.mme_s11_teid]>>]

\* A session that exists is used again.  The response is sent when the PGW has
\* answered.
sgw_s11_handle_create_session_request(s, d) ==
  Respond([s EXCEPT !.mme_s11_teid = d.ue,
                    !.bearer = IF @.sess THEN @ ELSE [NoBearer EXCEPT !.sess = TRUE]],
          "CreateSession")

\* Without the bearer there is no answer.
sgw_s11_handle_modify_bearer_request(s, d) ==
  IF ~s.bearer.sess THEN s
  ELSE Respond([s EXCEPT !.bearer.remote_teid = d.path, !.inactive = FALSE],
               "ModifyBearer")

\* Mutant: the TEID is kept.
sgw_release_access_bearersKeep(s, d) ==
  Respond([s EXCEPT !.inactive = TRUE, !.noti_sent = FALSE], "ReleaseAccess")

sgw_s11_handle_release_access_bearers_request(s, d) ==
  Respond([s EXCEPT !.inactive = TRUE, !.noti_sent = FALSE,
                    !.bearer.remote_teid = NoPath], "ReleaseAccess")

\* spgw_sess_remove, when the PGW has answered: the bearer, its tunnels and its
\* buffer go; the state bits of the sgw_ue stay.
sgw_s11_handle_delete_session_request(s, d) ==
  IF ~s.bearer.sess THEN s
  ELSE Respond([s EXCEPT !.bearer = NoBearer], "DeleteSession")

\* A forwarding tunnel is appended to the bearer's list.
sgw_s11_handle_create_indirect_tunnel_request(s, d) ==
  IF ~s.bearer.sess THEN s
  ELSE Respond([s EXCEPT !.bearer.fwd = Append(@, d.path)], "CreateTunnel")

\* Mutant: the tunnels stay in the list.
sgw_delete_indirect_tunnelNot(s, d) == Respond(s, "DeleteTunnel")

sgw_s11_handle_delete_indirect_tunnel_request(s, d) ==
  Respond([s EXCEPT !.bearer.fwd = <<>>], "DeleteTunnel")

\* SPGW_EVT_LO_DLDATA_NOTI: bearer memory stays readable when freed, so a
\* bearer that is gone by then is reported as well.
sgw_s11_handle_lo_dldata_notification(s) ==
  Respond(s, "DDN")

\* The events of spgw_state_operational that concern the user plane
spgw_state_operational(s, d) ==
  CASE d.type = "CreateSession" -> sgw_s11_handle_create_session_request(s, d)
    [] d.type = "ModifyBearer" -> sgw_s11_handle_modify_bearer_request(s, d)
    [] d.type = "DeleteSession" -> sgw_s11_handle_delete_session_request(s, d)
    [] d.type = "ReleaseAccess" -> sgw_s11_handle_release_access_bearers_request(s, d)
    [] d.type = "CreateTunnel" -> sgw_s11_handle_create_indirect_tunnel_request(s, d)
    [] d.type = "DeleteTunnel" -> sgw_s11_handle_delete_indirect_tunnel_request(s, d)
    [] d.type = "LO" -> sgw_s11_handle_lo_dldata_notification(s)

\* A packet goes to the eNB, after the ones kept; or, to an idle UE, is kept
\* while there is room, the first one with a notification; or is dropped.
pgw_gtp_send_to_bearer(s) ==
  IF s.bearer.remote_teid # NoPath THEN [s EXCEPT !.bearer.kept = 0]
  ELSE IF ~s.inactive THEN s
  ELSE [s EXCEPT !.noti_sent = TRUE,
                 !.bearer.kept = IF @ < MAX_NUM_BUFFER_PKT THEN @ + 1 ELSE @]

\* ... which is an event the SPGW sends to itself.
Notifies(s) == s.bearer.remote_teid = NoPath /\ s.inactive /\ ~s.noti_sent

-----------------------------------------------------------------------------
(* The MME's part: Downlink Data Notification and Paging *)

\* Mutant: only a UE without a connection is paged.
s1ap_handle_pagingIdle(m, u) ==
  LET page == [type |-> "Paging", eid |-> INVALID, mid |-> NULL, ue |-> m.ue[u].imsi]
  IN  IF m.ue[u].enb_ue # NULL THEN m
      ELSE [m EXCEPT !.down = [e \in ENB |-> Append(@[e], page)]]

\* The eNBs serve one tracking area, the UE's.  A connection that is being
\* released is as good as none.
s1ap_handle_paging(m, u) ==
  LET c == m.ue[u].enb_ue
      page == [type |-> "Paging", eid |-> INVALID, mid |-> NULL, ue |-> m.ue[u].imsi]
  IN  IF c # NULL /\ c \notin m.live THEN Stale(m)
      ELSE IF c = NULL \/ m.ctx[c].ue_ctx_rel_action = "S1_NORMAL_RELEASE"
      THEN [m EXCEPT !.down = [e \in ENB |-> IF e \in m.enbs THEN Append(@[e], page)
                                             ELSE @[e]]]
      ELSE m

\* The notification is acknowledged and the UE is paged; T3413 is not started.
DownlinkDataNotification ==
  Take("DDN", S11(s1ap_handle_paging(mme, event.ue)))

-----------------------------------------------------------------------------
(* The system *)

\* mme.s11 holds the requests on their way to the SPGW and its event queue.
SpgwMain ==
  /\ mme.s11 # <<>> /\ Room
  /\ LET s == spgw_state_operational(sgw, Head(mme.s11))
     IN  /\ sgw' = [s EXCEPT !.out = <<>>]
         /\ queue' = queue \o s.out
  /\ Done(1)
  /\ UNCHANGED <<ran, ear, pkts, mark>>

\* _gtpv1_tun_recv_cb: a packet for the address of a session.  Its event comes
\* behind the k requests that the SPGW has received by then.
Downlink ==
  /\ pkts < MaxPackets /\ sgw.bearer.sess
  /\ pkts' = pkts + 1
  /\ sgw' = pgw_gtp_send_to_bearer(sgw)
  /\ IF Notifies(sgw)
     THEN \E k \in 0..Len(mme.s11) :
            /\ \A i \in k + 1..Len(mme.s11) : mme.s11[i].type # "LO"
            /\ mme' = [mme EXCEPT !.s11 = InsertAt(@, k + 1, [type |-> "LO"])]
     ELSE UNCHANGED mme
  /\ UNCHANGED <<queue, ran, ear, mark>>

\* A UE hears a Paging in its cell while it has no connection.
Page(e) ==
  /\ Receive(e, {"Paging"})
  /\ ear' = [ear EXCEPT !.paged = @ \/ (ear.cell = e /\ camp[x0] = NoLink)]
  /\ UNCHANGED <<queue, ran, sgw, pkts, mark>>

\* An S11 exchange of type t is not over.
Outstanding(t) ==
  \E s \in {mme.s11, queue} : \E i \in DOMAIN s : s[i].type = t

\* What the MME is about to do crosses an S11 exchange of its own: a connection
\* is made while the last one is being released at the SGW, a handover is
\* prepared while the last one's tunnel is being deleted.
Races ==
  {r \in {[event |-> "InitialUEMessage", crosses |-> "ReleaseAccess"],
          [event |-> "EMM", crosses |-> "ReleaseAccess"],
          [event |-> "HandoverRequestAck", crosses |-> "DeleteTunnel"]} :
     queue # <<>> /\ event.type = r.event /\ Outstanding(r.crosses)}

\* A step of S1System; the UE answers a Paging by connecting.
RanStep(A) ==
  /\ A
  /\ ear' = IF camp'[x0] \in {camp[x0], NoLink} THEN ear
            ELSE [cell |-> camp'[x0].enb, paged |-> FALSE]
  /\ UNCHANGED <<sgw, pkts>>

MmeActs ==
  /\ RanStep(MmeStep \/ DownlinkDataNotification)
  /\ mark' = mark \cup {r.crosses : r \in Races}

Elsewhere(A) == RanStep(A) /\ UNCHANGED mark

UserInit ==
  /\ Init
  /\ sgw = [mme_s11_teid |-> NULL, inactive |-> FALSE, noti_sent |-> FALSE,
            bearer |-> NoBearer, out |-> <<>>]
  /\ ear = [cell |-> NoEnb, paged |-> FALSE]
  /\ pkts = 0 /\ mark = {}

UserNext ==
  \/ MmeActs
  \/ \E e \in ENB : Elsewhere(EnbStep(e)) \/ Page(e)
  \/ \E u \in UE : Elsewhere(\/ \E e \in ENB, nas \in {"attach", "service"} : Connect(u, e, nas)
                           \/ Detach(u) \/ Arrive(u))
  \/ \E l \in link : Elsewhere(\/ AskRelease(l) \/ AskCancel(l)
                             \/ \E e \in ENB : AskHandover(l, e) \/ AskPathSwitch(l, e))
  \/ \E c \in Context : Elsewhere(DelayTimer(c))
  \/ SpgwMain \/ Downlink

UserSpec == UserInit /\ [][UserNext]_<<vars, userVars>>

-----------------------------------------------------------------------------
(* Properties *)

\* What the variables hold; a part of PathFollowsUe.
UserTypeOK ==
  /\ TypeOK
  /\ sgw \in [mme_s11_teid : UeContexts \cup {NULL}, inactive : BOOLEAN,
              noti_sent : BOOLEAN, out : {<<>>},
              bearer : [sess : BOOLEAN, remote_teid : Paths,
                        fwd : BoundedSeq(Paths, MaxContexts),
                        kept : 0..MAX_NUM_BUFFER_PKT]]
  /\ ear \in [cell : ENB \cup {NoEnb}, paged : BOOLEAN]

\* When nothing is on its way any more, the SGW sends the downlink of a
\* registered UE to the eNB and TEID of the connection the UE uses, and keeps it
\* for an idle one: Modify Bearer and Release Access Bearers Requests leave the
\* SGW with what the S1 side has come to.  Not so after a connection was made
\* while Release Access Bearers was under way for the last one: its response
\* releases the new connection, and a Modify Bearer Request of the new one leaves
\* the SGW with the path of a UE that is idle.
PathFollowsUe ==
  UserTypeOK /\ (AtRest /\ x0 \in reg /\ "ReleaseAccess" \notin mark =>
    IF camp[x0] = NoLink
    THEN sgw.inactive /\ sgw.bearer.remote_teid = NoPath
    ELSE ~sgw.inactive /\ sgw.bearer.remote_teid = camp[x0])

\* SGW_DL_NOTI_SENT keeps the SGW from notifying the MME again, and T3413 is not
\* started, so the one notification has to do: where the bit is set and the UE
\* is idle and nothing is on its way, data are waiting and the UE has heard a
\* Paging, also when the notification came while its connection was being made
\* or released.
NotifiedMeansPaged ==
  AtRest /\ x0 \in reg /\ camp[x0] = NoLink /\ "ReleaseAccess" \notin mark
    /\ sgw.noti_sent => ear.paged /\ sgw.bearer.kept > 0

\* sgw_gtp forwards on the first forwarding tunnel of the bearer: when the UE has
\* been told to hand over, that is the only one, and leads to the target.  Not so
\* once a handover was prepared while the tunnel of the last one was being
\* deleted: s1ap_handle_handover_request_ack then takes the old TEID for the new
\* target's.
ForwardsToTarget ==
  "DeleteTunnel" \notin mark => \A t \in link :
    t.st = "prepared" /\ (\E s \in Current(t.ue) : s.st = "commanded")
    /\ sgw.bearer.fwd # <<>> => sgw.bearer.fwd = <<[enb |-> t.enb, eid |-> t.eid]>>

\* No forwarding tunnel outlives its handover, be it completed or cancelled.
ForwardingEnds ==
  AtRest /\ "DeleteTunnel" \notin mark /\ sgw.bearer.fwd # <<>>
    => \E l \in link : l.st = "commanded"

=============================================================================
