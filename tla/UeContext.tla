----------------------------- MODULE UeContext -----------------------------
(***************************************************************************)
(* The UE contexts of the MME: the S1 context (enb_ue_t, one per S1        *)
(* connection of an eNB), the NAS context (mme_ue_t, one per UE) and the   *)
(* pointers between them, as the handlers of S1AP, NAS, S11 and timer      *)
(* events create, relink and remove them.  Events reach the single state   *)
(* machine thread through one FIFO, `queue'; an uplink NAS message is      *)
(* taken out of its S1AP message and put at the end of that FIFO, with the *)
(* pool index of the S1 context it came by.                                *)
(*                                                                         *)
(* A context is named by a number that is never used twice (for an S1      *)
(* context its MME-UE-S1AP-ID), so that a pointer or an index kept beyond  *)
(* the removal of its context is told apart from one to a new context in   *)
(* the same pool slot.  `stale' becomes TRUE when a handler follows such a *)
(* pointer; what the code does from there depends on what the slot holds   *)
(* by then, so the MME takes no further step.                              *)
(*                                                                         *)
(* The eNBs and the UEs are the environment: they follow S1AP, answer what *)
(* the MME sends and ask for what `peer' lets them ask.  A UE          *)
(* has one session with one bearer; authentication, security mode, update  *)
(* location and session creation are one exchange, "CreateSession".        *)
(***************************************************************************)
EXTENDS Naturals, Sequences, FiniteSets, SequencesExt

CONSTANTS ENB,          \* the eNBs
          UE,           \* the subscribers (an IMSI and its GUTI)
          NoEnb, NoUe,  \* no eNB, no subscriber
          EnbIds,       \* the eNB-UE-S1AP-IDs an eNB hands out
          PoolSize,     \* size of enb_ue_pool
          MaxContexts,  \* bound: S1 contexts created in a behaviour
          MaxQueue,     \* bound: events the eNBs and the SGW put in the queue
          Peers         \* choices of what the eNBs, the UEs and the SGW may do

ASSUME NoEnbAssumption == NoEnb \notin ENB
ASSUME NoUeAssumption == NoUe \notin UE

VARIABLES mme,          \* the MME: contexts, what it sent, its timers
          queue,        \* events on their way to mme_state_operational
          link,         \* the eNBs' side of the S1 connections
          camp,         \* camp[u]: the connection UE u uses, if any
          up,           \* the eNBs whose association is up
          reg,          \* the UEs that believe they are registered
          peer          \* what the peers may do, chosen once

ran == <<link, camp, up, reg, peer>>
vars == <<mme, queue, ran>>

NULL == 0
INVALID == 0    \* INVALID_UE_S1AP_ID

Context == 1..MaxContexts
UeContexts == 1..MaxContexts

Action == {"INVALID_ACTION", "NO_ACTION", "S1_NORMAL_RELEASE",
           "UE_CONTEXT_REMOVE", "DELETE_INDIRECT_TUNNEL"}

EmmState == {"de_registered", "authentication", "initial_context_setup",
             "registered", "exception"}

Counter == [request : Nat, response : Nat]

Zero == [request |-> 0, response |-> 0]

\* A path of the user plane: the eNB and the TEID it gave, which is its own
\* identity for the UE; NoPath for a TEID of zero.
Path(e, eid) == [enb |-> e, eid |-> eid]
NoPath == Path(NoEnb, INVALID)

NoContext ==
  [enb |-> NoEnb, enb_ue_s1ap_id |-> INVALID, mme_ue |-> NULL,
   source_ue |-> NULL, target_ue |-> NULL,
   ue_ctx_rel_action |-> "INVALID_ACTION"]

NoUeContext ==
  [imsi |-> NoUe, emm |-> "de_registered", enb_ue |-> NULL, sess |-> FALSE,
   active |-> FALSE, sgw_s11_teid |-> FALSE, enb_s1u |-> NoPath, tunnel |-> NoPath,
   path_switch |-> Zero, handover |-> Zero]

-----------------------------------------------------------------------------
(* Contexts and their pools *)

Stale(m) == [m EXCEPT !.stale = TRUE]

\* Post(m, e) queues an event for the MME itself (mme_event_send).
Post(m, e) == [m EXCEPT !.post = Append(@, e)]

\* Send(m, e, d) hands message d to the SCTP association of eNB e.
Send(m, e, d) == [m EXCEPT !.down[e] = Append(@, d)]

\* Mutant: the forwarding request carries the path of the bearer.
GtpOwnPath(m, t, u) ==
  [m EXCEPT !.s11 = Append(@, [type |-> t, ue |-> u, path |-> m.ue[u].enb_s1u])]

\* Gtp(m, t, u) starts an S11 transaction of type t for NAS context u, with the
\* path its bearer has or the one its data are to be forwarded on.
Gtp(m, t, u) ==
  [m EXCEPT !.s11 = Append(@, [type |-> t, ue |-> u,
     path |-> IF t = "CreateTunnel" THEN m.ue[u].tunnel
              ELSE IF t = "ModifyBearer" THEN m.ue[u].enb_s1u ELSE NoPath])]

\* Mutant: the id is not compared.
enb_ue_find_first(m, e, eid) ==
  IF m.list[e] = <<>> THEN NULL ELSE Head(m.list[e])

enb_ue_find_by_enb_ue_s1ap_id(m, e, eid) ==
  LET match == SelectSeq(m.list[e],
                         LAMBDA c : m.ctx[c].enb_ue_s1ap_id = eid)
  IN  IF match = <<>> THEN NULL ELSE Head(match)

\* Mutant: the context was never entered in the hash.
mme_ue_findNone(m, u) == NULL

\* mme_ue_find_by_imsi and mme_ue_find_by_guti
mme_ue_find(m, u) ==
  LET match == {x \in m.ues : m.ue[x].imsi = u}
  IN  IF match = {} THEN NULL ELSE CHOOSE x \in match : TRUE

\* enb_ue_add returns NULL when the pool is empty.
CanAdd(m) == Cardinality(m.live) < PoolSize

New(m) == m.made + 1

enb_ue_add(m, e) ==
  [m EXCEPT !.made = @ + 1,
            !.live = @ \cup {New(m)},
            !.ctx[New(m)] = [NoContext EXCEPT !.enb = e],
            !.list[e] = Append(@, New(m))]

mme_ue_associate_enb_ue(m, u, c) ==
  [m EXCEPT !.ue[u].enb_ue = c, !.ctx[c].mme_ue = u]

\* Mutant: forgotten.
mme_ue_deassociateNot(m, u) == m

mme_ue_deassociate(m, u) == [m EXCEPT !.ue[u].enb_ue = NULL]

\* c, its target_ue, the target_ue of that, ...: what enb_ue_remove removes
Targets(m, c) ==
  FoldLeft(LAMBDA s, i : IF m.ctx[Last(s)].target_ue = NULL THEN s
                         ELSE Append(s, m.ctx[Last(s)].target_ue),
           <<c>>, [i \in 1..MaxContexts |-> i])

\* Mutant: the contexts stay in their lists.
enb_ue_removeListed(m, c) ==
  LET gone == Range(Targets(m, c))
  IN  [m EXCEPT !.live = @ \ gone,
                !.ctx = [x \in Context |-> IF x \in gone THEN NoContext ELSE @[x]]]

\* The context leaves its eNB's list and mme_ue_s1ap_id_hash, a handover
\* target goes with it; `asserted' notes that d_assert(source_ue == NULL)
\* failed on the way.  mme_ue->enb_ue keeps its value.
enb_ue_remove(m, c) ==
  LET gone == Range(Targets(m, c))
  IN  IF ~(gone \subseteq m.live) \/ Cardinality(gone) # Len(Targets(m, c))
      THEN Stale(m)
      ELSE [m EXCEPT
              !.live = @ \ gone,
              !.ctx = [x \in Context |-> IF x \in gone THEN NoContext ELSE @[x]],
              !.list = [e \in ENB |-> SelectSeq(@[e], LAMBDA x : x \notin gone)],
              !.asserted = @ \/ \E x \in gone : m.ctx[x].source_ue # NULL]

\* The loop fetches the next context before it removes the present one.
enb_ue_remove_in_enb(m, e) ==
  LET after(s, c) == LET i == IndexFirstSubSeq(<<c>>, s)
                     IN  IF i < Len(s) THEN s[i + 1] ELSE NULL
      step(w, i) == IF w.cur = NULL \/ w.m.stale THEN w
                    ELSE [m |-> enb_ue_remove(w.m, w.cur),
                          cur |-> after(w.m.list[e], w.cur)]
      first == [m |-> m, cur |-> IF m.list[e] = <<>> THEN NULL
                                 ELSE Head(m.list[e])]
  IN  FoldLeft(step, first, [i \in 1..MaxContexts |-> i]).m

source_ue_associate_target_ue(m, s, t) ==
  [m EXCEPT !.ctx[t].mme_ue = m.ctx[s].mme_ue,
            !.ctx[t].source_ue = s,
            !.ctx[s].target_ue = t]

\* Mutants: the pair is left as it is, or one of its pointers is.
source_ue_deassociateNot(m, c) == m
source_ue_deassociateHalf(m, c) ==
  IF m.ctx[c].target_ue # NULL THEN [m EXCEPT !.ctx[c].target_ue = NULL]
  ELSE [m EXCEPT !.ctx[c].source_ue = NULL]

source_ue_deassociate_target_ue(m, c) ==
  LET s == IF m.ctx[c].target_ue # NULL THEN c ELSE m.ctx[c].source_ue
      t == IF m.ctx[c].target_ue # NULL THEN m.ctx[c].target_ue ELSE c
  IN  CASE s = NULL -> m
        [] s # NULL /\ ~({s, t} \subseteq m.live) -> Stale(m)
        [] s # NULL /\ {s, t} \subseteq m.live ->
             IF m.ctx[s].target_ue = NULL \/ m.ctx[t].source_ue = NULL
             THEN m
             ELSE [m EXCEPT !.ctx[s].target_ue = NULL,
                            !.ctx[t].source_ue = NULL]

\* mme_sess_remove: the bearer goes with its session.
mme_sess_remove(m, u) ==
  [m EXCEPT !.ue[u].sess = FALSE, !.ue[u].active = FALSE,
            !.ue[u].enb_s1u = NoPath, !.ue[u].tunnel = NoPath]

mme_ue_add(m, u) ==
  [m EXCEPT !.umade = @ + 1, !.ues = @ \cup {m.umade + 1},
            !.ue[m.umade + 1] = [NoUeContext EXCEPT !.imsi = u]]

\* mme_sess_remove_all included; enb_ue->mme_ue keeps its value.
mme_ue_remove(m, u) ==
  [m EXCEPT !.ues = @ \ {u}, !.ue[u] = NoUeContext]

-----------------------------------------------------------------------------
(* What the MME sends *)

\* s1ap_send_to_enb_ue sends nothing for a context without a NAS context.
s1ap_send_to_enb_ue(m, c, type) ==
  IF c \notin m.live THEN Stale(m)
  ELSE IF m.ctx[c].mme_ue = NULL THEN m
  ELSE IF m.ctx[c].mme_ue \notin m.ues THEN Stale(m)
  ELSE Send(m, m.ctx[c].enb,
            [type |-> type, eid |-> m.ctx[c].enb_ue_s1ap_id, mid |-> c,
             ue |-> m.ue[m.ctx[c].mme_ue].imsi])

nas_send_to_enb(m, u, type) ==
  IF m.ue[u].enb_ue = NULL THEN m
  ELSE s1ap_send_to_enb_ue(m, m.ue[u].enb_ue, type)

\* With a delay a timer is started that carries the context's pool index.
s1ap_send_ue_context_release_command(m, c, action, delay) ==
  IF c \notin m.live THEN Stale(m)
  ELSE LET n == [m EXCEPT !.ctx[c].ue_ctx_rel_action = action]
       IN  IF delay THEN [n EXCEPT !.delayed = @ \cup {c}]
           ELSE s1ap_send_to_enb_ue(n, c, "Release")

\* Every session with an SGW path gets a request; sgw_s11_teid is cleared.
mme_gtp_send_delete_all_sessions(m, u) ==
  LET n == [m EXCEPT !.ue[u].sgw_s11_teid = FALSE]
  IN  IF m.ue[u].sess THEN Gtp(n, "DeleteSession", u) ELSE n

mme_send_delete_session_or_ue_context_release(m, u, c) ==
  IF u # NULL /\ m.ue[u].sgw_s11_teid
  THEN mme_gtp_send_delete_all_sessions(m, u)
  ELSE s1ap_send_ue_context_release_command(m, c, "UE_CONTEXT_REMOVE", FALSE)

mme_send_release_access_bearer_or_ue_context_release(m, u, c) ==
  IF m.ue[u].enb_s1u # NoPath
  THEN Gtp(m, "ReleaseAccess", u)
  ELSE s1ap_send_ue_context_release_command(m, c, "S1_NORMAL_RELEASE", FALSE)

nas_send_detach_accept(m, u) ==
  IF m.ue[u].enb_ue = NULL THEN m
  ELSE s1ap_send_ue_context_release_command(m, m.ue[u].enb_ue,
                                            "S1_NORMAL_RELEASE", FALSE)

mme_send_delete_session_or_detach(m, u) ==
  IF m.ue[u].sgw_s11_teid
  THEN mme_gtp_send_delete_all_sessions(m, u)
  ELSE nas_send_detach_accept(m, u)

-----------------------------------------------------------------------------
(* The handlers: from the MME's state and an event to its next state *)

\* S-TMSI present and known: the older S1 context is released implicitly.
s1ap_handle_initial_ue_message(m, e) ==
  LET old == enb_ue_find_by_enb_ue_s1ap_id(m, e.enb, e.eid)
      c == IF old # NULL THEN old ELSE New(m)
      m1 == [enb_ue_add(m, e.enb) EXCEPT !.ctx[c].enb_ue_s1ap_id = e.eid]
      u == IF e.stmsi THEN mme_ue_find(m, e.ue) ELSE NULL
      m2 == IF u # NULL /\ m1.ue[u].enb_ue # NULL
            THEN enb_ue_remove(m1, m1.ue[u].enb_ue) ELSE m1
      m3 == IF u # NULL THEN mme_ue_associate_enb_ue(m2, u, c) ELSE m2
      nas == [type |-> "EMM", ctx |-> c, nas |-> e.nas, ue |-> e.ue]
  IN  IF old # NULL THEN Post(m, nas)
      ELSE IF ~CanAdd(m) THEN m
      ELSE Post(m3, nas)

s1ap_handle_uplink_nas_transport(m, e) ==
  LET c == enb_ue_find_by_enb_ue_s1ap_id(m, e.enb, e.eid)
  IN  IF c = NULL THEN m
      ELSE Post(m, [type |-> "EMM", ctx |-> c, nas |-> e.nas, ue |-> e.ue])


emm_detach(m, u) ==
  [mme_send_delete_session_or_detach(m, u) EXCEPT !.ue[u].emm = "de_registered"]

Enter(m, u, state) == [m EXCEPT !.ue[u].emm = state]

\* The states of EMM on a NAS message for NAS context u.  A UE attaches without
\* a valid key set, and is authenticated before its session is created.
common_register_state(m, u, nas) ==
  LET enb_ue == m.ue[u].enb_ue
  IN  CASE enb_ue = NULL -> m
        [] enb_ue # NULL /\ nas = "service" ->
             IF m.ue[u].imsi = NoUe THEN Enter(m, u, "exception")
             ELSE nas_send_to_enb(m, u, "InitialContextSetup")
        [] enb_ue # NULL /\ nas = "attach" ->
             IF enb_ue \notin m.live THEN Stale(m)
             ELSE Enter(IF m.ue[u].sgw_s11_teid
                        THEN mme_gtp_send_delete_all_sessions(m, u)
                        ELSE Gtp(m, "CreateSession", u), u, "authentication")
        [] enb_ue # NULL /\ nas = "detach" -> emm_detach(m, u)
        [] OTHER -> m

\* emm_handle_attach_request fails without an S1 context.
emm_state_authentication(m, u, nas) ==
  CASE nas = "attach" ->
         IF m.ue[u].enb_ue = NULL THEN Enter(m, u, "exception")
         ELSE IF m.ue[u].enb_ue \notin m.live THEN Stale(m)
         ELSE Gtp(m, "CreateSession", u)
    [] nas = "detach" -> emm_detach(m, u)
    [] OTHER -> m

\* The bearer context accept within Attach Complete is queued for ESM.
emm_state_initial_context_setup(m, u, nas) ==
  LET enb_ue == m.ue[u].enb_ue
  IN  CASE nas = "attach" ->
             IF enb_ue = NULL THEN Enter(m, u, "exception")
             ELSE IF enb_ue \notin m.live THEN Stale(m)
             ELSE Enter(mme_gtp_send_delete_all_sessions(m, u), u, "authentication")
        [] nas = "attach_complete" ->
             IF enb_ue # NULL /\ enb_ue \notin m.live THEN Stale(m)
             ELSE Enter(Post(m, [type |-> "ESM", ue |-> u]), u, "registered")
        [] nas = "detach" -> emm_detach(m, u)
        [] OTHER -> m

emm_dispatch(m, u, nas) ==
  CASE m.ue[u].emm \in {"de_registered", "registered"} ->
         common_register_state(m, u, nas)
    [] m.ue[u].emm = "authentication" -> emm_state_authentication(m, u, nas)
    [] m.ue[u].emm = "initial_context_setup" ->
         emm_state_initial_context_setup(m, u, nas)
    [] m.ue[u].emm = "exception" -> m

\* MME_EVT_EMM_MESSAGE: the index in the event names the S1 context; a
\* message of a UE not yet associated is matched to a NAS context by its
\* identity (attach only), or gets a new one.
mme_emm_message(m, e) ==
  LET c == e.ctx
      own == m.ctx[c].mme_ue
      known == IF e.nas = "attach" THEN mme_ue_find(m, e.ue) ELSE NULL
      u == IF own # NULL THEN own
           ELSE IF known # NULL THEN known ELSE m.umade + 1
      m1 == IF own = NULL /\ known = NULL
            THEN mme_ue_add(m, IF e.nas = "attach" THEN e.ue ELSE NoUe) ELSE m
      m2 == IF own = NULL /\ m1.ue[u].enb_ue # NULL
            THEN enb_ue_remove(m1, m1.ue[u].enb_ue) ELSE m1
      m3 == IF own = NULL THEN mme_ue_associate_enb_ue(m2, u, c) ELSE m2
      m4 == emm_dispatch(m3, u, e.nas)
  IN  IF c \notin m.live \/ (own # NULL /\ own \notin m.ues) THEN Stale(m)
      ELSE IF m2.stale THEN m2
      ELSE IF m4.ue[u].emm = "exception"
           THEN mme_send_delete_session_or_ue_context_release(m4, u, c)
      ELSE m4

\* MME_EVT_ESM_MESSAGE with the accept: the bearer leaves esm_state_inactive.
mme_esm_message(m, u) ==
  LET n == [m EXCEPT !.ue[u].active = TRUE]
  IN  IF ~m.ue[u].sess \/ m.ue[u].active THEN m
      ELSE IF m.ue[u].enb_s1u # NoPath THEN Gtp(n, "ModifyBearer", u) ELSE n

s1ap_handle_initial_context_setup_response(m, e) ==
  LET c == enb_ue_find_by_enb_ue_s1ap_id(m, e.enb, e.eid)
      u == m.ctx[c].mme_ue
      n == [m EXCEPT !.ue[u].enb_s1u = Path(e.enb, e.eid)]
  IN  IF c = NULL THEN m ELSE IF u = NULL THEN m
      ELSE IF u \notin m.ues THEN Stale(m)
      ELSE IF ~m.ue[u].sess THEN m
      ELSE IF m.ue[u].active THEN Gtp(n, "ModifyBearer", u) ELSE n

s1ap_handle_initial_context_setup_failure(m, e) ==
  LET c == enb_ue_find_by_enb_ue_s1ap_id(m, e.enb, e.eid)
      u == m.ctx[c].mme_ue
  IN  IF c = NULL THEN m
      ELSE IF u # NULL /\ u \notin m.ues THEN Stale(m)
      ELSE IF u # NULL /\ m.ue[u].emm = "registered" THEN m
      ELSE mme_send_delete_session_or_ue_context_release(m, u, c)

s1ap_handle_ue_context_release_request(m, e) ==
  LET c == e.mid
      u == m.ctx[c].mme_ue
  IN  IF c \notin m.live
      THEN Send(m, e.enb, [type |-> "Error", eid |-> e.eid, mid |-> e.mid])
      ELSE IF u = NULL
      THEN s1ap_send_ue_context_release_command(m, c, "NO_ACTION", FALSE)
      ELSE IF u \notin m.ues THEN Stale(m)
      ELSE IF m.ue[u].emm = "registered"
      THEN mme_send_release_access_bearer_or_ue_context_release(m, u, c)
      ELSE mme_send_delete_session_or_ue_context_release(m, u, c)

\* Mutant: a normal release leaves the S1 context.
s1ap_handle_release_completeKeep(m, e) ==
  LET u == m.ctx[e.mid].mme_ue
  IN  IF e.mid \notin m.live THEN m
      ELSE IF m.ctx[e.mid].ue_ctx_rel_action = "S1_NORMAL_RELEASE" /\ u # NULL
      THEN mme_ue_deassociate(m, u) ELSE enb_ue_remove(m, e.mid)

s1ap_handle_ue_context_release_complete(m, e) ==
  LET c == e.mid
      u == m.ctx[c].mme_ue
      action == m.ctx[c].ue_ctx_rel_action
      gone == enb_ue_remove(m, c)
      split == enb_ue_remove(source_ue_deassociate_target_ue(m, c), c)
  IN  IF c \notin m.live
      THEN Send(m, e.enb, [type |-> "Error", eid |-> INVALID, mid |-> e.mid])
      ELSE IF action = "NO_ACTION" THEN gone
      ELSE IF u # NULL /\ u \notin m.ues THEN Stale(m)
      ELSE CASE action = "S1_NORMAL_RELEASE" ->
                  IF u = NULL THEN gone ELSE mme_ue_deassociate(gone, u)
             [] action = "UE_CONTEXT_REMOVE" ->
                  IF u = NULL THEN gone ELSE mme_ue_remove(gone, u)
             [] action = "DELETE_INDIRECT_TUNNEL" ->
                  IF u # NULL /\ m.ue[u].tunnel # NoPath THEN Gtp(split, "DeleteTunnel", u)
                  ELSE split
             [] OTHER -> m

-----------------------------------------------------------------------------
(* Handover and path switch *)

\* The source of the new pair is mme_ue->enb_ue, not the context found.
s1ap_handle_handover_required(m, e) ==
  LET c == enb_ue_find_by_enb_ue_s1ap_id(m, e.enb, e.eid)
      u == m.ctx[c].mme_ue
      source == m.ue[u].enb_ue
      target == New(m)
      pair == source_ue_associate_target_ue(enb_ue_add(m, e.target),
                                            source, target)
  IN  IF e.target \notin m.enbs \/ c # e.mid THEN m
      ELSE IF u = NULL THEN m
      ELSE IF u \notin m.ues THEN Stale(m)
      ELSE IF source = NULL THEN m
      ELSE IF source \notin m.live THEN Stale(m)
      ELSE IF m.ctx[source].target_ue # NULL \/ ~CanAdd(m) THEN m
      ELSE s1ap_send_to_enb_ue(pair, target, "HandoverRequest")

s1ap_handle_handover_request_ack(m, e) ==
  LET target == e.mid
      source == m.ctx[target].source_ue
      u == m.ctx[source].mme_ue
      m1 == [m EXCEPT !.ctx[target].enb_ue_s1ap_id = e.eid]
      m2 == IF e.tunnel THEN [m1 EXCEPT !.ue[u].tunnel = Path(e.enb, e.eid)] ELSE m1
  IN  IF target \notin m.live THEN m
      ELSE IF source = NULL THEN m1
      ELSE IF source \notin m.live THEN Stale(m1)
      ELSE IF u = NULL THEN m1
      ELSE IF u \notin m.ues THEN Stale(m1)
      ELSE IF ~m.ue[u].sess THEN m1
      ELSE IF m2.ue[u].tunnel # NoPath THEN Gtp(m2, "CreateTunnel", u)
      ELSE s1ap_send_to_enb_ue(m2, source, "HandoverCommand")

s1ap_handle_handover_failure(m, e) ==
  LET target == e.mid
      source == m.ctx[target].source_ue
      m1 == s1ap_send_to_enb_ue(m, source, "HandoverPreparationFailure")
      m2 == s1ap_send_ue_context_release_command(m1, target, "NO_ACTION", FALSE)
  IN  IF target \notin m.live THEN m
      ELSE IF source = NULL THEN m
      ELSE IF source \in m.live /\ m.ctx[source].mme_ue = NULL THEN m
      ELSE IF m1.stale \/ m2.stale THEN Stale(m)
      ELSE source_ue_deassociate_target_ue(m2, source)

s1ap_handle_handover_cancel(m, e) ==
  LET source == enb_ue_find_by_enb_ue_s1ap_id(m, e.enb, e.eid)
      target == m.ctx[source].target_ue
      m1 == s1ap_send_to_enb_ue(m, source, "HandoverCancelAck")
  IN  IF source = NULL \/ source # e.mid THEN m
      ELSE IF target = NULL THEN m
      ELSE s1ap_send_ue_context_release_command(m1, target,
                                                "DELETE_INDIRECT_TUNNEL", TRUE)

s1ap_handle_handover_notification(m, e) ==
  LET target == enb_ue_find_by_enb_ue_s1ap_id(m, e.enb, e.eid)
      source == m.ctx[target].source_ue
      u == m.ctx[source].mme_ue
      m1 == mme_ue_associate_enb_ue(m, u, target)
      m2 == [m1 EXCEPT !.ue[u].enb_s1u = Path(e.enb, e.eid),
                       !.ue[u].handover.request = @ + 1]
  IN  IF target = NULL \/ target # e.mid THEN m
      ELSE IF source = NULL THEN m
      ELSE IF source \notin m.live THEN Stale(m)
      ELSE IF u = NULL THEN m
      ELSE IF u \notin m.ues THEN Stale(m)
      ELSE IF ~m.ue[u].sess THEN m1
      ELSE Gtp(m2, "ModifyBearer", u)

enb_ue_switch_to_enb(m, c, e) ==
  LET old == m.ctx[c].enb
      without == [m EXCEPT !.list[old] = SelectSeq(@, LAMBDA x : x # c)]
  IN  [without EXCEPT !.list[e] = Append(@, c), !.ctx[c].enb = e]

\* Without the bearer the handler returns before it moves the context.
s1ap_handle_path_switch_request(m, e) ==
  LET c == e.mid
      u == m.ctx[c].mme_ue
      m1 == [m EXCEPT !.ctx[c].enb_ue_s1ap_id = e.eid]
      m2 == [m1 EXCEPT !.ue[u].enb_s1u = Path(e.enb, e.eid),
                       !.ue[u].path_switch.request = @ + 1]
  IN  IF c \notin m.live
      THEN Send(m, e.enb, [type |-> "PathSwitchFailure",
                           eid |-> e.eid, mid |-> e.mid])
      ELSE IF u = NULL THEN m
      ELSE IF u \notin m.ues THEN Stale(m)
      ELSE IF ~m.ue[u].sess THEN m1
      ELSE enb_ue_switch_to_enb(Gtp(m2, "ModifyBearer", u), c, e.enb)

-----------------------------------------------------------------------------
(* Reset and loss of an eNB, the delayed-send timer *)

s1ap_handle_s1_reset(m, e) ==
  LET c == e.mid
      m1 == IF c = NULL THEN enb_ue_remove_in_enb(m, e.enb)
            ELSE IF c \in m.live THEN enb_ue_remove(m, c) ELSE m
  IN  IF m1.stale THEN m1
      ELSE Send(m1, e.enb, [type |-> "ResetAck", eid |-> INVALID, mid |-> c])

mme_enb_remove(m, e) ==
  LET n == enb_ue_remove_in_enb(m, e)
  IN  [n EXCEPT !.enbs = @ \ {e}, !.down[e] = <<>>]

mme_enb_add(m, e) == [m EXCEPT !.enbs = @ \cup {e}]

s1ap_delayed_send(m, e) == s1ap_send_to_enb_ue(m, e.ctx, "Release")

-----------------------------------------------------------------------------
(* S11 responses (and S6a failures): the TEID names the NAS context *)

\* Authentication, security mode, ULR and Create Session Response in one:
\* it comes to nothing when the UE has left the procedure meanwhile.
mme_s11_handle_create_session_response(m, u) ==
  LET n == [m EXCEPT !.ue[u].emm = "initial_context_setup",
                     !.ue[u].sess = TRUE, !.ue[u].active = FALSE,
                     !.ue[u].sgw_s11_teid = TRUE]
  IN  IF m.ue[u].emm # "authentication" THEN m
      ELSE nas_send_to_enb(n, u, "AttachAccept")

mme_s6a_failure(m, u) ==
  IF m.ue[u].enb_ue = NULL THEN m
  ELSE s1ap_send_ue_context_release_command(m, m.ue[u].enb_ue,
                                            "UE_CONTEXT_REMOVE", FALSE)

\* The session comes from the transaction; by then it may be gone.
mme_s11_handle_delete_session_response(m, u) ==
  LET state == m.ue[u].emm
      enb_ue == m.ue[u].enb_ue
      n == CASE state = "authentication" -> Gtp(m, "CreateSession", u)
             [] state = "de_registered" -> nas_send_detach_accept(m, u)
             [] state \in {"initial_context_setup", "exception"}
                  /\ enb_ue # NULL ->
                  s1ap_send_ue_context_release_command(m, enb_ue,
                                               "UE_CONTEXT_REMOVE", FALSE)
             [] OTHER -> m
  IN  IF ~m.ue[u].sess THEN Stale(m)
      ELSE [mme_sess_remove(n, u) EXCEPT !.ue[u].sgw_s11_teid = FALSE]

mme_s11_handle_release_access_bearers_response(m, u) ==
  IF m.ue[u].enb_ue = NULL THEN m
  ELSE s1ap_send_ue_context_release_command([m EXCEPT !.ue[u].enb_s1u = NoPath],
                     m.ue[u].enb_ue, "S1_NORMAL_RELEASE", FALSE)

\* GTP_COUNTER_CHECK: the counter after one more response, and whether the
\* response was the last one awaited.
GTP_COUNTER_CHECK(k) ==
  IF k.request = 0 THEN k
  ELSE IF k.response + 1 = k.request THEN Zero
  ELSE [k EXCEPT !.response = @ + 1]


GTP_COUNTER_DONE(k) == k.request > 0 /\ k.response + 1 = k.request

mme_s11_handle_modify_bearer_response(m, u) ==
  LET ue == m.ue[u]
      m1 == [m EXCEPT !.ue[u].path_switch = GTP_COUNTER_CHECK(@)]
      m2 == IF GTP_COUNTER_DONE(ue.path_switch)
            THEN nas_send_to_enb(m1, u, "PathSwitchAck") ELSE m1
      m3 == [m2 EXCEPT !.ue[u].handover = GTP_COUNTER_CHECK(@)]
      source == m.ctx[ue.enb_ue].source_ue
  IN  IF ~GTP_COUNTER_DONE(ue.handover) THEN m3
      ELSE IF ue.enb_ue = NULL THEN m3
      ELSE IF ue.enb_ue \notin m.live THEN Stale(m3)
      ELSE IF source = NULL THEN m3
      ELSE s1ap_send_ue_context_release_command(m3, source,
                                                "DELETE_INDIRECT_TUNNEL", TRUE)

\* The Handover Command goes to mme_ue->enb_ue.
mme_s11_handle_create_indirect_tunnel_response(m, u) ==
  IF m.ue[u].enb_ue = NULL THEN m
  ELSE s1ap_send_to_enb_ue(m, m.ue[u].enb_ue, "HandoverCommand")

mme_s11_handle_delete_indirect_tunnel_response(m, u) ==
  [m EXCEPT !.ue[u].tunnel = NoPath]

-----------------------------------------------------------------------------
(* The state machine thread: one action per event *)

event == Head(queue)

\* Take(t, m): the event at the head of the queue has type t, and handling it
\* takes the MME to m.
Take(t, m) ==
  /\ ~mme.stale
  /\ queue # <<>>
  /\ event.type = t
  /\ mme' = [m EXCEPT !.post = <<>>]
  /\ queue' = Tail(queue) \o m.post
  /\ UNCHANGED ran

\* S1AP messages of an eNB without a context are dropped.
S1ap(m) == IF event.enb \in mme.enbs THEN m ELSE mme

\* The event's TEID or index leads to a pool slot, in use or not.
S11(m) == IF event.ue \in mme.ues THEN m ELSE Stale(mme)

InitialUeMessage ==
  Take("InitialUEMessage", S1ap(s1ap_handle_initial_ue_message(mme, event)))
UplinkNasTransport ==
  Take("UplinkNASTransport", S1ap(s1ap_handle_uplink_nas_transport(mme, event)))
EmmMessage == Take("EMM", mme_emm_message(mme, event))
InitialContextSetupResponse ==
  Take("InitialContextSetupResponse",
       S1ap(s1ap_handle_initial_context_setup_response(mme, event)))
InitialContextSetupFailure ==
  Take("InitialContextSetupFailure",
       S1ap(s1ap_handle_initial_context_setup_failure(mme, event)))
UeContextReleaseRequest ==
  Take("UEContextReleaseRequest",
       S1ap(s1ap_handle_ue_context_release_request(mme, event)))
UeContextReleaseComplete ==
  Take("UEContextReleaseComplete",
       S1ap(s1ap_handle_ue_context_release_complete(mme, event)))
HandoverRequired ==
  Take("HandoverRequired", S1ap(s1ap_handle_handover_required(mme, event)))
HandoverRequestAck ==
  Take("HandoverRequestAck", S1ap(s1ap_handle_handover_request_ack(mme, event)))
HandoverFailure ==
  Take("HandoverFailure", S1ap(s1ap_handle_handover_failure(mme, event)))
HandoverCancel ==
  Take("HandoverCancel", S1ap(s1ap_handle_handover_cancel(mme, event)))
HandoverNotify ==
  Take("HandoverNotify", S1ap(s1ap_handle_handover_notification(mme, event)))
PathSwitchRequest ==
  Take("PathSwitchRequest", S1ap(s1ap_handle_path_switch_request(mme, event)))
Reset == Take("Reset", S1ap(s1ap_handle_s1_reset(mme, event)))
ConnRefused == Take("ConnRefused", S1ap(mme_enb_remove(mme, event.enb)))
CommUp == Take("CommUp", mme_enb_add(mme, event.enb))
DelayedSend == Take("DelayedSend", s1ap_delayed_send(mme, event))

EsmMessage == Take("ESM", S11(mme_esm_message(mme, event.ue)))
CreateSessionResponse ==
  Take("CreateSession",
       S11(mme_s11_handle_create_session_response(mme, event.ue)))
S6aFailure == Take("S6aFailure", S11(mme_s6a_failure(mme, event.ue)))
DeleteSessionResponse ==
  Take("DeleteSession",
       S11(mme_s11_handle_delete_session_response(mme, event.ue)))
ReleaseAccessBearersResponse ==
  Take("ReleaseAccess",
       S11(mme_s11_handle_release_access_bearers_response(mme, event.ue)))
ModifyBearerResponse ==
  Take("ModifyBearer",
       S11(mme_s11_handle_modify_bearer_response(mme, event.ue)))
CreateTunnelResponse ==
  Take("CreateTunnel",
       S11(mme_s11_handle_create_indirect_tunnel_response(mme, event.ue)))
DeleteTunnelResponse ==
  Take("DeleteTunnel",
       S11(mme_s11_handle_delete_indirect_tunnel_response(mme, event.ue)))

=============================================================================
