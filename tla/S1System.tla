------------------------------ MODULE S1System ------------------------------
(***************************************************************************)
(* The MME's UE contexts (UeContext) composed with what surrounds them:    *)
(* eNBs, UEs and the SGW/HSS.  The peers follow their protocols: an eNB    *)
(* answers each command of the MME once, hands out an eNB-UE-S1AP-ID it is *)
(* not using, and speaks only of connections it holds; a UE uses one       *)
(* connection at a time.  They differ in when they act and in what they    *)
(* ask for: `peer' is what they may do in a behaviour, among               *)
(*   attach, service, detach   NAS requests of a UE                        *)
(*   moves       a registered UE may leave a connection without a word     *)
(*   release     an eNB asks for the release of a connection               *)
(*   early       ... while NAS messages of the UE are still on their way   *)
(*   icsfail     an eNB may fail an Initial Context Setup                  *)
(*   handover, hofail, cancel, tunnel   S1 handover, its target's refusal, *)
(*               its cancellation, indirect forwarding                     *)
(*   pathswitch  X2 handover                                               *)
(*   reset, loss an eNB resets S1, or its association fails and comes back *)
(*   reject, s11loss, reorder   the HSS refuses a UE; an S11 exchange      *)
(*               times out; S11 responses overtake one another             *)
(***************************************************************************)
EXTENDS UeContext, FiniteSetsExt

NoLink == NoPath

Room == Len(queue) < MaxQueue

Deliver(e) == Room /\ queue' = Append(queue, e)

\* MaxContexts bounds the contexts made or about to be made.
Budget ==
  mme.made + Len(SelectSeq(queue, LAMBDA e :
      e.type \in {"InitialUEMessage", "HandoverRequired"})) < MaxContexts

FreeIds(e) == EnbIds \ {l.eid : l \in {k \in link : k.enb = e}}

\* Leaving(ls): the UEs that used one of the connections ls use none now.
Leaving(ls) ==
  camp' = [u \in UE |-> IF \E l \in ls : [enb |-> l.enb, eid |-> l.eid] = camp[u]
                        THEN NoLink ELSE camp[u]]

Drop(ls) == link' = link \ ls /\ Leaving(ls)

Change(l, st) == link' = (link \ {l}) \cup {[l EXCEPT !.st = st]}

NasUnderWay(u) ==
  \E i \in DOMAIN queue : /\ queue[i].type \in {"InitialUEMessage",
                                                "UplinkNASTransport", "EMM"}
                         /\ queue[i].ue = u

Current(u) == {l \in link : [enb |-> l.enb, eid |-> l.eid] = camp[u]}

-----------------------------------------------------------------------------
(* UEs *)

Connect(u, e, nas) ==
  /\ nas \in peer
  /\ nas = "service" => u \in reg
  /\ camp[u] = NoLink \/ ("moves" \in peer /\ u \in reg /\ ~NasUnderWay(u))
  /\ e \in up /\ Budget /\ FreeIds(e) # {}
  /\ LET eid == Min(FreeIds(e))
     IN  /\ link' = link \cup {[enb |-> e, eid |-> eid, mid |-> NULL, ue |-> u,
                                st |-> "up"]}
         /\ camp' = [camp EXCEPT ![u] = [enb |-> e, eid |-> eid]]
         /\ Deliver([type |-> "InitialUEMessage", enb |-> e, eid |-> eid,
                     ue |-> u, nas |-> nas, stmsi |-> nas = "service"])
  /\ reg' = IF nas = "attach" THEN reg \ {u} ELSE reg
  /\ UNCHANGED <<mme, up, peer>>

Detach(u) ==
  /\ "detach" \in peer /\ u \in reg
  /\ \E l \in Current(u) :
       Deliver([type |-> "UplinkNASTransport", enb |-> l.enb, eid |-> l.eid,
                ue |-> u, nas |-> "detach"])
  /\ reg' = reg \ {u}
  /\ UNCHANGED <<mme, link, camp, up, peer>>

\* The UE reaches the eNB its handover was prepared at.
Arrive(u) ==
  \E s \in Current(u), t \in link :
    /\ s.st = "commanded" /\ t.st = "prepared" /\ t.ue = u
    /\ link' = (link \ {s, t}) \cup {[s EXCEPT !.st = "left"],
                                      [t EXCEPT !.st = "up"]}
    /\ camp' = [camp EXCEPT ![u] = [enb |-> t.enb, eid |-> t.eid]]
    /\ Deliver([type |-> "HandoverNotify", enb |-> t.enb, eid |-> t.eid,
                mid |-> t.mid])
    /\ UNCHANGED <<mme, up, reg, peer>>

-----------------------------------------------------------------------------
(* eNBs: what they ask for *)

Ask(l, type, st) ==
  /\ Deliver([type |-> type, enb |-> l.enb, eid |-> l.eid, mid |-> l.mid])
  /\ Change(l, st)
  /\ UNCHANGED <<mme, camp, up, reg, peer>>

AskRelease(l) ==
  /\ "release" \in peer /\ l.st = "up" /\ l.mid # NULL
  /\ \/ "early" \in peer
     \/ ~NasUnderWay(l.ue)
  /\ Ask(l, "UEContextReleaseRequest", "asked")

\* A handover starts when the last one of the UE has been tidied up.
AskHandover(l, e) ==
  /\ "handover" \in peer /\ Budget /\ l.st = "up" /\ l.mid # NULL /\ e # l.enb
  /\ \A k \in link \ {l} : k.ue # l.ue
  /\ \A c \in mme.live : mme.ctx[c].source_ue # l.mid
  /\ Deliver([type |-> "HandoverRequired", enb |-> l.enb, eid |-> l.eid,
              mid |-> l.mid, target |-> e])
  /\ Change(l, "preparing")
  /\ UNCHANGED <<mme, camp, up, reg, peer>>

AskCancel(l) ==
  /\ "cancel" \in peer /\ l.st \in {"preparing", "commanded"}
  /\ Ask(l, "HandoverCancel", "cancelling")

AskPathSwitch(l, e) ==
  /\ "pathswitch" \in peer /\ l.st = "up" /\ l.mid # NULL /\ e \in up \ {l.enb}
  /\ l \in Current(l.ue) /\ FreeIds(e) # {}
  /\ LET k == [l EXCEPT !.enb = e, !.eid = Min(FreeIds(e)), !.st = "switching"]
     IN  /\ link' = (link \ {l}) \cup {k}
         /\ camp' = [camp EXCEPT ![l.ue] = [enb |-> e, eid |-> k.eid]]
         /\ Deliver([type |-> "PathSwitchRequest", enb |-> e, eid |-> k.eid,
                     mid |-> l.mid])
  /\ UNCHANGED <<mme, up, reg, peer>>

\* An eNB runs one Reset procedure at a time.
AskReset(ls, e, mid) ==
  /\ "reset" \in peer
  /\ ~\E i \in DOMAIN queue : queue[i].type = "Reset" /\ queue[i].enb = e
  /\ \A i \in DOMAIN mme.down[e] : mme.down[e][i].type # "ResetAck"
  /\ Drop(ls)
  /\ Deliver([type |-> "Reset", enb |-> e, eid |-> INVALID, mid |-> mid])
  /\ UNCHANGED <<mme, up, reg, peer>>

ResetAll(e) == e \in up /\ AskReset({l \in link : l.enb = e}, e, NULL)

ResetPart(l) == l.mid # NULL /\ AskReset({l}, l.enb, l.mid)

Lost(e) ==
  /\ "loss" \in peer /\ e \in up
  /\ up' = up \ {e}
  /\ Drop({l \in link : l.enb = e})
  /\ Deliver([type |-> "ConnRefused", enb |-> e])
  /\ UNCHANGED <<mme, reg, peer>>

Back(e) ==
  /\ e \notin up
  /\ up' = up \cup {e}
  /\ Deliver([type |-> "CommUp", enb |-> e])
  /\ UNCHANGED <<mme, link, camp, reg, peer>>

-----------------------------------------------------------------------------
(* eNBs: what they do with what the MME sends *)

Pending(e) == \E i \in DOMAIN queue :
                 queue[i].type = "ConnRefused" /\ queue[i].enb = e

\* Receive(e, types): the next message for eNB e, of one of these types
Receive(e, types) ==
  /\ e \in up /\ ~Pending(e)
  /\ mme.down[e] # <<>>
  /\ Head(mme.down[e]).type \in types
  /\ mme' = [mme EXCEPT !.down[e] = Tail(@)]

\* The connections of eNB e that message d is about
About(e, d) ==
  {l \in link : l.enb = e /\ (l.mid = d.mid \/ (l.mid = NULL /\ l.eid = d.eid))}

\* The bearer is set up; with an Attach Accept the UE answers as well, and
\* its answer may overtake the eNB's.
SetUp(e) ==
  /\ Room
  /\ Receive(e, {"InitialContextSetup", "AttachAccept"})
  /\ LET d == Head(mme.down[e])
         ls == About(e, d)
         ack(l) == [type |-> "InitialContextSetupResponse", enb |-> e, eid |-> l.eid]
         done(l) == [type |-> "UplinkNASTransport", enb |-> e, eid |-> l.eid,
                     ue |-> l.ue, nas |-> "attach_complete"]
     IN  IF ls = {} THEN UNCHANGED <<queue, link, reg, peer>>
         ELSE \E l \in ls :
                /\ link' = (link \ {l}) \cup {[l EXCEPT !.mid = d.mid]}
                /\ reg' = IF d.type = "AttachAccept" /\ l \in Current(l.ue)
                          THEN reg \cup {l.ue} ELSE reg
                /\ IF d.type = "AttachAccept" /\ l \in Current(l.ue)
                   THEN \E a \in {<<ack(l), done(l)>>, <<done(l), ack(l)>>} :
                          queue' = queue \o a
                   ELSE queue' = Append(queue, ack(l))
  /\ UNCHANGED <<camp, up, peer>>

\* The UE is gone; the eNB keeps the connection until it is released.
FailSetUp(e) ==
  /\ "icsfail" \in peer
  /\ Receive(e, {"InitialContextSetup", "AttachAccept"})
  /\ \E l \in About(e, Head(mme.down[e])) :
       /\ Change(l, "failed") /\ Leaving({l})
       /\ Deliver([type |-> "InitialContextSetupFailure", enb |-> e, eid |-> l.eid])
  /\ UNCHANGED <<up, reg, peer>>

Release(e) ==
  /\ Room
  /\ Receive(e, {"Release"})
  /\ LET d == Head(mme.down[e])
         ls == About(e, d)
     IN  /\ Drop(ls)
         /\ IF ls = {} THEN queue' = queue
            ELSE queue' = Append(queue, [type |-> "UEContextReleaseComplete",
                                         enb |-> e, mid |-> d.mid])
  /\ UNCHANGED <<up, reg, peer>>

Prepare(e) ==
  /\ Receive(e, {"HandoverRequest"})
  /\ FreeIds(e) # {}
  /\ LET d == Head(mme.down[e])
         eid == Min(FreeIds(e))
     IN  /\ link' = link \cup {[enb |-> e, eid |-> eid, mid |-> d.mid,
                                ue |-> d.ue, st |-> "prepared"]}
         /\ \E offered \in {FALSE, "tunnel" \in peer} :
              Deliver([type |-> "HandoverRequestAck", enb |-> e, eid |-> eid,
                       mid |-> d.mid, tunnel |-> offered])
  /\ UNCHANGED <<camp, up, reg, peer>>

\* Refused: the eNB keeps the resources until the Release Command comes.
Refuse(e) ==
  /\ "hofail" \in peer \/ FreeIds(e) = {}
  /\ Receive(e, {"HandoverRequest"})
  /\ LET d == Head(mme.down[e])
     IN  /\ link' = link \cup {[enb |-> e, eid |-> INVALID, mid |-> d.mid,
                                ue |-> d.ue, st |-> "refused"]}
         /\ Deliver([type |-> "HandoverFailure", enb |-> e, mid |-> d.mid])
  /\ UNCHANGED <<camp, up, reg, peer>>

\* An answer to an eNB's request: on with the handover, or back to normal
Answered(e) ==
  /\ Receive(e, {"HandoverCommand", "HandoverPreparationFailure",
                 "HandoverCancelAck", "PathSwitchAck"})
  /\ LET d == Head(mme.down[e])
         awaited == CASE d.type = "HandoverCancelAck" -> "cancelling"
                      [] d.type = "PathSwitchAck" -> "switching"
                      [] OTHER -> "preparing"
         next == IF d.type = "HandoverCommand" THEN "commanded" ELSE "up"
         ls == {l \in About(e, d) : l.st = awaited}
     IN  link' = (link \ ls) \cup {[l EXCEPT !.st = next] : l \in ls}
  /\ UNCHANGED <<queue, camp, up, reg, peer>>

\* An unknown id: the eNB gives the connection up.
Refused(e) ==
  /\ Receive(e, {"Error", "PathSwitchFailure"})
  /\ Drop({l \in link : l.enb = e /\ l.mid = Head(mme.down[e]).mid})
  /\ UNCHANGED <<queue, up, reg, peer>>

Noted(e) ==
  /\ Receive(e, {"ResetAck"})
  /\ UNCHANGED <<queue, ran>>

-----------------------------------------------------------------------------
(* SGW and HSS, and the MME's timer *)

Done(i) == mme' = [mme EXCEPT !.s11 = RemoveAt(@, i)]

Answer(i) ==
  /\ i = 1 \/ "reorder" \in peer
  /\ Done(i)
  /\ Deliver([type |-> mme.s11[i].type, ue |-> mme.s11[i].ue])
  /\ UNCHANGED ran

Reject(i) ==
  /\ "reject" \in peer /\ i = 1 /\ mme.s11[i].type = "CreateSession"
  /\ Done(i)
  /\ Deliver([type |-> "S6aFailure", ue |-> mme.s11[i].ue])
  /\ UNCHANGED ran

TimeOut(i) ==
  /\ "s11loss" \in peer
  /\ Done(i)
  /\ UNCHANGED <<queue, ran>>

DelayTimer(c) ==
  /\ c \in mme.delayed
  /\ mme' = [mme EXCEPT !.delayed = @ \ {c}]
  /\ Deliver([type |-> "DelayedSend", ctx |-> c])
  /\ UNCHANGED ran

-----------------------------------------------------------------------------

Init ==
  /\ mme = [ctx |-> [c \in Context |-> NoContext], made |-> 0, live |-> {},
            list |-> [e \in ENB |-> <<>>],
            ue |-> [u \in UeContexts |-> NoUeContext], umade |-> 0, ues |-> {},
            enbs |-> ENB, down |-> [e \in ENB |-> <<>>], s11 |-> <<>>,
            delayed |-> {}, post |-> <<>>, stale |-> FALSE, asserted |-> FALSE]
  /\ queue = <<>>
  /\ link = {}
  /\ camp = [u \in UE |-> NoLink]
  /\ up = ENB
  /\ reg = {}
  /\ peer \in Peers

\* mme_state_operational
MmeStep ==
  \/ InitialUeMessage \/ UplinkNasTransport \/ EmmMessage \/ EsmMessage
  \/ InitialContextSetupResponse \/ InitialContextSetupFailure
  \/ UeContextReleaseRequest \/ UeContextReleaseComplete
  \/ HandoverRequired \/ HandoverRequestAck \/ HandoverFailure
  \/ HandoverCancel \/ HandoverNotify \/ PathSwitchRequest
  \/ Reset \/ ConnRefused \/ CommUp \/ DelayedSend
  \/ CreateSessionResponse \/ S6aFailure \/ DeleteSessionResponse
  \/ ReleaseAccessBearersResponse \/ ModifyBearerResponse
  \/ CreateTunnelResponse \/ DeleteTunnelResponse

EnbStep(e) ==
  \/ SetUp(e) \/ FailSetUp(e) \/ Release(e) \/ Prepare(e) \/ Refuse(e)
  \/ Answered(e) \/ Refused(e) \/ Noted(e)

SgwStep == \E i \in DOMAIN mme.s11 : Answer(i) \/ Reject(i) \/ TimeOut(i)

Next ==
  \/ MmeStep
  \/ \E e \in ENB : EnbStep(e) \/ ResetAll(e) \/ Lost(e) \/ Back(e)
  \/ \E u \in UE : \/ \E e \in ENB, nas \in {"attach", "service"} : Connect(u, e, nas)
                   \/ Detach(u) \/ Arrive(u)
  \/ \E l \in link : \/ AskRelease(l) \/ AskCancel(l) \/ ResetPart(l)
                     \/ \E e \in ENB : AskHandover(l, e) \/ AskPathSwitch(l, e)
  \/ SgwStep
  \/ \E c \in Context : DelayTimer(c)

Spec == Init /\ [][Next]_vars

\* The MME's thread serves its queue and its timers, an eNB what it receives,
\* and every S11 exchange is answered in the end.  What a peer may ask for it
\* need not ask for.  (Strong fairness for the timer, because MaxQueue, which
\* the MME does not have, disables it while the queue is full.)
FairSpec ==
  /\ Spec
  /\ WF_vars(MmeStep)
  /\ \A e \in ENB : WF_vars(EnbStep(e))
  /\ WF_vars(SgwStep)
  /\ \A c \in Context : SF_vars(DelayTimer(c))

-----------------------------------------------------------------------------
(* Properties *)

\* The MME's database is well formed.
Paths == [enb : ENB, eid : EnbIds] \cup {NoPath}
TypeOK ==
  /\ mme.ctx \in [Context ->
       [enb : ENB \cup {NoEnb}, enb_ue_s1ap_id : EnbIds \cup {INVALID},
        mme_ue : UeContexts \cup {NULL}, source_ue : Context \cup {NULL},
        target_ue : Context \cup {NULL}, ue_ctx_rel_action : Action]]
  /\ mme.ue \in [UeContexts ->
       [imsi : UE \cup {NoUe}, emm : EmmState, enb_ue : Context \cup {NULL},
        sess : BOOLEAN, active : BOOLEAN, sgw_s11_teid : BOOLEAN, enb_s1u : Paths,
        tunnel : Paths, path_switch : Counter, handover : Counter]]
  /\ mme.live \subseteq 1..mme.made /\ mme.made \in 0..MaxContexts
  /\ mme.ues \subseteq 1..mme.umade /\ mme.umade \in 0..MaxContexts
  /\ mme.post = <<>> /\ mme.enbs \subseteq ENB /\ mme.delayed \subseteq Context

\* No handler follows a pointer, an index or a TEID to a context that has
\* been removed: whatever enb_ue_remove and mme_ue_remove leave behind is
\* not used again.
NoStaleUse == ~mme.stale

\* ECM_CONNECTED(mme_ue) is a test of mme_ue->enb_ue: where it holds, the S1
\* context exists and is associated with that very NAS context.
ConnectedMeansAssociated ==
  \A u \in mme.ues : mme.ue[u].enb_ue # NULL =>
    /\ mme.ue[u].enb_ue \in mme.live
    /\ mme.ctx[mme.ue[u].enb_ue].mme_ue = u

\* source_ue and target_ue of a handover point at each other, and a context
\* that is freed is not the target of a handover any more (the assertion of
\* enb_ue_remove).
PairsMutual ==
  ~mme.asserted /\ \A c \in mme.live :
    /\ mme.ctx[c].target_ue # NULL =>
         /\ mme.ctx[c].target_ue \in mme.live
         /\ mme.ctx[mme.ctx[c].target_ue].source_ue = c
    /\ mme.ctx[c].source_ue # NULL =>
         /\ mme.ctx[c].source_ue \in mme.live
         /\ mme.ctx[mme.ctx[c].source_ue].target_ue = c

\* The eNBs' lists hold each context once, in the list of its own eNB, and
\* an eNB-UE-S1AP-ID in use names one context of the list.
ListsAgree ==
  TypeOK /\ \A e \in ENB :
    /\ Range(mme.list[e]) = {c \in mme.live : mme.ctx[c].enb = e}
    /\ \A i, j \in DOMAIN mme.list[e] : i # j =>
         LET id(k) == mme.ctx[mme.list[e][k]].enb_ue_s1ap_id
         IN  /\ mme.list[e][i] # mme.list[e][j]
             /\ id(i) # INVALID => id(i) # id(j)

\* A NAS message waiting in the queue came from the subscriber whose NAS
\* context will handle it.
NasMatchesUe ==
  \A i \in DOMAIN queue :
    LET c == queue[i].ctx
        u == mme.ctx[c].mme_ue
    IN  queue[i].type = "EMM" /\ c \in mme.live /\ u \in mme.ues
          => mme.ue[u].imsi \in {queue[i].ue, NoUe}

\* A subscriber has one NAS context.
OneContextPerUe ==
  \A u, v \in mme.ues :
    mme.ue[u].imsi = mme.ue[v].imsi /\ mme.ue[u].imsi # NoUe => u = v

\* When nothing is on its way any more, every S1 context of the MME is the
\* other end of a connection some eNB holds, and not one whose Initial Context
\* Setup has failed: none is left behind.
AtRest ==
  queue = <<>> /\ mme.s11 = <<>> /\ mme.delayed = {}
    /\ \A e \in ENB : mme.down[e] = <<>>
NoneLeftBehind ==
  AtRest => \A c \in mme.live :
    \E l \in link : /\ l.enb = mme.ctx[c].enb /\ l.st # "failed"
                    /\ l.eid = mme.ctx[c].enb_ue_s1ap_id
                    /\ l.mid \in {c, NULL}


\* What an eNB asks the MME for gets an end: the release of a connection, the
\* preparation, the cancellation and the failure of a handover, a path switch;
\* and the connection a UE has left by a handover is released.
Waiting(e, i) ==
  \E l \in link : /\ l.enb = e /\ l.eid = i
                  /\ l.st \in {"asked", "preparing", "cancelling", "refused",
                              "switching", "left"}

=============================================================================
