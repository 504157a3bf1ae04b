-------------------------------- MODULE Spgw --------------------------------
(***************************************************************************)
(* The SPGW's sessions and its Gx client.  One main thread takes events    *)
(* from a FIFO queue (spgw_sm.c); freeDiameter's threads run pgw_gx_cca_cb *)
(* and pgw_gx_rar_cb at the same time and only share the Diameter states,  *)
(* the session memory they point to and the queue with it.  A step of a    *)
(* callback, or of pgw_gx_send_ccr, ends where it has taken the state out, *)
(* sent an event or put the state back.                                    *)
(*                                                                         *)
(* Contexts: session slots come from the FIFO pool spgw_sess_pool, whose   *)
(* memory stays readable when freed; Gx states (pgw_gx_sess_pool) are      *)
(* named by the order they were made in.                                   *)
(***************************************************************************)
EXTENDS GxChannel, SequencesExt

CONSTANTS
  SessPool      \* size of spgw_sess_pool

VARIABLES
  sess,     \* node_pool of spgw_sess_pool
  sfree,    \* its free ring
  ipfree,   \* free ring of the subnet's address pool
  shash,    \* sess_hash: IMSI+APN -> slot
  slist,    \* sgw_ue->sess_list
  evq,      \* event queue of the main thread
  main,     \* the CCR the main thread is in the middle of, or Idle
  gx,       \* Diameter session -> Gx state of the PGW
  st,       \* the Gx states made so far
  pcb,      \* Gx callbacks that are running
  s11,      \* S11 transactions, in the order the MME began them
  mark      \* what happened so far, for the properties

spgwVars == <<sess, sfree, ipfree, shash, slist, evq, main, gx, st, pcb, s11, mark>>
sessVars == <<sess, sfree, ipfree, shash, slist>>

Slots == 1..SessPool
Idle == [x |-> 0]

\* Slot memory as index_alloc leaves it.
Zero == [live |-> FALSE, ue |-> NULL, addr |-> NoAddr, gx |-> NULL,
         gnode |-> NULL, ded |-> FALSE, told |-> FALSE]

\* `pool' slots of spgw_sess_pool are not in use by others.
SpgwInit(pool) ==
  /\ sess = [i \in Slots |-> Zero]
  /\ sfree = [i \in 1..pool |-> i]
  /\ ipfree = SetToSeq(Addrs)
  /\ shash = [u \in Ue |-> NULL]
  /\ slist = [u \in Ue |-> <<>>]
  /\ evq = <<>> /\ main = Idle
  /\ gx = [s \in Sids |-> NoEntry] /\ st = <<>> /\ pcb = {}
  /\ s11 = <<>>
  /\ mark = [over |-> {}, old |-> {}, stray |-> {}, badfree |-> {}]

-----------------------------------------------------------------------------
(* Events and transactions *)

S11Event(op, x) == [t |-> "S11", op |-> op, x |-> x]
PgwEvent(op, x, i) == [t |-> "PGW", op |-> op, x |-> x, i |-> i]
SgwEvent(op, x, i) == [t |-> "SGW", op |-> op, x |-> x, i |-> i]

\* The answer to a CCR.
CcaEvent(k, ok, rule) ==
  [t |-> "CCA", type |-> st[k].type, x |-> st[k].x, i |-> st[k].i, ok |-> ok,
   rule |-> rule, sid |-> st[k].sid]
\* A rule of a RAR.
RarEvent(k, op) == [t |-> "RAR", op |-> op, i |-> st[k].i, sid |-> st[k].sid]

Taken(e) == main = Idle /\ evq # <<>> /\ e = Head(evq)
Queue(e) == evq' = Append(Tail(evq), e)
Drop == evq' = Tail(evq)

\* An S11 request ends: answered, or given up for the reason named.
Close(x, how) == s11' = [s11 EXCEPT ![x].st = how]

\* The MME begins a request.  gtp_xact_receive gives it a transaction.
S11Request(u, op) ==
  /\ s11' = Append(s11, [ue |-> u, op |-> op, st |-> "sent"])
  /\ evq' = Append(evq, S11Event(op, Len(s11) + 1))
  /\ UNCHANGED <<sessVars, main, gx, st, pcb, mark>>

-----------------------------------------------------------------------------
(* Sessions *)

\* sgw_sess_find_by_ebi: every session of a subscriber has the EBI asked for.
SessFind(u) == IF slist[u] = <<>> THEN NULL ELSE Head(slist[u])

\* spgw_sess_add: a slot, its default bearer, an address.  Without an address
\* pgw_sess_remove gives the slot back.
SessAdd(u) ==
  LET i == Head(sfree)
  IN  IF ipfree = <<>>
      THEN /\ sfree' = Append(Tail(sfree), i)
           /\ sess' = [sess EXCEPT ![i] = [Zero EXCEPT !.ue = u]]
           /\ UNCHANGED <<ipfree, shash, slist>>
      ELSE /\ sfree' = Tail(sfree)
           /\ ipfree' = Tail(ipfree)
           /\ sess' = [sess EXCEPT ![i] = [Zero EXCEPT !.live = TRUE, !.ue = u,
                                                       !.addr = Head(ipfree)]]
           /\ shash' = [shash EXCEPT ![u] = i]
           /\ slist' = [slist EXCEPT ![u] = Append(@, i)]

\* Mutant: the address is not given back.
SessRemoveKeepAddr(i) ==
  LET u == sess[i].ue
  IN  /\ shash' = [shash EXCEPT ![u] = NULL]
      /\ slist' = [slist EXCEPT ![u] = SelectSeq(@, LAMBDA j : j # i)]
      /\ sfree' = IF sess[i].live THEN Append(sfree, i) ELSE sfree
      /\ sess' = [sess EXCEPT ![i].live = FALSE, ![i].ded = FALSE]
      /\ UNCHANGED ipfree

\* Mutant: the session stays in its subscriber's list.
SessRemoveKeepListed(i) ==
  /\ shash' = [shash EXCEPT ![sess[i].ue] = NULL]
  /\ ipfree' = Append(ipfree, sess[i].addr)
  /\ sfree' = IF sess[i].live THEN Append(sfree, i) ELSE sfree
  /\ sess' = [sess EXCEPT ![i].live = FALSE, ![i].ded = FALSE]
  /\ UNCHANGED slist

\* spgw_sess_remove.  index_free returns a slot once; the address pool takes
\* any address while it is not full.
SessRemove(i) ==
  LET u == sess[i].ue
  IN  /\ shash' = [shash EXCEPT ![u] = NULL]
      /\ ipfree' = IF Len(ipfree) < Cardinality(Addrs)
                   THEN Append(ipfree, sess[i].addr) ELSE ipfree
      /\ slist' = [slist EXCEPT ![u] = SelectSeq(@, LAMBDA j : j # i)]
      /\ sfree' = IF sess[i].live THEN Append(sfree, i) ELSE sfree
      /\ sess' = [sess EXCEPT ![i].live = FALSE, ![i].ded = FALSE]

-----------------------------------------------------------------------------
(* S11 requests, on the main thread *)

\* sgw_s11_handle_create_session_request
CreateSessionRequest(e) ==
  /\ Taken(e) /\ e.t = "S11" /\ e.op = "create"
  /\ LET u == s11[e.x].ue
         i == SessFind(u)
     IN  \/ /\ i # NULL
            /\ Queue(PgwEvent("create", e.x, i))
            /\ UNCHANGED <<sessVars, s11>>
         \/ /\ i = NULL /\ sfree = <<>>
            /\ Drop /\ Close(e.x, "nores")
            /\ UNCHANGED sessVars
         \/ /\ i = NULL /\ sfree # <<>> /\ ipfree = <<>>
            /\ SessAdd(u)
            /\ Drop /\ Close(e.x, "nores")
         \/ /\ i = NULL /\ sfree # <<>> /\ ipfree # <<>>
            /\ SessAdd(u)
            /\ Queue(PgwEvent("create", e.x, Head(sfree)))
            /\ UNCHANGED s11
  /\ UNCHANGED <<main, gx, st, pcb, mark, gxnet>>

\* sgw_s11_handle_delete_session_request
DeleteSessionRequest(e) ==
  /\ Taken(e) /\ e.t = "S11" /\ e.op = "delete"
  /\ LET i == SessFind(s11[e.x].ue)
     IN  IF i = NULL
         THEN Drop /\ Close(e.x, "nores")
         ELSE Queue(PgwEvent("delete", e.x, i)) /\ UNCHANGED s11
  /\ UNCHANGED <<sessVars, main, gx, st, pcb, mark, gxnet>>

-----------------------------------------------------------------------------
(* pgw_gx_send_ccr, on the main thread *)

Holding(sid) == {c \in pcb : c.sid = sid /\ c.k # NULL}

\* A Diameter session lives while it has an entry or a message refers to it.
PgwKnows(sid) ==
  \/ gx[sid] # NoEntry
  \/ \E c \in pcb : c.sid = sid
  \/ \E m \in gxnet : m.t \in {"CCR", "CCA"} /\ m.sid = sid

NewSid == Cardinality({st[k].sid : k \in DOMAIN st}) + 1

\* Up to the state it takes out or makes.  sess->gx_sid is the string of a
\* state and not a copy of it: an initial request frees the one it finds.
SendCcr(e) ==
  /\ Taken(e) /\ e.t = "PGW"
  /\ Drop
  /\ LET type == IF e.op = "create" THEN "I" ELSE "T"
         p    == sess[e.i].gx
         keep == p # NULL /\ type = "T"
         sid  == IF keep THEN st[p].sid ELSE NewSid
         st1  == IF p # NULL /\ ~keep THEN [st EXCEPT ![p].str = FALSE] ELSE st
         k    == Retrieved(gx, sid)
         new  == [sid |-> sid, str |-> TRUE, i |-> e.i, x |-> e.x, type |-> type]
     IN  IF keep /\ ~PgwKnows(sid)
         THEN /\ Close(e.x, "collided")
              /\ UNCHANGED <<sess, main, gx, st, mark>>
         ELSE /\ sid \in Sids
              /\ gx' = Without(gx, sid)
              /\ IF k = NULL
                 THEN /\ st' = Append(st1, new)
                      /\ sess' = [sess EXCEPT ![e.i].gx = Len(st) + 1]
                 ELSE /\ st' = [st1 EXCEPT ![k] = [new EXCEPT !.str = st1[k].str]]
                      /\ UNCHANGED sess
              /\ main' = [x |-> e.x, i |-> e.i, sid |-> sid, type |-> type,
                          k |-> IF k = NULL THEN Len(st) + 1 ELSE k]
              /\ mark' = [mark EXCEPT
                   !.over = IF k = NULL /\ Holding(sid) # {} THEN @ \cup {sid} ELSE @,
                   !.old = IF p # NULL /\ ~keep THEN @ \cup {st[p].sid} ELSE @,
                   !.badfree = IF p # NULL /\ ~st[p].str THEN @ \cup {st[p].sid} ELSE @]
              /\ UNCHANGED s11
  /\ UNCHANGED <<sfree, ipfree, shash, slist, pcb, gxnet>>

\* From the store on.
SendCcrStore ==
  /\ main # Idle
  /\ main' = Idle
  /\ gx' = Stored(gx, main.sid, main.k)
  /\ IF Storable(gx, main.sid)
     THEN /\ gxnet' = gxnet \cup
               {CCR(main.sid, main.type, sess[main.i].ue,
                    IF main.type = "I" THEN sess[main.i].addr ELSE NoAddr, main.k)}
          /\ UNCHANGED s11
     ELSE Close(main.x, "collided") /\ UNCHANGED gxnet
  /\ UNCHANGED <<sessVars, evq, st, pcb, mark>>

-----------------------------------------------------------------------------
(* Gx and S5C events, on the main thread *)

\* bearer_binding with one rule.  An installed rule has a bearer made for its
\* QCI and ARP unless there is one; a request to the MME tells of it, but
\* gtp_xact_local_create refuses a session without a node.  A removed rule's
\* bearer stays until the MME has answered.
BearerBinding(i, op) ==
  sess' = [sess EXCEPT ![i].ded = @ \/ op = "install",
                       ![i].told = @ \/ (op = "install" /\ sess[i].gnode # NULL)]

\* The session in slot i is not, or no longer, the one the Session-Id is of.
Foreign(i, sid) ==
  \/ ~sess[i].live
  \/ sess[i].gx = NULL
  \/ st[sess[i].gx].sid # sid

\* PGW_EVT_GX_MESSAGE with a Credit-Control-Answer: an error leaves the
\* request without an answer, a success sends the SGW half its event.
CreditControlAnswer(e) ==
  /\ Taken(e) /\ e.t = "CCA"
  /\ \/ /\ ~e.ok
        /\ Drop /\ Close(e.x, "refused")
        /\ UNCHANGED sess
     \/ /\ e.ok /\ e.type = "I"
        /\ Queue(SgwEvent("create", e.x, e.i))
        /\ IF e.rule THEN BearerBinding(e.i, "install") ELSE UNCHANGED sess
        /\ UNCHANGED s11
     \/ /\ e.ok /\ e.type = "T"
        /\ Queue(SgwEvent("delete", e.x, e.i))
        /\ UNCHANGED <<sess, s11>>
  /\ UNCHANGED <<sfree, ipfree, shash, slist, main, gx, st, pcb, mark, gxnet>>

\* PGW_EVT_GX_MESSAGE with a Re-Auth-Request.
ReAuthRequest(e) ==
  /\ Taken(e) /\ e.t = "RAR"
  /\ Drop
  /\ BearerBinding(e.i, e.op)
  /\ mark' = [mark EXCEPT !.stray = IF Foreign(e.i, e.sid) THEN @ \cup {e.sid} ELSE @]
  /\ UNCHANGED <<sfree, ipfree, shash, slist, main, gx, st, pcb, s11, gxnet>>

\* sgw_s5c_handle_create_session_response
CreateSessionResponse(e) ==
  /\ Taken(e) /\ e.t = "SGW" /\ e.op = "create"
  /\ Drop /\ Close(e.x, "answered")
  /\ UNCHANGED <<sessVars, main, gx, st, pcb, mark, gxnet>>

\* sgw_s5c_handle_delete_session_response
DeleteSessionResponse(e) ==
  /\ Taken(e) /\ e.t = "SGW" /\ e.op = "delete"
  /\ SessRemove(e.i)
  /\ Drop /\ Close(e.x, "answered")
  /\ UNCHANGED <<main, gx, st, pcb, mark, gxnet>>

SpgwMain ==
  \/ \E e \in {evq[1] : j \in 1..Len(evq)} :
       \/ CreateSessionRequest(e) \/ DeleteSessionRequest(e) \/ SendCcr(e)
       \/ CreditControlAnswer(e) \/ ReAuthRequest(e)
       \/ CreateSessionResponse(e) \/ DeleteSessionResponse(e)
  \/ SendCcrStore

-----------------------------------------------------------------------------
(* Gx callbacks, on freeDiameter's threads *)

Step(c, pc) == pcb' = (pcb \ {c}) \cup {[c EXCEPT !.pc = pc]}
Return(c) == pcb' = pcb \ {c}

\* A callback is started with the state it takes out.  It is overtaken when
\* another has that state in hand.
Begin(m, k, pc) ==
  /\ gxnet' = gxnet \ {m}
  /\ gx' = Without(gx, m.sid)
  /\ pcb' = pcb \cup {[m |-> m, sid |-> m.sid, k |-> k, pc |-> pc]}

InHand(sid) == Holding(sid) # {} \/ (main # Idle /\ main.sid = sid)
Overtaken(sid) ==
  mark' = [mark EXCEPT !.over = IF InHand(sid) THEN @ \cup {sid} ELSE @]

\* pgw_gx_cca_cb: the state has to be the one the request was sent with.  Else
\* the callback returns with whatever it has taken out.
CcaTake(m) ==
  /\ m.t = "CCA"
  /\ LET k == Retrieved(gx, m.sid)
     IN  IF k = m.data
         THEN Begin(m, k, "event") /\ UNCHANGED <<s11, mark>>
         ELSE /\ gxnet' = gxnet \ {m} /\ gx' = Without(gx, m.sid)
              /\ Close(st[m.data].x, "collided")
              /\ mark' = [mark EXCEPT !.over = @ \cup {m.sid}]
              /\ UNCHANGED pcb
  /\ UNCHANGED <<sessVars, evq, main, st>>

\* Mutant: an error is not passed on.
CcaSendIfOk(c) ==
  /\ c.m.t = "CCA" /\ c.pc = "event"
  /\ evq' = IF c.m.ok THEN Append(evq, CcaEvent(c.k, c.m.ok, c.m.rule)) ELSE evq
  /\ Step(c, "end")
  /\ UNCHANGED <<sessVars, main, gx, st, s11, mark, gxnet>>

CcaSend(c) ==
  /\ c.m.t = "CCA" /\ c.pc = "event"
  /\ evq' = Append(evq, CcaEvent(c.k, c.m.ok, c.m.rule))
  /\ Step(c, "end")
  /\ UNCHANGED <<sessVars, main, gx, st, s11, mark, gxnet>>

\* Mutant: the state is cleaned up after an initial answer as well.
CcaEndFree(c) ==
  /\ c.m.t = "CCA" /\ c.pc = "end"
  /\ Return(c)
  /\ st' = [st EXCEPT ![c.k].str = FALSE]
  /\ gx' = IF st[c.k].type = "T" THEN gx ELSE Stored(gx, c.sid, c.k)
  /\ UNCHANGED <<sessVars, evq, main, s11, mark, gxnet>>

CcaEnd(c) ==
  /\ c.m.t = "CCA" /\ c.pc = "end"
  /\ Return(c)
  /\ IF st[c.k].type = "T"
     THEN st' = [st EXCEPT ![c.k].str = FALSE] /\ UNCHANGED gx
     ELSE gx' = Stored(gx, c.sid, c.k) /\ UNCHANGED st
  /\ UNCHANGED <<sessVars, evq, main, s11, mark, gxnet>>

\* Mutant: the state is used without being taken out.
RarPeek(m) ==
  /\ m.t = "RAR"
  /\ LET k == Retrieved(gx, m.sid)
     IN  pcb' = pcb \cup {[m |-> m, sid |-> m.sid, k |-> k,
                           pc |-> IF k = NULL THEN "end" ELSE "event"]}
  /\ gxnet' = gxnet \ {m}
  /\ UNCHANGED <<sessVars, evq, main, gx, st, s11, mark>>

\* pgw_gx_rar_cb.  Without a state it stores the null pointer and answers
\* with an error.
RarTake(m) ==
  /\ m.t = "RAR"
  /\ LET k == Retrieved(gx, m.sid)
     IN  /\ Begin(m, k, IF k = NULL THEN "end" ELSE "event")
         /\ IF k = NULL THEN Overtaken(m.sid) ELSE UNCHANGED mark
  /\ UNCHANGED <<sessVars, evq, main, st, s11>>

RarSend(c) ==
  /\ c.m.t = "RAR" /\ c.pc = "event"
  /\ evq' = Append(evq, RarEvent(c.k, c.m.op))
  /\ Step(c, "end")
  /\ UNCHANGED <<sessVars, main, gx, st, s11, mark, gxnet>>

RarEnd(c) ==
  /\ c.m.t = "RAR" /\ c.pc = "end"
  /\ Return(c)
  /\ gx' = Stored(gx, c.sid, c.k)
  /\ gxnet' = IF Storable(gx, c.sid) THEN gxnet \cup {RAA(c.m)} ELSE gxnet
  /\ UNCHANGED <<sessVars, evq, main, st, s11, mark>>

SpgwCallbacks ==
  \/ \E m \in gxnet : CcaTake(m) \/ RarTake(m)
  \/ \E c \in pcb : CcaSend(c) \/ CcaEnd(c) \/ RarSend(c) \/ RarEnd(c)
=============================================================================
