------------------------------ MODULE GxSystem ------------------------------
(***************************************************************************)
(* The SPGW and the PCRF together, with an MME that asks for sessions and  *)
(* a P-CSCF that asks for media on them.                                   *)
(***************************************************************************)
EXTENDS Spgw, Pcrf

CONSTANT Settings   \* what surrounds the two in a behaviour: a set of records
\*   pool      session slots
\*   reqs      requests the MME may make for each subscriber
\*   restarts  the MME may forget a session and ask for it again
\*   refusable CCRs the subscription database may have no data for
\*   rule      the profile has a rule with flows
\*   media     media the P-CSCF asks for

VARIABLE env        \* the setting chosen

vars == <<gxnet, spgwVars, pcrfVars, env>>

Requests(u) == {x \in DOMAIN s11 : s11[x].ue = u}
Waiting(u) == \E x \in Requests(u) : s11[x].st = "sent"
Latest(u) == s11[Max(Requests(u))]
Up(u) == Requests(u) # {} /\ Latest(u).op = "create" /\ Latest(u).st = "answered"

\* The MME has one request for a subscriber under way.
MmeCreate(u) ==
  /\ ~Waiting(u) /\ (Up(u) => env.restarts)
  /\ Cardinality(Requests(u)) < env.reqs[u]
  /\ S11Request(u, "create")
  /\ UNCHANGED <<gxnet, pcrfVars, env>>

MmeDelete(u) ==
  /\ ~Waiting(u) /\ Up(u)
  /\ Cardinality(Requests(u)) < env.reqs[u]
  /\ S11Request(u, "delete")
  /\ UNCHANGED <<gxnet, pcrfVars, env>>

Af ==
  /\ \/ \E rx \in RxSids, a \in Addrs, media \in env.media :
          AfAsk(rx, a, media)
     \/ \E rx \in RxSids : AfClose(rx)
  /\ UNCHANGED <<spgwVars, env>>

AfHears == (\E m \in rxnet : AfAnswer(m)) /\ UNCHANGED <<spgwVars, env>>
MainThread == SpgwMain /\ UNCHANGED <<pcrfVars, env>>
PgwThreads == SpgwCallbacks /\ UNCHANGED <<pcrfVars, env>>
PcrfThreads == PcrfNext(env.refusable, env.rule) /\ UNCHANGED <<spgwVars, env>>

Init == env \in Settings /\ gxnet = {} /\ SpgwInit(env.pool) /\ PcrfInit

System == MainThread \/ PgwThreads \/ PcrfThreads \/ AfHears
Next == (\E u \in Ue : MmeCreate(u) \/ MmeDelete(u)) \/ Af \/ System

Spec == Init /\ [][Next]_vars

-----------------------------------------------------------------------------
(* Properties *)

\* Every pointer of a table leads to a context that was made, and a session in
\* use has a subscriber and an address.
TypeOK ==
  /\ \A i \in Slots : sess[i].live => sess[i].ue \in Ue /\ sess[i].addr \in Addrs
  /\ gx \in [Sids -> DOMAIN st \cup {NULL, NoEntry}]
  /\ pgx \in [Sids -> DOMAIN gst \cup {NoEntry}]
  /\ prx \in [RxSids -> DOMAIN rst \cup {NoEntry}]
  /\ ip_hash \in [Addrs -> DOMAIN gst \cup {NULL}]

Times(ring, v) == Cardinality({j \in DOMAIN ring : ring[j] = v})

\* An address is in the pool once or belongs to one session, and a session
\* slot is free once or in use, whatever order the answers of the PCRF, the
\* requests of the MME and the failures come in (pgw_ue_ip_alloc and _free,
\* spgw_sess_add, spgw_sess_remove).
PoolsPartition ==
  /\ TypeOK
  /\ \A a \in Addrs :
       Times(ipfree, a) + Cardinality({i \in Slots : sess[i].live /\ sess[i].addr = a}) = 1
  /\ \A i \in Slots : Times(sfree, i) = IF sess[i].live \/ i > env.pool THEN 0 ELSE 1

\* The two ways to a session agree: a subscriber has at most one, and the
\* IMSI+APN table and the subscriber's list lead to the same one, in use and
\* theirs.  spgw_sess_remove clears the table entry without looking whose it
\* is (spgw_context.c:1127).
SessionTables ==
  \A u \in Ue : /\ shash[u] = SessFind(u)
                /\ Len(slist[u]) <= 1
                /\ shash[u] # NULL => sess[shash[u]].live /\ sess[shash[u]].ue = u

\* Session-Ids whose state was wanted by one thread while another had it out.
Raced == mark.over \cup pmark.over

\* A rule of the PCRF is bound to the session it was made for and never to a
\* session that has its slot now, though the event carries only the slot's
\* index (spgw_sm.c:288).  Exceptions: the state was contended, or the MME had
\* asked for the session anew.
RulesReachTheirSession == mark.stray \subseteq mark.over \cup mark.old

\* sess->gx_sid, which is the string of the Gx state, is freed and read only
\* while it is allocated (pgw_fd_path.c:87, :99), but for a termination that
\* the PCRF refused: its answer frees the string and leaves the session.
GxSidOwned == mark.badfree \subseteq pmark.refused

\* Once the MME has been told of a session, the address table of the PCRF
\* names that session: a late cleanup of the address's former owner does not
\* take the entry away (the answer to a termination is sent after the
\* cleanup, pcrf_gx_path.c:596).  And it leads to no freed Session-Id
\* (pcrf_gx_path.c:180).  Both also when threads contended for the state.
TableNamesOwner ==
  /\ \A a \in Addrs : ip_hash[a] # NULL => gst[ip_hash[a]].str
  /\ \A u \in Ue : Up(u) =>
       LET s == sess[SessFind(u)]
           k == ip_hash[s.addr]
       IN  k # NULL /\ gst[k].sid = st[s.gx].sid

\* Nothing is under way; an abort the P-CSCF has not looked at may be left.
Quiet == /\ gxnet = {} /\ evq = <<>> /\ main = Idle /\ pcb = {} /\ run = {}
         /\ \A m \in rxnet : m.t = "ASR"

\* At rest the SPGW has a session for a Session-Id exactly when the PCRF has a
\* state for it.  Exceptions: contended, asked for anew, termination refused.
AgreeAtRest ==
  Quiet => \A s \in Sids \ (Raced \cup mark.old \cup pmark.refused) :
    (pgx[s] # NoEntry) <=>
      \E i \in Slots : sess[i].live /\ sess[i].gx # NULL /\ st[sess[i].gx].sid = s


\* At rest no S11 request is waiting, and one that got no answer has a cause:
\* no resources, an error of the PCRF, or a Gx state that was out when it was
\* wanted (the assertions of pgw_gx_send_ccr and pgw_gx_cca_cb).
NoRequestLeft ==
  Quiet => \A x \in DOMAIN s11 :
    /\ s11[x].st # "sent"
    /\ s11[x].st = "collided" =>
         \E k \in DOMAIN st : /\ sess[st[k].i].ue = s11[x].ue
                              /\ st[k].sid \in mark.over

=============================================================================
