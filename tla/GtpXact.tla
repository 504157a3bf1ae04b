------------------------------ MODULE GtpXact ------------------------------
(***************************************************************************)
(* The GTPv2-C transaction layer of lib/gtp/gtp_xact.c, as it runs on the  *)
(* two ends of S11 (the MME and the SPGW), over a network that loses,      *)
(* duplicates, reorders and delays datagrams.                              *)
(*                                                                         *)
(* Both ends execute the same code.  An end sends a request through        *)
(* gtp_xact_local_create + gtp_xact_commit, answers one through            *)
(* gtp_xact_update_tx + gtp_xact_commit (at once, later, or never), and    *)
(* retransmits or gives up when a T3 timer expires.  An expired timer only *)
(* queues an event carrying the INDEX of the transaction; gtp_xact_timeout *)
(* runs when the event loop gets to it, and looks the index up in the pool *)
(* whether or not that transaction still exists.                           *)
(*                                                                         *)
(* Slots of the pool are never cleared by index_free, so the record of a   *)
(* deleted transaction stays readable: the model keeps it too.             *)
(***************************************************************************)
EXTENDS Integers, Sequences

CONSTANTS
    Mme, Spgw,                  \* the two ends of S11
    PoolSize,                   \* SIZE_OF_GTP_XACT_POOL
    MAX_XACT_ID,                \* GTP_MAX_XACT_ID; its bit is set in no smaller xid
    T3_RESPONSE_DURATION,       \* ticks
    T3_RESPONSE_RETRY_COUNT,
    T3_DUPLICATED_DURATION,     \* ticks
    T3_DUPLICATED_RETRY_COUNT,
    MaxDelay,                   \* bound: ticks a datagram may stay in the network
    MaxRequests,                \* bound: requests each end originates
    MaxAllocations              \* bound: transactions each end allocates

Peers == {Mme, Spgw}

Index == 1..PoolSize

ASSUME ConstantsAssumption ==
    /\ Mme # Spgw
    /\ PoolSize \in Nat \ {0}
    /\ MAX_XACT_ID \in Nat \ {0}
    /\ T3_RESPONSE_DURATION \in Nat \ {0}
    /\ T3_DUPLICATED_DURATION \in Nat \ {0}
    /\ T3_RESPONSE_RETRY_COUNT \in 1..255
    /\ T3_DUPLICATED_RETRY_COUNT \in 1..255
    /\ MaxDelay \in Nat
    /\ MaxRequests \in [Peers -> Nat]
    /\ MaxAllocations \in Nat

\* Message types, by the stage gtp_xact_get_stage derives from them: session
\* requests and downlink data notifications always open a transaction, bearer
\* requests open one or continue one depending on the xid, responses end one.
SessionReq == "session request"
BearerReq == "bearer request"
Response == "response"
NoType == "none"

Requests == {SessionReq, BearerReq}
Types == Requests \cup {Response}

Local == "LOCAL"
Remote == "REMOTE"

ResponseTimer == "T3-RESPONSE"
HoldingTimer == "T3-HOLDING"
TimerKinds == {ResponseTimer, HoldingTimer}

\* The requests each end originates are numbered.
RequestId == Peers \X Nat
AllRequests == UNION {{p} \X (1..MaxRequests[p]) : p \in Peers}
NoPacket == <<>>

VARIABLES
    xact,       \* gtp_xact_pool.node_pool: [Peers -> [Index -> transaction]]
    avail,      \* its ring of free indices, oldest first
    g_xact_id,  \* last xid given out
    timers,     \* running timers of the two timers services
    pending,    \* queued timeout events, oldest first
    net,        \* datagrams in flight
    deferred,   \* accepted requests the application answers later
    serial,     \* ghost: number of transactions each end has allocated
    made,       \* ghost: number of requests each end has originated
    handled,    \* ghost: times each request was handed to the application
    answered    \* ghost: requests whose transaction accepted a response

vars == <<xact, avail, g_xact_id, timers, pending, net, deferred, serial,
          made, handled, answered>>

pool == <<xact, avail, serial>>
ghosts == <<made, handled, answered>>

Other(p) == IF p = Mme THEN Spgw ELSE Mme

-----------------------------------------------------------------------------
(***************************************************************************)
(* State.  live is the negation of is_free; a saved packet is represented  *)
(* by the request it carries or answers; serial is a ghost.                *)
(***************************************************************************)
Step == 0..3
Byte == 0..255
SavedTypes == [1..3 -> Types \cup {NoType}]
SavedPackets == [1..3 -> RequestId \cup {NoPacket}]

Transaction ==
    [live : BOOLEAN, org : {Local, Remote}, xid : Nat, step : Step,
     type : SavedTypes, pkbuf : SavedPackets,
     response_rcount : Byte, holding_rcount : Byte, serial : Nat]

Timer == [kind : TimerKinds, index : Index, serial : Nat, left : Nat]

Event == [kind : TimerKinds, index : Index, serial : Nat]

Datagram == [to : Peers, type : Types, xid : Nat, request : RequestId, age : Nat]

\* A transaction as index_alloc (which zeroes it) and timer creation leave it.
NewXact(p, org, xid) ==
    [live |-> TRUE, org |-> org, xid |-> xid, step |-> 0,
     type |-> [s \in 1..3 |-> NoType], pkbuf |-> [s \in 1..3 |-> NoPacket],
     response_rcount |-> T3_RESPONSE_RETRY_COUNT,
     holding_rcount |-> T3_DUPLICATED_RETRY_COUNT, serial |-> serial[p] + 1]

\* A slot of the zero-initialised pool that was never allocated.
NoXact ==
    [live |-> FALSE, org |-> Local, xid |-> 0, step |-> 0,
     type |-> [s \in 1..3 |-> NoType], pkbuf |-> [s \in 1..3 |-> NoPacket],
     response_rcount |-> 0, holding_rcount |-> 0, serial |-> 0]

Init ==
    /\ xact = [p \in Peers |-> [i \in Index |-> NoXact]]
    /\ avail = [p \in Peers |-> [i \in Index |-> i]]
    /\ g_xact_id = [p \in Peers |-> 0]
    /\ timers = [p \in Peers |-> {}]
    /\ pending = [p \in Peers |-> <<>>]
    /\ net = {}
    /\ deferred = [p \in Peers |-> {}]
    /\ serial = [p \in Peers |-> 0]
    /\ made = [p \in Peers |-> 0]
    /\ handled = [r \in AllRequests |-> 0]
    /\ answered = {}

-----------------------------------------------------------------------------
(***************************************************************************)
(* Helpers.                                                                *)
(***************************************************************************)
NEXT_ID(id) == IF id = MAX_XACT_ID THEN 1 ELSE id + 1

HasMaxBit(xid) == xid = MAX_XACT_ID

gtp_xact_get_stage(type, xid) ==
    CASE type = SessionReq -> "INITIAL"
      [] type = BearerReq -> IF HasMaxBit(xid) THEN "INTERMEDIATE" ELSE "INITIAL"
      [] type = Response -> "FINAL"

\* Mutation: the duplicate-holding time is a single T3-RESPONSE period.
DurationShort(kind) == T3_RESPONSE_DURATION

Duration(kind) ==
    IF kind = ResponseTimer THEN T3_RESPONSE_DURATION ELSE T3_DUPLICATED_DURATION

\* The timers of transaction x (stored in slot i) among the running timers ts.
OwnTimers(ts, i, x) == {t \in ts : t.index = i /\ t.serial = x.serial}


tm_stop(ts, kind, i, x) == {t \in ts : ~(t \in OwnTimers(ts, i, x) /\ t.kind = kind)}

tm_start(ts, kind, i, x) ==
    tm_stop(ts, kind, i, x) \cup
        {[kind |-> kind, index |-> i, serial |-> x.serial, left |-> Duration(kind)]}

\* The packet x saved at a step, put on the wire by p.
Packet(p, x, step) ==
    [to |-> Other(p), type |-> x.type[step], xid |-> x.xid,
     request |-> x.pkbuf[step], age |-> 0]

\* gtp_send puts the datagram among those that may still arrive.  Arriving
\* does not remove it (the network duplicates), ageing does (see Tick): one
\* that ages without arriving was lost, or refused by the socket.
gtp_send(p, x, step) == net' = net \cup {Packet(p, x, step)}

\* Effect of a successful gtp_xact_update_tx / gtp_xact_update_rx on x.
SavedTx(x, type, request) ==
    [x EXCEPT !.type = [@ EXCEPT ![x.step + 1] = type],
              !.pkbuf = [@ EXCEPT ![x.step + 1] = request],
              !.step = @ + 1]

SavedRx(x, type) ==
    [x EXCEPT !.type = [@ EXCEPT ![x.step + 1] = type], !.step = @ + 1]

\* The step gtp_xact_update_tx demands of x for a message of this type.
TxAllowed(x, type) ==
    LET stage == gtp_xact_get_stage(type, x.xid) IN
    \/ x.org = Local /\ stage = "INITIAL" /\ x.step = 0
    \/ x.org = Local /\ stage = "FINAL" /\ x.step = 2
    \/ x.org = Remote /\ stage \in {"INTERMEDIATE", "FINAL"} /\ x.step = 1

\* gtp_xact_update_rx: the message repeats the one that x recorded ...
RxRepeats(x, type) ==
    LET stage == gtp_xact_get_stage(type, x.xid) IN
    \/ x.org = Local /\ stage = "INTERMEDIATE" /\ x.type[2] = type /\ x.step \in {2, 3}
    \/ x.org = Remote /\ stage = "INITIAL" /\ x.type[1] = type /\ x.step \in {1, 2}

\* ... or is the next one x expects.
RxExpected(x, type) ==
    LET stage == gtp_xact_get_stage(type, x.xid) IN
    \/ x.org = Local /\ stage = "INTERMEDIATE" /\ x.type[2] # type /\ x.step = 1
    \/ x.org = Local /\ stage = "FINAL" /\ x.step = 1
    \/ x.org = Remote /\ stage = "INITIAL" /\ x.type[1] # type /\ x.step = 0
    \/ x.org = Remote /\ stage = "FINAL" /\ x.step = 2

\* Mutation: responses are looked for among the transactions of the other end.
ListSearchedSwapped(type, xid) ==
    IF gtp_xact_get_stage(type, xid) = "INTERMEDIATE" THEN Local ELSE Remote

\* The list gtp_xact_find_by_xid searches: transactions are appended to the
\* list of their originator, so list order is the order of serial.
ListSearched(type, xid) ==
    CASE gtp_xact_get_stage(type, xid) = "INITIAL" -> Remote
      [] gtp_xact_get_stage(type, xid) = "INTERMEDIATE" -> Local
      [] gtp_xact_get_stage(type, xid) = "FINAL" ->
            IF HasMaxBit(xid) THEN Remote ELSE Local

\* Mutation: the search compares the originator only.
MatchingAnyXid(p, type, xid) ==
    {i \in Index : xact[p][i].live /\ xact[p][i].org = ListSearched(type, xid)}

Matching(p, type, xid) ==
    {i \in Index : /\ xact[p][i].live
                   /\ xact[p][i].org = ListSearched(type, xid)
                   /\ xact[p][i].xid = xid}

\* The first match in the list.
gtp_xact_find_by_xid(p, type, xid) ==
    {i \in Matching(p, type, xid) :
        \A j \in Matching(p, type, xid) : xact[p][i].serial <= xact[p][j].serial}

-----------------------------------------------------------------------------
\* Mutation: index_free without its is_free test.
gtp_xact_deleteUnguarded(p, i, x, ts) ==
    /\ xact' = [xact EXCEPT ![p][i] = [x EXCEPT !.live = FALSE]]
    /\ avail' = [avail EXCEPT ![p] = Append(@, i)]
    /\ timers' = [timers EXCEPT ![p] = ts \ OwnTimers(ts, i, x)]

(***************************************************************************)
(* gtp_xact_delete of slot i of p, whose record is x and whose service's   *)
(* running timers are ts.  index_free ignores a slot that is already free. *)
(***************************************************************************)
gtp_xact_delete(p, i, x, ts) ==
    /\ xact' = [xact EXCEPT ![p][i] = [x EXCEPT !.live = FALSE]]
    /\ avail' = [avail EXCEPT ![p] = IF x.live THEN Append(@, i) ELSE @]
    /\ timers' = [timers EXCEPT ![p] = ts \ OwnTimers(ts, i, x)]

(***************************************************************************)
(* Originating a request: gtp_xact_local_create, then gtp_xact_commit.     *)
(* When the pool is empty nothing happens (and the caller drops the        *)
(* request).  When gtp_xact_update_tx rejects the message the transaction  *)
(* stays in the list.                                                      *)
(***************************************************************************)
SendRequest(p, type) ==
    /\ made[p] < MaxRequests[p]
    /\ made' = [made EXCEPT ![p] = @ + 1]
    /\ UNCHANGED <<pending, deferred, handled, answered>>
    /\ \/ /\ avail[p] = <<>>
          /\ UNCHANGED <<pool, g_xact_id, timers, net>>
       \/ /\ avail[p] # <<>>
          /\ serial[p] < MaxAllocations
          /\ LET i == Head(avail[p])
                 xid == NEXT_ID(g_xact_id[p])
                 x == NewXact(p, Local, xid)
             IN /\ avail' = [avail EXCEPT ![p] = Tail(@)]
                /\ serial' = [serial EXCEPT ![p] = @ + 1]
                /\ g_xact_id' = [g_xact_id EXCEPT ![p] = xid]
                /\ \/ /\ TxAllowed(x, type)
                      /\ LET y == SavedTx(x, type, <<p, made[p] + 1>>)
                         IN /\ xact' = [xact EXCEPT ![p][i] = y]
                            /\ timers' = [timers EXCEPT
                                            ![p] = tm_start(@, ResponseTimer, i, y)]
                            /\ gtp_send(p, y, 1)
                   \/ /\ ~TxAllowed(x, type)
                      /\ xact' = [xact EXCEPT ![p][i] = x]
                      /\ UNCHANGED <<timers, net>>

(***************************************************************************)
(* Receiving a datagram d: gtp_xact_receive finds the transaction or       *)
(* creates a Remote one, gtp_xact_update_rx judges the message, and the    *)
(* actions below are its results.                                          *)
(***************************************************************************)
Found(p, d) == Matching(p, d.type, d.xid) # {}

\* The slot gtp_xact_receive works on, as a set of at most one index.
Slot(p, d) ==
    IF Found(p, d) THEN gtp_xact_find_by_xid(p, d.type, d.xid)
    ELSE IF avail[p] # <<>> THEN {Head(avail[p])} ELSE {}

Received(p, d, i) ==
    IF Found(p, d) THEN xact[p][i] ELSE NewXact(p, Remote, d.xid)

Allocate(p, d) ==
    /\ Found(p, d) \/ serial[p] < MaxAllocations
    /\ serial' = [serial EXCEPT ![p] = IF Found(p, d) THEN @ ELSE @ + 1]
    /\ avail' = [avail EXCEPT ![p] = IF Found(p, d) THEN @ ELSE Tail(@)]

\* An expected request: the holding timer starts, T3-RESPONSE stops, and the
\* application answers at once or later (a handler that returns early, or waits
\* for something that never comes, defers the answer and never gives it).
ReceiveRequest(p, d, i) ==
    LET x == SavedRx(Received(p, d, i), d.type)
        y == SavedTx(x, Response, d.request)
    IN /\ d.type \in Requests
       /\ RxExpected(Received(p, d, i), d.type)
       /\ Allocate(p, d)
       /\ timers' = [timers EXCEPT ![p] =
                        tm_stop(tm_start(@, HoldingTimer, i, x), ResponseTimer, i, x)]
       /\ handled' = [handled EXCEPT ![d.request] = @ + 1]
       /\ \/ /\ xact' = [xact EXCEPT ![p][i] = y]
             /\ gtp_send(p, y, y.step)
             /\ UNCHANGED deferred
          \/ /\ xact' = [xact EXCEPT ![p][i] = x]
             /\ deferred' = [deferred EXCEPT
                                ![p] = @ \cup {[index |-> i, request |-> d.request]}]
             /\ UNCHANGED net
       /\ UNCHANGED <<g_xact_id, pending, made, answered>>

\* An expected response: the application's handler commits, which ends the
\* transaction.
ReceiveResponse(p, d, i) ==
    LET x == SavedRx(Received(p, d, i), d.type)
    IN /\ d.type = Response
       /\ Found(p, d)
       /\ RxExpected(Received(p, d, i), d.type)
       /\ gtp_xact_delete(p, i, x, timers[p])
       /\ answered' = answered \cup ({x.pkbuf[1]} \ {NoPacket})
       /\ UNCHANGED <<g_xact_id, pending, net, deferred, serial, made, handled>>

\* A repeated request: answered again from the saved response, or discarded
\* while there is none.
ReceiveDuplicate(p, d, i) ==
    LET x == Received(p, d, i)
        reply == IF x.org = Remote THEN 2 ELSE 3
    IN /\ Found(p, d)
       /\ RxRepeats(x, d.type)
       /\ \/ /\ x.pkbuf[reply] # NoPacket
             /\ timers' = [timers EXCEPT ![p] = tm_start(@, HoldingTimer, i, x)]
             /\ gtp_send(p, x, reply)
          \/ /\ x.pkbuf[reply] = NoPacket
             /\ UNCHANGED <<net, timers>>
       /\ UNCHANGED <<pool, g_xact_id, pending, deferred, ghosts>>

\* Any other message fails an assertion of gtp_xact_update_rx; a transaction
\* created for it stays in the list.
ReceiveInvalid(p, d, i) ==
    LET x == Received(p, d, i)
    IN /\ ~RxExpected(x, d.type)
       /\ ~RxRepeats(x, d.type)
       /\ Allocate(p, d)
       /\ xact' = [xact EXCEPT ![p][i] = x]
       /\ UNCHANGED <<g_xact_id, timers, pending, net, deferred, ghosts>>

\* No transaction matches and the pool is empty.
ReceiveNoSlot(p, d) ==
    /\ Slot(p, d) = {}
    /\ UNCHANGED <<pool, g_xact_id, timers, pending, net, deferred, ghosts>>

Receive(p, d) ==
    /\ d.to = p
    /\ \/ \E i \in Slot(p, d) :
             \/ ReceiveRequest(p, d, i)
             \/ ReceiveResponse(p, d, i)
             \/ ReceiveDuplicate(p, d, i)
             \/ ReceiveInvalid(p, d, i)
       \/ ReceiveNoSlot(p, d)

\* The application answers a request it deferred.  It kept the transaction's
\* index (or pointer), and uses whatever the slot holds by now.
AnswerDeferred(p, r) ==
    LET x == xact[p][r.index]
        y == SavedTx(x, Response, r.request)
    IN /\ r \in deferred[p]
       /\ deferred' = [deferred EXCEPT ![p] = @ \ {r}]
       /\ \/ /\ TxAllowed(x, Response)
             /\ xact' = [xact EXCEPT ![p][r.index] = y]
             /\ gtp_send(p, y, y.step)
          \/ /\ ~TxAllowed(x, Response)
             /\ UNCHANGED <<xact, net>>
       /\ UNCHANGED <<avail, serial, g_xact_id, timers, pending, ghosts>>

\* tm_execute_tm_service: an expired timer leaves the active list and its
\* expiry function queues an event with the index of the transaction.
Expire(p, t) ==
    /\ t \in timers[p]
    /\ t.left = 0
    /\ timers' = [timers EXCEPT ![p] = @ \ {t}]
    /\ pending' = [pending EXCEPT ![p] =
          Append(@, [kind |-> t.kind, index |-> t.index, serial |-> t.serial])]
    /\ UNCHANGED <<pool, g_xact_id, net, deferred, ghosts>>

\* seq[step - 1].pkbuf; with step = 0 the read falls on the zeroed step field.
CurrentPacket(x) == IF x.step = 0 THEN NoPacket ELSE x.pkbuf[x.step]


\* The counters are unsigned bytes.
Decrement(rcount) == (rcount - 1) % 256

\* gtp_xact_timeout for T3-RESPONSE: retransmit while the count lasts.  The
\* timer restarts before the saved packet is looked at; a packet the socket
\* refuses ends the transaction.
ResponseTimeout(p, i, x) ==
    \/ /\ x.response_rcount > 0
       /\ LET ts == tm_start(timers[p], ResponseTimer, i, x)
          IN \/ /\ CurrentPacket(x) = NoPacket
                /\ xact' = [xact EXCEPT ![p][i] = x]
                /\ timers' = [timers EXCEPT ![p] = ts]
                /\ UNCHANGED <<avail, net>>
             \/ /\ CurrentPacket(x) # NoPacket
                /\ xact' = [xact EXCEPT ![p][i] = x]
                /\ timers' = [timers EXCEPT ![p] = ts]
                /\ gtp_send(p, x, x.step)
                /\ UNCHANGED avail
             \/ /\ CurrentPacket(x) # NoPacket
                /\ gtp_xact_delete(p, i, x, ts)
                /\ UNCHANGED net
    \/ /\ x.response_rcount = 0
       /\ gtp_xact_delete(p, i, x, timers[p])
       /\ UNCHANGED net

\* gtp_xact_timeout for T3-HOLDING.
HoldingTimeout(p, i, x) ==
    /\ \/ /\ x.holding_rcount > 0
          /\ xact' = [xact EXCEPT ![p][i] = x]
          /\ timers' = [timers EXCEPT ![p] = tm_start(@, HoldingTimer, i, x)]
          /\ UNCHANGED avail
       \/ /\ x.holding_rcount = 0
          /\ gtp_xact_delete(p, i, x, timers[p])
    /\ UNCHANGED net

\* The event loop dispatches the oldest timeout event.
Timeout(p) ==
    /\ pending[p] # <<>>
    /\ pending' = [pending EXCEPT ![p] = Tail(@)]
    /\ LET e == Head(pending[p])
           x == xact[p][e.index]
       IN \/ /\ e.kind = ResponseTimer
             /\ ResponseTimeout(p, e.index,
                    [x EXCEPT !.response_rcount = Decrement(@)])
          \/ /\ e.kind = HoldingTimer
             /\ HoldingTimeout(p, e.index,
                    [x EXCEPT !.holding_rcount = Decrement(@)])
    /\ UNCHANGED <<serial, g_xact_id, deferred, ghosts>>

\* Mutation: time passes over timers that are due.
TickOverdue ==
    /\ \A p \in Peers : pending[p] = <<>>
    /\ timers' = [p \in Peers |-> {[t EXCEPT !.left = @ - 1] : t \in timers[p]}]
    /\ net' = {[d EXCEPT !.age = @ + 1] : d \in {e \in net : e.age < MaxDelay}}
    /\ UNCHANGED <<pool, g_xact_id, pending, deferred, ghosts>>

\* A tick of time.  The event loops run every 50 ms, far more often than a
\* timer expires, so no expired timer or queued event outlives the tick; a
\* datagram older than MaxDelay has been lost.
Tick ==
    /\ \A p \in Peers : pending[p] = <<>> /\ \A t \in timers[p] : t.left > 0
    /\ timers' = [p \in Peers |-> {[t EXCEPT !.left = @ - 1] : t \in timers[p]}]
    /\ net' = {[d EXCEPT !.age = @ + 1] : d \in {e \in net : e.age < MaxDelay}}
    /\ UNCHANGED <<pool, g_xact_id, pending, deferred, ghosts>>

\* The requests each end of S11 originates.
Originates(p) == IF p = Mme THEN {SessionReq} ELSE Requests

Next ==
    \/ \E p \in Peers :
          \/ \E type \in Originates(p) : SendRequest(p, type)
          \/ \E d \in net : Receive(p, d)
          \/ \E r \in deferred[p] : AnswerDeferred(p, r)
          \/ \E t \in timers[p] : Expire(p, t)
          \/ Timeout(p)
    \/ Tick

Spec == Init /\ [][Next]_vars

\* The clock advances, the event loop runs the timer service and drains its
\* queue; nothing is assumed of the network or of the application.
Fairness ==
    /\ WF_vars(Tick)
    /\ \A p \in Peers :
          /\ WF_vars(\E t \in timers[p] : Expire(p, t))
          /\ WF_vars(Timeout(p))

FairSpec == Spec /\ Fairness

-----------------------------------------------------------------------------
\* Every variable holds what its declaration in the code can hold: counters
\* stay within their bytes, timers never run below zero.
TypeOK ==
    /\ xact \in [Peers -> [Index -> Transaction]]
    /\ avail \in [Peers -> Seq(Index)]
    /\ g_xact_id \in [Peers -> 0..MAX_XACT_ID]
    /\ timers \in [Peers -> SUBSET Timer]
    /\ pending \in [Peers -> Seq(Event)]
    /\ net \in SUBSET Datagram
    /\ deferred \in [Peers -> SUBSET [index : Index, request : RequestId]]
    /\ serial \in [Peers -> Nat]
    /\ made \in [Peers -> Nat]
    /\ handled \in [AllRequests -> Nat]
    /\ answered \in SUBSET RequestId

\* The ring of free indices and the transactions in use partition the pool: no
\* index is offered twice, whatever late timeout deletes a transaction again
\* (index_free's is_free test).
PoolPartition ==
    \A p \in Peers :
        /\ \A i, j \in 1..Len(avail[p]) : avail[p][i] = avail[p][j] => i = j
        /\ \A i \in Index : xact[p][i].live <=> \A j \in 1..Len(avail[p]) : avail[p][j] # i

\* A request reaches the application of the other end at most once, although it
\* is retransmitted and duplicated: the holding time outlasts the last copy.
AtMostOnce ==
    \A r \in AllRequests : handled[r] <= 1


Outstanding(p, n) ==
    \E i \in Index : xact[p][i].live /\ xact[p][i].org = Local /\ xact[p][i].pkbuf[1] = <<p, n>>


-----------------------------------------------------------------------------
(***************************************************************************)
(* The transaction layer implements RequestService.                        *)
(***************************************************************************)
Service == INSTANCE RequestService WITH
    Request <- AllRequests,
    sent <- {r \in AllRequests : r[2] <= made[r[1]]},
    open <- {r \in AllRequests : Outstanding(r[1], r[2])},
    handled <- handled,
    answered <- answered

\* Seen through the requests it carries, gtp_xact.c behaves like the service.
ImplementsService == Service!Spec

=============================================================================
