--------------------------- MODULE GtpXactProofs ---------------------------
(***************************************************************************)
(* Theorems about the transaction layer, for every pool size, every timing *)
(* and every number of requests.                                           *)
(***************************************************************************)
EXTENDS GtpXact, TLAPS

\* A saved packet has the type of the message it carries.  gtp_xact_update_tx
\* stores the two together; retransmission relies on it.
PacketHasType ==
    \A p \in Peers : \A i \in Index : \A s \in 1..3 :
        xact[p][i].pkbuf[s] # NoPacket => xact[p][i].type[s] # NoType

\* The inductive invariant.
IInv == TypeOK /\ PacketHasType /\ PoolPartition

-----------------------------------------------------------------------------
\* The helpers that build transactions keep them well typed.
HasTypes(x) == x \in Transaction /\ \A s \in 1..3 : x.pkbuf[s] # NoPacket => x.type[s] # NoType

LEMMA NewXactType ==
    ASSUME TypeOK, NEW p \in Peers, NEW org \in {Local, Remote}, NEW xid \in Nat
    PROVE  HasTypes(NewXact(p, org, xid))
BY ConstantsAssumption DEF TypeOK, NewXact, HasTypes, Transaction, Step, Byte, SavedTypes,
                           SavedPackets, NoType, NoPacket, Types, Requests

LEMMA XactFields ==
    ASSUME NEW x, HasTypes(x)
    PROVE  /\ x \in Transaction
           /\ x.live \in BOOLEAN
           /\ x.xid \in Nat
           /\ x.serial \in Nat
           /\ x.step \in 0..3
           /\ x.type \in [1..3 -> Types \cup {NoType}]
           /\ x.pkbuf \in [1..3 -> RequestId \cup {NoPacket}]
           /\ x.response_rcount \in 0..255
           /\ x.holding_rcount \in 0..255
<1>1. x \in Transaction
  BY DEF HasTypes
<1>2. /\ x.live \in BOOLEAN /\ x.xid \in Nat /\ x.serial \in Nat /\ x.step \in Step
      /\ x.type \in SavedTypes /\ x.pkbuf \in SavedPackets
      /\ x.response_rcount \in Byte /\ x.holding_rcount \in Byte
  BY <1>1 DEF Transaction
<1> QED BY <1>1, <1>2 DEF Step, Byte, SavedTypes, SavedPackets

LEMMA SavedRxType ==
    ASSUME NEW x, HasTypes(x), x.step \in 0..2, NEW type \in Types
    PROVE  HasTypes(SavedRx(x, type))
<1> DEFINE y == SavedRx(x, type)
           t == [x.type EXCEPT ![x.step + 1] = type]
<1>1. x \in Transaction /\ x.type \in SavedTypes
  BY DEF HasTypes, Transaction
<1>2. t \in SavedTypes /\ x.step + 1 \in Step
  BY <1>1 DEF SavedTypes, Step
<1>3. y = [x EXCEPT !.type = t, !.step = x.step + 1]
  BY <1>1 DEF SavedRx, Transaction
<1> HIDE DEF y, t
<1>4. y \in Transaction /\ y.type = t /\ y.pkbuf = x.pkbuf
  BY <1>1, <1>2, <1>3, Zenon DEF Transaction
<1>5. type # NoType
  BY Zenon DEF Types, Requests, NoType, SessionReq, BearerReq, Response
<1>6. \A s \in 1..3 : t[s] = IF s = x.step + 1 THEN type ELSE x.type[s]
  BY <1>1 DEF t, SavedTypes
<1>7. HasTypes(y)
  BY <1>4, <1>5, <1>6 DEF HasTypes
<1> QED BY <1>7 DEF y

LEMMA SavedTxType ==
    ASSUME NEW x, HasTypes(x), x.step \in 0..2, NEW type \in Types, NEW r \in RequestId
    PROVE  HasTypes(SavedTx(x, type, r))
<1> DEFINE y == SavedTx(x, type, r)
           t == [x.type EXCEPT ![x.step + 1] = type]
           k == [x.pkbuf EXCEPT ![x.step + 1] = r]
<1>1. x \in Transaction /\ x.type \in SavedTypes /\ x.pkbuf \in SavedPackets
  BY DEF HasTypes, Transaction
<1>2. t \in SavedTypes /\ k \in SavedPackets /\ x.step + 1 \in Step
  BY <1>1 DEF SavedTypes, SavedPackets, Step
<1>3. y = [x EXCEPT !.type = t, !.pkbuf = k, !.step = x.step + 1]
  BY <1>1 DEF SavedTx, Transaction
<1> HIDE DEF y, t, k
<1>4. y \in Transaction /\ y.type = t /\ y.pkbuf = k
  BY <1>1, <1>2, <1>3, Zenon DEF Transaction
<1>5. type # NoType
  BY Zenon DEF Types, Requests, NoType, SessionReq, BearerReq, Response
<1>6. \A s \in 1..3 : t[s] = IF s = x.step + 1 THEN type ELSE x.type[s]
  BY <1>1 DEF t, SavedTypes
<1>7. \A s \in 1..3 : k[s] = IF s = x.step + 1 THEN r ELSE x.pkbuf[s]
  BY <1>1 DEF k, SavedPackets
<1>8. HasTypes(y)
  BY <1>4, <1>5, <1>6, <1>7 DEF HasTypes
<1> QED BY <1>8 DEF y

LEMMA RequestIsPacket == \A r \in RequestId : r # NoPacket
BY DEF RequestId, NoPacket

LEMMA SavedTxFields ==
    ASSUME NEW x, HasTypes(x), x.step \in 0..2, NEW type \in Types, NEW r \in RequestId
    PROVE  LET y == SavedTx(x, type, r)
           IN /\ y.live = x.live
              /\ y.serial = x.serial
              /\ y.step = x.step + 1
              /\ y.pkbuf[y.step] = r
              /\ y.pkbuf[y.step] # NoPacket
<1> DEFINE y == SavedTx(x, type, r)
<1>1. y.live = x.live /\ y.serial = x.serial /\ y.step = x.step + 1
      /\ y.pkbuf = [x.pkbuf EXCEPT ![x.step + 1] = r]
  BY DEF SavedTx, HasTypes, Transaction
<1>2. x.pkbuf \in [1..3 -> RequestId \cup {NoPacket}] /\ x.step + 1 \in 1..3
  BY XactFields
<1> HIDE DEF y
<1>3. y.pkbuf[y.step] = r
  BY <1>1, <1>2
<1>4. r # NoPacket
  BY RequestIsPacket
<1> QED BY <1>1, <1>3, <1>4 DEF y

LEMMA SavedRxFields ==
    ASSUME NEW x, HasTypes(x), x.step \in 0..2, NEW type \in Types
    PROVE  LET y == SavedRx(x, type)
           IN /\ y.live = x.live
              /\ y.serial = x.serial
              /\ y.step = x.step + 1
              /\ y.pkbuf = x.pkbuf
BY DEF SavedRx, HasTypes, Transaction

LEMMA UpdateType ==
    ASSUME IInv, NEW p \in Peers, NEW i \in Index, NEW y, HasTypes(y),
           xact' = [xact EXCEPT ![p][i] = y]
    PROVE  xact' \in [Peers -> [Index -> Transaction]] /\ PacketHasType'
<1>1. xact \in [Peers -> [Index -> Transaction]]
  BY DEF IInv, TypeOK
<1>2. xact' \in [Peers -> [Index -> Transaction]]
  BY <1>1 DEF HasTypes
<1>3. \A q \in Peers : \A j \in Index :
        xact'[q][j] = IF q = p /\ j = i THEN y ELSE xact[q][j]
  BY <1>1
<1> QED BY <1>2, <1>3 DEF HasTypes, PacketHasType, IInv

LEMMA DecrementType == \A rcount \in 0..255 : Decrement(rcount) \in 0..255
BY DEF Decrement

LEMMA TailType ==
    ASSUME NEW S, NEW q \in Seq(S), q # <<>>
    PROVE  Tail(q) \in Seq(S)
OBVIOUS

LEMMA StoredType ==
    ASSUME IInv, NEW p \in Peers, NEW i \in Index
    PROVE  HasTypes(xact[p][i])
BY DEF IInv, TypeOK, PacketHasType, HasTypes

LEMMA SendType ==
    ASSUME net \in SUBSET Datagram, NEW p \in Peers, NEW x, HasTypes(x),
           NEW s \in 1..3, x.pkbuf[s] # NoPacket, gtp_send(p, x, s)
    PROVE  net' \in SUBSET Datagram
<1>1. Other(p) \in Peers
  BY DEF Other, Peers
<1>2. x.type[s] \in Types /\ x.pkbuf[s] \in RequestId /\ x.xid \in Nat
  BY XactFields DEF HasTypes
<1> QED BY <1>1, <1>2 DEF gtp_send, Packet, Datagram

LEMMA StartType ==
    ASSUME NEW ts \in SUBSET Timer, NEW kind \in TimerKinds, NEW i \in Index,
           NEW x, x.serial \in Nat
    PROVE  tm_start(ts, kind, i, x) \in SUBSET Timer
<1>1. Duration(kind) \in Nat
  BY ConstantsAssumption DEF Duration
<1> QED BY <1>1 DEF tm_start, tm_stop, Timer

LEMMA RestartType ==
    ASSUME TypeOK, NEW p \in Peers, NEW kind \in TimerKinds, NEW i \in Index, NEW x, HasTypes(x),
           timers' = [timers EXCEPT ![p] = tm_start(@, kind, i, x)]
    PROVE  timers' \in [Peers -> SUBSET Timer]
<1>1. timers[p] \in SUBSET Timer /\ x.serial \in Nat
  BY XactFields DEF TypeOK
<1>2. tm_start(timers[p], kind, i, x) \in SUBSET Timer
  BY <1>1, StartType
<1> QED BY <1>2 DEF TypeOK

LEMMA StopType ==
    ASSUME NEW ts \in SUBSET Timer, NEW kind, NEW i, NEW x
    PROVE  tm_stop(ts, kind, i, x) \in SUBSET Timer
BY DEF tm_stop

\* The slot a datagram is dispatched to exists, and what is received in it is
\* well typed.
LEMMA SlotType ==
    ASSUME IInv, NEW p \in Peers, NEW d \in net, NEW i \in Slot(p, d)
    PROVE  /\ i \in Index
           /\ HasTypes(Received(p, d, i))
           /\ Received(p, d, i).live = TRUE
           /\ Found(p, d) => xact[p][i].live = TRUE
           /\ ~Found(p, d) => avail[p] # <<>> /\ i = Head(avail[p])
<1>1. i \in Index
  <2>1. CASE Found(p, d)
    BY <2>1 DEF Slot, gtp_xact_find_by_xid, Matching
  <2>2. CASE ~Found(p, d)
    BY <2>2 DEF Slot, IInv, TypeOK
  <2> QED BY <2>1, <2>2
<1>2. d.xid \in Nat
  BY DEF IInv, TypeOK, Datagram
<1>3. HasTypes(xact[p][i])
  BY <1>1, StoredType
<1>4. HasTypes(NewXact(p, Remote, d.xid))
  BY <1>2, NewXactType DEF IInv
<1>5. ASSUME Found(p, d) PROVE xact[p][i].live = TRUE
  BY <1>1, <1>3, <1>5, XactFields DEF Slot, gtp_xact_find_by_xid, Matching
<1>6. NewXact(p, Remote, d.xid).live = TRUE
  BY DEF NewXact
<1>7. ASSUME ~Found(p, d) PROVE avail[p] # <<>> /\ i = Head(avail[p])
  BY <1>7 DEF Slot
<1> QED BY <1>1, <1>3, <1>4, <1>5, <1>6, <1>7, Zenon DEF Received

-----------------------------------------------------------------------------
\* How the three kinds of step change the pool: a slot rewritten, allocated
\* (index_alloc) or freed (index_free).
LEMMA PoolRewritten ==
    ASSUME TypeOK, PoolPartition, NEW p \in Peers, NEW i \in Index, NEW y,
           xact' = [xact EXCEPT ![p][i] = y], y.live = xact[p][i].live,
           avail' = avail
    PROVE  PoolPartition'
BY SMTT(20) DEF TypeOK, PoolPartition

LEMMA PoolAllocated ==
    ASSUME TypeOK, PoolPartition, NEW p \in Peers, NEW i \in Index, NEW y,
           avail[p] # <<>>, i = Head(avail[p]), y.live = TRUE,
           xact' = [xact EXCEPT ![p][i] = y],
           avail' = [avail EXCEPT ![p] = Tail(@)]
    PROVE  PoolPartition'
<1> DEFINE a == avail[p]
<1>1. a \in Seq(Index) /\ Len(a) \in Nat /\ Len(a) > 0 /\ a[1] = i
  BY DEF TypeOK
<1>2. /\ Len(Tail(a)) = Len(a) - 1
      /\ \A k \in 1..Len(Tail(a)) : k + 1 \in 1..Len(a) /\ Tail(a)[k] = a[k + 1]
  BY <1>1
<1>3. \A q \in Peers : avail'[q] = IF q = p THEN Tail(a) ELSE avail[q]
  BY DEF TypeOK
<1>4. \A q \in Peers : \A j \in Index :
        xact'[q][j] = IF q = p /\ j = i THEN y ELSE xact[q][j]
  BY DEF TypeOK
<1>5. ASSUME NEW q \in Peers, q # p
      PROVE  /\ \A k, j \in 1..Len(avail'[q]) : avail'[q][k] = avail'[q][j] => k = j
             /\ \A j \in Index : xact'[q][j].live <=>
                    \A k \in 1..Len(avail'[q]) : avail'[q][k] # j
  BY <1>3, <1>4, <1>5 DEF PoolPartition
<1>6. ASSUME NEW k \in 1..Len(Tail(a)), NEW j \in 1..Len(Tail(a)), Tail(a)[k] = Tail(a)[j]
      PROVE  k = j
  <2>1. k + 1 \in 1..Len(a) /\ j + 1 \in 1..Len(a) /\ a[k + 1] = a[j + 1]
    BY <1>2, <1>6
  <2>2. k + 1 = j + 1
    BY <2>1 DEF PoolPartition
  <2> QED BY <2>2
<1>7. ASSUME NEW j \in Index
      PROVE  xact'[p][j].live <=> \A k \in 1..Len(Tail(a)) : Tail(a)[k] # j
  <2>1. CASE j = i
    <3>1. ASSUME NEW k \in 1..Len(Tail(a)) PROVE Tail(a)[k] # i
      <4>1. k + 1 \in 1..Len(a) /\ Tail(a)[k] = a[k + 1] /\ 1 \in 1..Len(a) /\ k + 1 # 1
        BY <1>1, <1>2
      <4>2. a[k + 1] # a[1]
        BY <4>1 DEF PoolPartition
      <4> QED BY <4>1, <4>2, <1>1
    <3> QED BY <2>1, <3>1, <1>4
  <2>2. CASE j # i
    <3>1. xact[p][j].live <=> \A k \in 1..Len(a) : a[k] # j
      BY DEF PoolPartition
    <3>2. (\A k \in 1..Len(a) : a[k] # j) <=> \A k \in 1..Len(Tail(a)) : Tail(a)[k] # j
      <4>1. ASSUME \A k \in 1..Len(Tail(a)) : Tail(a)[k] # j, NEW k \in 1..Len(a)
            PROVE  a[k] # j
        <5>1. CASE k = 1  BY <5>1, <1>1, <2>2
        <5>2. CASE k # 1
          <6>1. k - 1 \in 1..Len(Tail(a)) /\ Tail(a)[k - 1] = a[k]
            BY <5>2, <1>1, <1>2
          <6> QED BY <6>1, <4>1
        <5> QED BY <5>1, <5>2
      <4>2. ASSUME \A k \in 1..Len(a) : a[k] # j, NEW k \in 1..Len(Tail(a))
            PROVE  Tail(a)[k] # j
        <5>1. k + 1 \in 1..Len(a) /\ Tail(a)[k] = a[k + 1]
          BY <1>2
        <5> QED BY <5>1, <4>2
      <4> QED BY <4>1, <4>2
    <3> QED BY <3>1, <3>2, <2>2, <1>4
  <2> QED BY <2>1, <2>2
<1>8. /\ \A k, j \in 1..Len(avail'[p]) : avail'[p][k] = avail'[p][j] => k = j
      /\ \A j \in Index : xact'[p][j].live <=> \A k \in 1..Len(avail'[p]) : avail'[p][k] # j
  <2> DEFINE b == Tail(a)
  <2>1. avail'[p] = b
    BY <1>3
  <2>2. \A k, j \in 1..Len(b) : b[k] = b[j] => k = j
    BY <1>6, Zenon
  <2>3. \A j \in Index : xact'[p][j].live <=> \A k \in 1..Len(b) : b[k] # j
    BY <1>7, Zenon
  <2> HIDE DEF b
  <2>4. \A k, j \in 1..Len(avail'[p]) : avail'[p][k] = avail'[p][j] => k = j
    BY <2>1, <2>2
  <2>5. \A j \in Index : xact'[p][j].live <=> \A k \in 1..Len(avail'[p]) : avail'[p][k] # j
    BY <2>1, <2>3, Zenon
  <2> QED BY <2>4, <2>5
<1> QED BY <1>5, <1>8 DEF PoolPartition

LEMMA PoolFreed ==
    ASSUME TypeOK, PoolPartition, NEW p \in Peers, NEW i \in Index, NEW x,
           x \in Transaction, x.live = xact[p][i].live,
           xact' = [xact EXCEPT ![p][i] = [x EXCEPT !.live = FALSE]],
           avail' = [avail EXCEPT ![p] = IF x.live THEN Append(@, i) ELSE @]
    PROVE  PoolPartition'
<1> DEFINE a == avail[p]
           y == [x EXCEPT !.live = FALSE]
<1>1. a \in Seq(Index) /\ Len(a) \in Nat
  BY DEF TypeOK
<1>2. /\ Len(Append(a, i)) = Len(a) + 1
      /\ \A k \in 1..Len(a) : Append(a, i)[k] = a[k]
      /\ Append(a, i)[Len(a) + 1] = i
  BY <1>1
<1>3. \A q \in Peers : avail'[q] =
        IF q = p THEN (IF x.live THEN Append(a, i) ELSE a) ELSE avail[q]
  BY DEF TypeOK
<1>4. \A q \in Peers : \A j \in Index :
        xact'[q][j] = IF q = p /\ j = i THEN y ELSE xact[q][j]
  BY DEF TypeOK
<1>5. y.live = FALSE
  BY DEF Transaction
<1> HIDE DEF y
<1>6. ASSUME NEW q \in Peers, q # p
      PROVE  /\ \A k, j \in 1..Len(avail'[q]) : avail'[q][k] = avail'[q][j] => k = j
             /\ \A j \in Index : xact'[q][j].live <=>
                    \A k \in 1..Len(avail'[q]) : avail'[q][k] # j
  BY <1>3, <1>4, <1>6 DEF PoolPartition
<1>7. CASE x.live
  <2>1. \A k \in 1..Len(a) : a[k] # i
    BY <1>7, Zenon DEF PoolPartition
  <2>2. \A k, j \in 1..Len(a) + 1 : Append(a, i)[k] = Append(a, i)[j] => k = j
    <3> TAKE k, j \in 1..Len(a) + 1
    <3>1. CASE k \in 1..Len(a) /\ j \in 1..Len(a)
      BY <3>1, <1>2 DEF PoolPartition
    <3>2. CASE k = Len(a) + 1 \/ j = Len(a) + 1
      BY <3>2, <1>1, <1>2, <2>1
    <3> QED BY <3>1, <3>2, <1>1
  <2>3. ASSUME NEW j \in Index
        PROVE  xact'[p][j].live <=> \A k \in 1..Len(a) + 1 : Append(a, i)[k] # j
    <3>1. CASE j = i
      <4>1. Len(a) + 1 \in 1..Len(a) + 1
        BY <1>1
      <4>2. ~xact'[p][j].live
        <5>1. xact'[p][i] = y
          BY <1>4
        <5> QED BY <3>1, <5>1, <1>5, Zenon
      <4> QED BY <3>1, <4>1, <4>2, <1>2
    <3>2. CASE j # i
      <4>1. xact[p][j].live <=> \A k \in 1..Len(a) : a[k] # j
        BY DEF PoolPartition
      <4>2. (\A k \in 1..Len(a) + 1 : Append(a, i)[k] # j) <=> \A k \in 1..Len(a) : a[k] # j
        BY <3>2, <1>1, <1>2
      <4> QED BY <4>1, <4>2, <3>2, <1>4
    <3> QED BY <3>1, <3>2
  <2>4. /\ \A k, j \in 1..Len(avail'[p]) : avail'[p][k] = avail'[p][j] => k = j
        /\ \A j \in Index : xact'[p][j].live <=> \A k \in 1..Len(avail'[p]) : avail'[p][k] # j
    <3>1. avail'[p] = Append(a, i) /\ Len(avail'[p]) = Len(a) + 1
      BY <1>2, <1>3, <1>7, Zenon
    <3> QED BY <3>1, <2>2, <2>3
  <2> QED BY <1>6, <2>4 DEF PoolPartition
<1>8. CASE ~x.live
  BY <1>3, <1>4, <1>5, <1>6, <1>8 DEF PoolPartition
<1> QED BY <1>7, <1>8

-----------------------------------------------------------------------------
\* One lemma per action.
LEMMA InitInv == Init => IInv
<1> SUFFICES ASSUME Init PROVE IInv
  OBVIOUS
<1> USE ConstantsAssumption
<1>1. NoXact \in Transaction
  BY DEF NoXact, Transaction, Step, Byte, SavedTypes, SavedPackets
<1>2. TypeOK
  BY <1>1, SMTT(20) DEF Init, TypeOK
<1>3. PacketHasType
  BY DEF Init, NoXact, PacketHasType
<1>4. PoolPartition
  BY DEF Init, NoXact, PoolPartition, Index
<1> QED BY <1>2, <1>3, <1>4 DEF IInv

\* Steps that leave the pool alone.
LEMMA KeptInv ==
    ASSUME IInv, UNCHANGED <<xact, avail>>
    PROVE  PacketHasType' /\ PoolPartition'
<1>1. PacketHasType /\ PoolPartition
  BY DEF IInv
<1>2. PacketHasType'
  BY <1>1 DEF PacketHasType
<1>3. PoolPartition'
  BY <1>1 DEF PoolPartition
<1> QED BY <1>2, <1>3

LEMMA StutterInv ==
    ASSUME IInv, UNCHANGED vars
    PROVE  IInv'
<1>1. TypeOK /\ PacketHasType /\ PoolPartition
  BY DEF IInv
<1>2. /\ UNCHANGED <<xact, avail, serial, g_xact_id, timers, pending>>
      /\ UNCHANGED <<net, deferred, made, handled, answered>>
  BY DEF vars
<1>3. TypeOK'
  BY <1>1, <1>2 DEF TypeOK
<1> QED BY <1>2, <1>3, KeptInv DEF IInv

LEMMA SendRequestInv ==
    ASSUME IInv, NEW p \in Peers, NEW type \in Types, SendRequest(p, type)
    PROVE  IInv'
<1> USE ConstantsAssumption
<1>1. TypeOK /\ PoolPartition
  BY DEF IInv
<1>2. made' \in [Peers -> Nat]
  BY <1>1 DEF SendRequest, TypeOK
<1>3. CASE avail[p] = <<>>
  <2>1. UNCHANGED <<xact, avail, serial, g_xact_id, timers, net, pending, deferred, handled, answered>>
    BY <1>3 DEF SendRequest, pool
  <2>2. TypeOK'
    BY <1>1, <1>2, <2>1 DEF TypeOK
  <2> QED BY <2>1, <2>2, KeptInv DEF IInv
<1>4. CASE avail[p] # <<>>
  <2> DEFINE i == Head(avail[p])
             xid == NEXT_ID(g_xact_id[p])
             x == NewXact(p, Local, xid)
             r == <<p, made[p] + 1>>
             y == SavedTx(x, type, r)
  <2>1. i \in Index /\ xid \in 0..MAX_XACT_ID /\ xid \in Nat /\ r \in RequestId
    BY <1>1, <1>4, SMTT(20) DEF TypeOK, NEXT_ID, RequestId
  <2>2. /\ avail' = [avail EXCEPT ![p] = Tail(@)]
        /\ serial' = [serial EXCEPT ![p] = @ + 1]
        /\ g_xact_id' = [g_xact_id EXCEPT ![p] = xid]
        /\ UNCHANGED <<pending, deferred, handled, answered>>
    BY <1>4 DEF SendRequest
  <2>3. HasTypes(x) /\ x.step = 0 /\ x.live = TRUE
    BY <1>1, <2>1, NewXactType DEF NewXact
  <2>4. HasTypes(y) /\ y.live = TRUE /\ y.pkbuf[1] = r /\ y.pkbuf[1] # NoPacket
    BY <2>1, <2>3, SavedTxType, SavedTxFields
  <2> HIDE DEF y
  <2>5. avail' \in [Peers -> Seq(Index)] /\ serial' \in [Peers -> Nat]
        /\ g_xact_id' \in [Peers -> 0..MAX_XACT_ID]
    <3>1. avail \in [Peers -> Seq(Index)] /\ serial \in [Peers -> Nat]
          /\ g_xact_id \in [Peers -> 0..MAX_XACT_ID]
      BY <1>1 DEF TypeOK
    <3>2. Tail(avail[p]) \in Seq(Index)
      BY <1>4, <3>1
    <3>3. avail' \in [Peers -> Seq(Index)]
      BY <2>2, <3>1, <3>2
    <3>4. serial' \in [Peers -> Nat]
      BY <2>2, <3>1
    <3>5. g_xact_id' \in [Peers -> 0..MAX_XACT_ID]
      BY <2>1, <2>2, <3>1
    <3> QED BY <3>3, <3>4, <3>5
  <2>6. CASE /\ xact' = [xact EXCEPT ![p][i] = y]
             /\ timers' = [timers EXCEPT ![p] = tm_start(@, ResponseTimer, i, y)]
             /\ gtp_send(p, y, 1)
    <3>1. xact' \in [Peers -> [Index -> Transaction]] /\ PacketHasType'
      BY <2>1, <2>4, <2>6, UpdateType, Zenon
    <3>2. timers' \in [Peers -> SUBSET Timer]
      BY <1>1, <2>1, <2>4, <2>6, RestartType, Zenon DEF TimerKinds
    <3>3. net' \in SUBSET Datagram
      <4>1. y.pkbuf[1] # NoPacket /\ net \in SUBSET Datagram /\ 1 \in 1..3
          BY <1>1, <2>4 DEF TypeOK
      <4> QED BY <4>1, <2>4, <2>6, SendType, Zenon
    <3>4. PoolPartition'
      BY <1>1, <1>4, <2>1, <2>2, <2>4, <2>6, PoolAllocated, Zenon
    <3> QED BY <1>1, <1>2, <2>2, <2>5, <3>1, <3>2, <3>3, <3>4, Zenon DEF IInv, TypeOK
  <2>7. CASE xact' = [xact EXCEPT ![p][i] = x] /\ UNCHANGED <<timers, net>>
    <3>1. xact' \in [Peers -> [Index -> Transaction]] /\ PacketHasType'
      BY <2>1, <2>3, <2>7, UpdateType, Zenon
    <3>2. PoolPartition'
      BY <1>1, <1>4, <2>1, <2>2, <2>3, <2>7, PoolAllocated, Zenon
    <3> QED BY <1>1, <1>2, <2>2, <2>5, <2>7, <3>1, <3>2, Zenon DEF IInv, TypeOK
  <2> QED BY <1>4, <2>6, <2>7 DEF SendRequest, y
<1> QED BY <1>3, <1>4 DEF SendRequest

\* gtp_xact_receive stores y in the slot it found or allocated.
LEMMA AllocateInv ==
    ASSUME IInv, NEW p \in Peers, NEW d \in net, NEW i \in Slot(p, d), Allocate(p, d),
           NEW y, HasTypes(y), y.live = TRUE, xact' = [xact EXCEPT ![p][i] = y]
    PROVE  /\ xact' \in [Peers -> [Index -> Transaction]]
           /\ avail' \in [Peers -> Seq(Index)]
           /\ serial' \in [Peers -> Nat]
           /\ PacketHasType'
           /\ PoolPartition'
<1>1. TypeOK /\ PoolPartition /\ i \in Index
  BY SlotType, Zenon DEF IInv
<1>2. xact' \in [Peers -> [Index -> Transaction]] /\ PacketHasType'
  BY <1>1, UpdateType, Zenon
<1>3. serial' \in [Peers -> Nat]
  BY <1>1 DEF Allocate, TypeOK
<1>4. CASE Found(p, d)
  <2>1. avail' = avail
    BY <1>1, <1>4 DEF Allocate, TypeOK
  <2>2. PoolPartition'
    BY <1>1, <1>4, <2>1, SlotType, PoolRewritten, Zenon
  <2> QED BY <1>1, <1>2, <1>3, <2>1, <2>2 DEF TypeOK
<1>5. CASE ~Found(p, d)
  <2>1. avail' = [avail EXCEPT ![p] = Tail(@)] /\ avail[p] # <<>> /\ i = Head(avail[p])
    BY <1>5, SlotType, Zenon DEF Allocate
  <2>2. PoolPartition'
    BY <1>1, <2>1, PoolAllocated, Zenon
  <2>3. avail' \in [Peers -> Seq(Index)]
    BY <1>1, <2>1 DEF TypeOK
  <2> QED BY <1>2, <1>3, <2>2, <2>3
<1> QED BY <1>4, <1>5

LEMMA ReceiveRequestInv ==
    ASSUME IInv, NEW p \in Peers, NEW d \in net, NEW i \in Slot(p, d), ReceiveRequest(p, d, i)
    PROVE  IInv'
<1> DEFINE w == Received(p, d, i)
           x == SavedRx(w, d.type)
           y == SavedTx(x, Response, d.request)
<1>1. TypeOK /\ i \in Index /\ HasTypes(w) /\ w.live = TRUE
  BY SlotType, Zenon DEF IInv
<1>2. d.type \in Types /\ d.request \in RequestId /\ Response \in Types
  BY <1>1 DEF TypeOK, Datagram, Types
<1>3. w.step \in 0..1
  <2>1. d.type \in Requests /\ RxExpected(w, d.type)
    BY DEF ReceiveRequest
  <2>2. gtp_xact_get_stage(d.type, w.xid) # "FINAL"
    BY <2>1, Zenon DEF gtp_xact_get_stage, Requests, SessionReq, BearerReq, Response
  <2>3. w.step = 0 \/ w.step = 1
    BY <2>1, <2>2 DEF RxExpected
  <2> QED BY <2>3
<1>4. HasTypes(x) /\ x.live = TRUE /\ x.step \in 0..2
  BY <1>1, <1>2, <1>3, SavedRxType, SavedRxFields
<1> HIDE DEF x
<1>5. HasTypes(y) /\ y.live = TRUE /\ y.step \in 1..3 /\ y.pkbuf[y.step] # NoPacket
  BY <1>2, <1>4, SavedTxType, SavedTxFields
<1> HIDE DEF y
<1>6. timers' \in [Peers -> SUBSET Timer]
  <2>1. timers' = [timers EXCEPT ![p] =
                     tm_stop(tm_start(@, HoldingTimer, i, x), ResponseTimer, i, x)]
    BY DEF ReceiveRequest, x
  <2>2. timers[p] \in SUBSET Timer /\ x.serial \in Nat /\ HoldingTimer \in TimerKinds
    BY <1>1, <1>4, XactFields DEF TypeOK, TimerKinds
  <2>3. tm_start(timers[p], HoldingTimer, i, x) \in SUBSET Timer
    BY <1>1, <2>2, StartType
  <2>4. tm_stop(tm_start(timers[p], HoldingTimer, i, x), ResponseTimer, i, x) \in SUBSET Timer
    BY <2>3, StopType
  <2> QED BY <1>1, <2>1, <2>4 DEF TypeOK
<1>7. handled' \in [AllRequests -> Nat]
  <2>1. handled' = [handled EXCEPT ![d.request] = @ + 1]
    BY DEF ReceiveRequest
  <2>2. handled \in [AllRequests -> Nat]
    BY <1>1 DEF TypeOK
  <2>3. CASE d.request \in AllRequests
    <3>1. handled[d.request] + 1 \in Nat
      BY <2>2, <2>3
    <3> QED BY <2>1, <2>2, <3>1, Zenon
  <2>4. CASE d.request \notin AllRequests
    <3>1. handled' = handled
      BY <2>1, <2>2, <2>4
    <3> QED BY <2>2, <3>1
  <2> QED BY <2>3, <2>4
<1>8. Allocate(p, d) /\ UNCHANGED <<g_xact_id, pending, made, answered>>
  BY DEF ReceiveRequest
<1>9. CASE xact' = [xact EXCEPT ![p][i] = y] /\ gtp_send(p, y, y.step) /\ UNCHANGED deferred
  <2>1. /\ xact' \in [Peers -> [Index -> Transaction]]
        /\ avail' \in [Peers -> Seq(Index)]
        /\ serial' \in [Peers -> Nat]
        /\ PacketHasType'
        /\ PoolPartition'
    BY <1>5, <1>8, <1>9, AllocateInv, Zenon
  <2>2. net' \in SUBSET Datagram
    BY <1>1, <1>5, <1>9, SendType DEF TypeOK
  <2> QED BY <1>1, <1>6, <1>7, <1>8, <1>9, <2>1, <2>2, Zenon DEF IInv, TypeOK
<1>10. CASE /\ xact' = [xact EXCEPT ![p][i] = x]
            /\ deferred' = [deferred EXCEPT
                              ![p] = @ \cup {[index |-> i, request |-> d.request]}]
            /\ UNCHANGED net
  <2>1. /\ xact' \in [Peers -> [Index -> Transaction]]
        /\ avail' \in [Peers -> Seq(Index)]
        /\ serial' \in [Peers -> Nat]
        /\ PacketHasType'
        /\ PoolPartition'
    BY <1>4, <1>8, <1>10, AllocateInv, Zenon
  <2>2. deferred' \in [Peers -> SUBSET [index : Index, request : RequestId]]
    BY <1>1, <1>2, <1>10 DEF TypeOK
  <2> QED BY <1>1, <1>6, <1>7, <1>8, <1>10, <2>1, <2>2, Zenon DEF IInv, TypeOK
<1> QED BY <1>9, <1>10 DEF ReceiveRequest, x, y

\* gtp_xact_delete, whether or not the transaction was still alive.
LEMMA DeleteInv ==
    ASSUME IInv, NEW p \in Peers, NEW i \in Index, NEW x, HasTypes(x),
           x.live = xact[p][i].live, NEW ts \in SUBSET Timer, gtp_xact_delete(p, i, x, ts)
    PROVE  /\ xact' \in [Peers -> [Index -> Transaction]]
           /\ avail' \in [Peers -> Seq(Index)]
           /\ timers' \in [Peers -> SUBSET Timer]
           /\ PacketHasType'
           /\ PoolPartition'
<1> DEFINE y == [x EXCEPT !.live = FALSE]
<1>1. TypeOK /\ PoolPartition
  BY DEF IInv
<1>2. HasTypes(y)
  <2>1. x \in Transaction
    BY DEF HasTypes
  <2>2. y \in Transaction /\ y.type = x.type /\ y.pkbuf = x.pkbuf
    BY <2>1, Zenon DEF Transaction
  <2> QED BY <2>2 DEF HasTypes
<1>3. /\ xact' = [xact EXCEPT ![p][i] = y]
      /\ avail' = [avail EXCEPT ![p] = IF x.live THEN Append(@, i) ELSE @]
      /\ timers' = [timers EXCEPT ![p] = ts \ OwnTimers(ts, i, x)]
  BY DEF gtp_xact_delete
<1>4. xact' \in [Peers -> [Index -> Transaction]] /\ PacketHasType'
  BY <1>2, <1>3, UpdateType, Zenon
<1>5. PoolPartition'
  BY <1>1, <1>3, PoolFreed, Zenon DEF HasTypes
<1>6. avail' \in [Peers -> Seq(Index)]
  <2>1. avail[p] \in Seq(Index) /\ Append(avail[p], i) \in Seq(Index)
    BY <1>1 DEF TypeOK
  <2> QED BY <1>1, <1>3, <2>1 DEF TypeOK
<1>7. timers' \in [Peers -> SUBSET Timer]
  BY <1>1, <1>3, SMTT(20) DEF TypeOK
<1> QED BY <1>4, <1>5, <1>6, <1>7

LEMMA ReceiveResponseInv ==
    ASSUME IInv, NEW p \in Peers, NEW d \in net, NEW i \in Slot(p, d), ReceiveResponse(p, d, i)
    PROVE  IInv'
<1> DEFINE w == Received(p, d, i)
           x == SavedRx(w, d.type)
<1>1. TypeOK /\ i \in Index /\ HasTypes(w) /\ w.live = TRUE
  BY SlotType, Zenon DEF IInv
<1>2. d.type \in Types /\ Found(p, d) /\ RxExpected(w, d.type) /\ xact[p][i].live = TRUE
  BY <1>1, SlotType, Zenon DEF TypeOK, Datagram, ReceiveResponse
<1>3. w.step \in 0..2
  <2>1. w.step = 0 \/ w.step = 1 \/ w.step = 2
    BY <1>2 DEF RxExpected
  <2> QED BY <2>1
<1>4. HasTypes(x) /\ x.live = xact[p][i].live
  BY <1>1, <1>2, <1>3, SavedRxType, SavedRxFields, ZenonT(30)
<1> HIDE DEF x
<1>5. /\ gtp_xact_delete(p, i, x, timers[p])
      /\ answered' = answered \cup ({x.pkbuf[1]} \ {NoPacket})
      /\ UNCHANGED <<g_xact_id, pending, net, deferred, serial, made, handled>>
  BY DEF ReceiveResponse, x
<1>6. timers[p] \in SUBSET Timer
  BY <1>1, SMTT(20) DEF TypeOK
<1>7. /\ xact' \in [Peers -> [Index -> Transaction]]
      /\ avail' \in [Peers -> Seq(Index)]
      /\ timers' \in [Peers -> SUBSET Timer]
      /\ PacketHasType'
      /\ PoolPartition'
  BY <1>1, <1>4, <1>5, <1>6, DeleteInv, SMTT(20)
<1>8. answered' \in SUBSET RequestId
  <2>1. x.pkbuf[1] \in RequestId \cup {NoPacket}
    BY <1>4, XactFields, SMTT(20)
  <2> QED BY <1>1, <1>5, <2>1 DEF TypeOK
<1> QED BY <1>1, <1>5, <1>7, <1>8 DEF IInv, TypeOK

LEMMA ReceiveDuplicateInv ==
    ASSUME IInv, NEW p \in Peers, NEW d \in net, NEW i \in Slot(p, d), ReceiveDuplicate(p, d, i)
    PROVE  IInv'
<1> DEFINE x == Received(p, d, i)
           reply == IF x.org = Remote THEN 2 ELSE 3
<1>1. TypeOK /\ i \in Index /\ HasTypes(x)
  <2>1. TypeOK
    BY DEF IInv
  <2> QED BY <2>1, SlotType, Zenon
<1>2. UNCHANGED <<xact, avail, serial, g_xact_id, pending, deferred, made, handled, answered>>
  BY Zenon DEF ReceiveDuplicate, pool, ghosts
<1>3. PacketHasType' /\ PoolPartition'
  BY <1>2, KeptInv
<1>4. CASE /\ x.pkbuf[reply] # NoPacket
           /\ timers' = [timers EXCEPT ![p] = tm_start(@, HoldingTimer, i, x)]
           /\ gtp_send(p, x, reply)
  <2>1. timers' \in [Peers -> SUBSET Timer]
    BY <1>1, <1>4, RestartType, Zenon DEF TimerKinds
  <2>2. reply \in 1..3 /\ net \in SUBSET Datagram
    BY <1>1 DEF TypeOK
  <2> HIDE DEF reply, x
  <2>3. net' \in SUBSET Datagram
    BY <1>1, <1>4, <2>2, SendType
  <2> QED BY <1>1, <1>2, <1>3, <2>1, <2>3 DEF IInv, TypeOK
<1>5. CASE UNCHANGED <<net, timers>>
  BY <1>1, <1>2, <1>3, <1>5 DEF IInv, TypeOK
<1> QED BY <1>4, <1>5 DEF ReceiveDuplicate

LEMMA ReceiveInvalidInv ==
    ASSUME IInv, NEW p \in Peers, NEW d \in net, NEW i \in Slot(p, d), ReceiveInvalid(p, d, i)
    PROVE  IInv'
<1> DEFINE x == Received(p, d, i)
<1>1. TypeOK /\ HasTypes(x) /\ x.live = TRUE
  BY SlotType, Zenon DEF IInv
<1>2. /\ Allocate(p, d)
      /\ xact' = [xact EXCEPT ![p][i] = x]
      /\ UNCHANGED <<g_xact_id, timers, pending, net, deferred, made, handled, answered>>
  BY DEF ReceiveInvalid, ghosts
<1>3. /\ xact' \in [Peers -> [Index -> Transaction]]
      /\ avail' \in [Peers -> Seq(Index)]
      /\ serial' \in [Peers -> Nat]
      /\ PacketHasType'
      /\ PoolPartition'
  BY <1>1, <1>2, AllocateInv, Zenon
<1> QED BY <1>1, <1>2, <1>3 DEF IInv, TypeOK

LEMMA ReceiveInv ==
    ASSUME IInv, NEW p \in Peers, NEW d \in net, Receive(p, d)
    PROVE  IInv'
<1>1. CASE ReceiveNoSlot(p, d)
  <2>1. UNCHANGED vars
    BY <1>1 DEF ReceiveNoSlot, pool, ghosts, vars
  <2> QED BY <2>1, StutterInv
<1>2. ASSUME NEW i \in Slot(p, d),
             \/ ReceiveRequest(p, d, i)
             \/ ReceiveResponse(p, d, i)
             \/ ReceiveDuplicate(p, d, i)
             \/ ReceiveInvalid(p, d, i)
      PROVE  IInv'
  BY <1>2, ReceiveRequestInv, ReceiveResponseInv, ReceiveDuplicateInv, ReceiveInvalidInv
<1> QED BY <1>1, <1>2 DEF Receive

LEMMA AnswerDeferredInv ==
    ASSUME IInv, NEW p \in Peers, NEW r \in deferred[p], AnswerDeferred(p, r)
    PROVE  IInv'
<1> DEFINE x == xact[p][r.index]
           y == SavedTx(x, Response, r.request)
<1>1. TypeOK /\ PoolPartition
  BY DEF IInv
<1>2. r.index \in Index /\ r.request \in RequestId /\ Response \in Types
  BY <1>1 DEF TypeOK, Types
<1>3. HasTypes(x)
  BY <1>2, StoredType
<1>4. deferred' \in [Peers -> SUBSET [index : Index, request : RequestId]]
  BY <1>1 DEF AnswerDeferred, TypeOK
<1>5. UNCHANGED <<avail, serial, g_xact_id, timers, pending, made, handled, answered>>
  BY DEF AnswerDeferred, ghosts
<1>6. CASE /\ TxAllowed(x, Response)
           /\ xact' = [xact EXCEPT ![p][r.index] = y]
           /\ gtp_send(p, y, y.step)
  <2>1. x.step \in 0..2
    <3>1. x.step = 0 \/ x.step = 1 \/ x.step = 2
      BY <1>6, SMTT(20) DEF TxAllowed
    <3> QED BY <3>1
  <2>2. HasTypes(y) /\ y.live = x.live /\ y.step \in 1..3 /\ y.pkbuf[y.step] # NoPacket
    BY <1>2, <1>3, <2>1, SavedTxType, SavedTxFields
  <2> HIDE DEF y
  <2>3. xact' \in [Peers -> [Index -> Transaction]] /\ PacketHasType'
    BY <1>2, <1>6, <2>2, UpdateType, Zenon
  <2>4. PoolPartition'
    BY <1>1, <1>2, <1>5, <1>6, <2>2, PoolRewritten, Zenon
  <2>5. net' \in SUBSET Datagram
    BY <1>1, <1>6, <2>2, SendType, Zenon DEF TypeOK
  <2> QED BY <1>1, <1>4, <1>5, <2>3, <2>4, <2>5 DEF IInv, TypeOK
<1>7. CASE UNCHANGED <<xact, net>>
  <2>1. TypeOK'
    BY <1>1, <1>4, <1>5, <1>7 DEF TypeOK
  <2> QED BY <2>1, <1>5, <1>7, KeptInv DEF IInv
<1> QED BY <1>6, <1>7 DEF AnswerDeferred

LEMMA ExpireInv ==
    ASSUME IInv, NEW p \in Peers, NEW t \in timers[p], Expire(p, t)
    PROVE  IInv'
<1> DEFINE e == [kind |-> t.kind, index |-> t.index, serial |-> t.serial]
<1>1. TypeOK
  BY DEF IInv
<1>2. e \in Event /\ pending[p] \in Seq(Event)
  <2>1. t \in Timer /\ pending[p] \in Seq(Event)
    BY <1>1 DEF TypeOK
  <2> QED BY <2>1 DEF Timer, Event
<1>3. /\ timers' = [timers EXCEPT ![p] = @ \ {t}]
      /\ pending' = [pending EXCEPT ![p] = Append(@, e)]
      /\ UNCHANGED <<xact, avail, serial, g_xact_id, net, deferred, made, handled, answered>>
  BY DEF Expire, pool, ghosts
<1>4. timers' \in [Peers -> SUBSET Timer]
  BY <1>1, <1>3 DEF TypeOK
<1>5. Append(pending[p], e) \in Seq(Event)
  BY <1>2
<1> HIDE DEF e
<1>6. pending' \in [Peers -> Seq(Event)]
  BY <1>1, <1>3, <1>5 DEF TypeOK
<1>7. TypeOK'
  BY <1>1, <1>3, <1>4, <1>6 DEF TypeOK
<1> QED BY <1>3, <1>7, KeptInv DEF IInv

LEMMA TickInv ==
    ASSUME IInv, Tick
    PROVE  IInv'
<1>1. TypeOK
  BY DEF IInv
<1>2. UNCHANGED <<xact, avail, serial, g_xact_id, pending, deferred, made, handled, answered>>
  BY DEF Tick, pool, ghosts
<1>3. timers' \in [Peers -> SUBSET Timer]
  <2>1. ASSUME NEW p \in Peers, NEW t \in timers[p]
        PROVE  [t EXCEPT !.left = @ - 1] \in Timer
    <3>1. t \in Timer /\ t.left > 0
      BY <1>1 DEF TypeOK, Tick
    <3>2. t.left - 1 \in Nat
      BY <3>1 DEF Timer
    <3> QED BY <3>1, <3>2 DEF Timer
  <2>2. timers' = [p \in Peers |-> {[t EXCEPT !.left = @ - 1] : t \in timers[p]}]
    BY DEF Tick
  <2> QED BY <2>1, <2>2
<1>4. net' \in SUBSET Datagram
  <2>1. ASSUME NEW d \in net PROVE [d EXCEPT !.age = @ + 1] \in Datagram
    <3>1. d \in Datagram
      BY <1>1 DEF TypeOK
    <3>2. d.age + 1 \in Nat
      BY <3>1 DEF Datagram
    <3> QED BY <3>1, <3>2 DEF Datagram
  <2>2. net' = {[d EXCEPT !.age = @ + 1] : d \in {e \in net : e.age < MaxDelay}}
    BY DEF Tick
  <2> QED BY <2>1, <2>2
<1>5. TypeOK'
  BY <1>1, <1>2, <1>3, <1>4, Zenon DEF TypeOK
<1> QED BY <1>2, <1>5, KeptInv DEF IInv

LEMMA TimeoutInv ==
    ASSUME IInv, NEW p \in Peers, Timeout(p)
    PROVE  IInv'
<1> DEFINE e == Head(pending[p])
           i == e.index
           x == xact[p][i]
           xr == [x EXCEPT !.response_rcount = Decrement(@)]
           xh == [x EXCEPT !.holding_rcount = Decrement(@)]
<1>1. TypeOK /\ PoolPartition /\ timers[p] \in SUBSET Timer
  BY DEF IInv, TypeOK
<1>2. pending[p] # <<>> /\ pending[p] \in Seq(Event)
  BY <1>1 DEF Timeout, TypeOK
<1>3. e \in Event
  BY <1>2
<1>4. i \in Index
  BY <1>3 DEF Event
<1>5. HasTypes(x)
  BY <1>4, StoredType
<1>6. pending' \in [Peers -> Seq(Event)]
  <2>1. Tail(pending[p]) \in Seq(Event)
    BY <1>2, TailType, ZenonT(30)
  <2>2. pending' = [pending EXCEPT ![p] = Tail(@)]
    BY DEF Timeout
  <2>3. pending \in [Peers -> Seq(Event)]
    BY <1>1, ZenonT(30) DEF TypeOK
  <2> QED BY <2>1, <2>2, <2>3
<1>7. UNCHANGED <<serial, g_xact_id, deferred, made, handled, answered>>
  BY DEF Timeout, ghosts
<1> HIDE DEF e
<1>8. ASSUME xact' \in [Peers -> [Index -> Transaction]], avail' \in [Peers -> Seq(Index)],
             timers' \in [Peers -> SUBSET Timer], net' \in SUBSET Datagram,
             PacketHasType', PoolPartition'
      PROVE  IInv'
  BY <1>1, <1>6, <1>7, <1>8 DEF IInv, TypeOK
<1>9. HasTypes(xr) /\ xr.live = x.live /\ HasTypes(xh) /\ xh.live = x.live
  <2> HIDE DEF x
  <2>0. x \in Transaction
    BY <1>5, Zenon DEF HasTypes
  <2>1. Decrement(x.response_rcount) \in Byte /\ Decrement(x.holding_rcount) \in Byte
    <3>1. x.response_rcount \in 0..255 /\ x.holding_rcount \in 0..255
      BY <1>5, XactFields, ZenonT(30)
    <3> QED BY <3>1, DecrementType, Zenon DEF Byte
  <2>2. /\ xr \in Transaction /\ xr.type = x.type /\ xr.pkbuf = x.pkbuf /\ xr.live = x.live
        /\ xh \in Transaction /\ xh.type = x.type /\ xh.pkbuf = x.pkbuf /\ xh.live = x.live
    BY <2>0, <2>1 DEF Transaction
  <2> HIDE DEF xr, xh
  <2> QED BY <1>5, <2>2 DEF HasTypes
<1> HIDE DEF xr, xh
\* The event rewrites the record and restarts one of its timers, ...
<1>10. ASSUME NEW z, HasTypes(z), z.live = x.live, NEW kind \in TimerKinds,
              xact' = [xact EXCEPT ![p][i] = z], UNCHANGED avail,
              timers' = [timers EXCEPT ![p] = tm_start(@, kind, i, z)],
              net' \in SUBSET Datagram
       PROVE  IInv'
  <2>1. xact' \in [Peers -> [Index -> Transaction]] /\ PacketHasType'
    BY <1>4, <1>10, UpdateType, Zenon
  <2>2. PoolPartition'
    BY <1>1, <1>4, <1>10, PoolRewritten, Zenon
  <2>3. timers' \in [Peers -> SUBSET Timer]
    BY <1>1, <1>4, <1>10, RestartType, Zenon
  <2> QED BY <1>1, <1>8, <1>10, <2>1, <2>2, <2>3 DEF TypeOK
\* ... or deletes the transaction.
<1>11. ASSUME NEW z, HasTypes(z), z.live = x.live, NEW ts \in SUBSET Timer,
              gtp_xact_delete(p, i, z, ts), UNCHANGED net
       PROVE  IInv'
  BY <1>1, <1>4, <1>8, <1>11, DeleteInv, Zenon DEF TypeOK
<1>12. CASE ResponseTimeout(p, i, xr)
  <2> DEFINE ts == tm_start(timers[p], ResponseTimer, i, xr)
  <2>1. ts \in SUBSET Timer /\ ResponseTimer \in TimerKinds
    BY <1>1, <1>4, <1>9, StartType, XactFields, Zenon DEF TimerKinds
  <2>2. net \in SUBSET Datagram
    BY <1>1 DEF TypeOK
  <2>3. CASE /\ xact' = [xact EXCEPT ![p][i] = xr]
             /\ timers' = [timers EXCEPT ![p] = ts]
             /\ UNCHANGED <<avail, net>>
    BY <1>9, <1>10, <2>1, <2>2, <2>3, Zenon
  <2>4. CASE /\ CurrentPacket(xr) # NoPacket
             /\ xact' = [xact EXCEPT ![p][i] = xr]
             /\ timers' = [timers EXCEPT ![p] = ts]
             /\ gtp_send(p, xr, xr.step)
             /\ UNCHANGED avail
    <3>1. xr.step \in 1..3 /\ xr.pkbuf[xr.step] # NoPacket
      BY <1>9, <2>4, XactFields DEF CurrentPacket
    <3>2. net' \in SUBSET Datagram
      BY <1>9, <2>2, <2>4, <3>1, SendType, SMTT(20)
    <3> QED BY <1>9, <1>10, <2>1, <2>4, <3>2, Zenon
  <2>5. CASE gtp_xact_delete(p, i, xr, ts) /\ UNCHANGED net
    BY <1>9, <1>11, <2>1, <2>5
  <2>6. CASE gtp_xact_delete(p, i, xr, timers[p]) /\ UNCHANGED net
    BY <1>1, <1>9, <1>11, <2>6
  <2> QED BY <1>12, <2>3, <2>4, <2>5, <2>6 DEF ResponseTimeout
<1>13. CASE HoldingTimeout(p, i, xh)
  <2>1. CASE /\ xact' = [xact EXCEPT ![p][i] = xh]
             /\ timers' = [timers EXCEPT ![p] = tm_start(@, HoldingTimer, i, xh)]
             /\ UNCHANGED <<avail, net>>
    BY <1>1, <1>9, <1>10, <2>1, ZenonT(30) DEF TypeOK, TimerKinds
  <2>2. CASE gtp_xact_delete(p, i, xh, timers[p]) /\ UNCHANGED net
    BY <1>1, <1>9, <1>11, <2>2, SMTT(20)
  <2> QED BY <1>13, <2>1, <2>2 DEF HoldingTimeout
<1> QED BY <1>12, <1>13, Zenon DEF Timeout, e, xr, xh

LEMMA NextInv == IInv /\ [Next]_vars => IInv'
<1> SUFFICES ASSUME IInv, [Next]_vars PROVE IInv'
  OBVIOUS
<1>1. CASE UNCHANGED vars
  BY <1>1, StutterInv
<1>2. CASE Tick
  BY <1>2, TickInv
<1>3. ASSUME NEW p \in Peers, NEW type \in Originates(p), SendRequest(p, type)
      PROVE  IInv'
  <2>1. type \in Types
    BY DEF Originates, Types, Requests
  <2> QED BY <1>3, <2>1, SendRequestInv
<1>4. ASSUME NEW p \in Peers, NEW d \in net, Receive(p, d) PROVE IInv'
  BY <1>4, ReceiveInv
<1>5. ASSUME NEW p \in Peers, NEW r \in deferred[p], AnswerDeferred(p, r) PROVE IInv'
  BY <1>5, AnswerDeferredInv
<1>6. ASSUME NEW p \in Peers, NEW t \in timers[p], Expire(p, t) PROVE IInv'
  BY <1>6, ExpireInv
<1>7. ASSUME NEW p \in Peers, Timeout(p) PROVE IInv'
  BY <1>7, TimeoutInv
<1> QED BY <1>1, <1>2, <1>3, <1>4, <1>5, <1>6, <1>7 DEF Next

\* The state of gtp_xact.c keeps its types in every behaviour.
THEOREM TypeCorrect == Spec => []TypeOK
<1>1. IInv => TypeOK
  BY DEF IInv
<1> QED BY InitInv, NextInv, <1>1, PTL DEF Spec

\* index_alloc never hands out a transaction in use and index_free never offers
\* an index twice, although gtp_xact_timeout deletes transactions that are gone.
THEOREM PoolConsistent == Spec => []PoolPartition
<1>1. IInv => PoolPartition
  BY DEF IInv
<1> QED BY InitInv, NextInv, <1>1, PTL DEF Spec

=============================================================================
