----------------------------- MODULE GxChannel -----------------------------
(***************************************************************************)
(* What the PGW and the PCRF share over Gx: Diameter sessions with the     *)
(* application's state attached to them (freeDiameter's sessions.c), and   *)
(* the messages under way.                                                 *)
(*                                                                         *)
(* A Session-Id carries at most one state of a handler.  Retrieving takes  *)
(* the state out: until its holder stores it again every other callback    *)
(* finds the session without a state, and a state stored meanwhile makes   *)
(* the holder's own store fail with EALREADY.  An entry whose state is the *)
(* null pointer is an entry: it is retrieved as "no state" and it makes a  *)
(* store fail.                                                             *)
(***************************************************************************)
EXTENDS Integers, Sequences, FiniteSets

CONSTANTS
  Ue,           \* subscribers; each has one PDN connection, EBI 5
  Addrs,        \* UE addresses of the subnet's pool
  RxSids,       \* Rx Session-Ids the application function may use
  MaxSid        \* bound: Gx Session-Ids made in a behaviour

VARIABLE gxnet  \* Diameter messages under way between PGW and PCRF

Sids == 1..MaxSid
NULL == 0
NoEntry == -1
NoAddr == 0

\* What a retrieve leaves, and what it hands to its caller.
Without(tab, sid) == [tab EXCEPT ![sid] = NoEntry]
Retrieved(tab, sid) == IF tab[sid] = NoEntry THEN NULL ELSE tab[sid]

\* A store succeeds only where no entry is.
Storable(tab, sid) == tab[sid] = NoEntry
Stored(tab, sid, s) == IF Storable(tab, sid) THEN [tab EXCEPT ![sid] = s] ELSE tab

\* `data' is the pointer the sender registered with the request: freeDiameter
\* hands it to the sender's callback with the answer.
CCR(sid, type, ue, addr, data) ==
  [t |-> "CCR", sid |-> sid, type |-> type, ue |-> ue, addr |-> addr, data |-> data]
CCA(m, ok, rule) ==
  [t |-> "CCA", sid |-> m.sid, type |-> m.type, data |-> m.data, ok |-> ok,
   rule |-> rule]
RAR(sid, op, rx, data) ==
  [t |-> "RAR", sid |-> sid, op |-> op, rx |-> rx, data |-> data]
RAA(m) == [t |-> "RAA", sid |-> m.sid, rx |-> m.rx, op |-> m.op, data |-> m.data]
=============================================================================
