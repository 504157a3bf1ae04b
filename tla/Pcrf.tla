-------------------------------- MODULE Pcrf --------------------------------
(***************************************************************************)
(* The PCRF: pcrf_gx_path.c, pcrf_rx_path.c and the address table of       *)
(* pcrf_context.c.  It has no main thread: each Diameter message is        *)
(* handled by a callback on one of freeDiameter's threads.  A callback     *)
(* takes the states of its sessions out, works on them and puts them back; *)
(* a step ends where another thread can see what was done.                 *)
(*                                                                         *)
(* Gx and Rx states are named by the order they were made in.  The address *)
(* table maps an address to the Session-Id string inside a Gx state, by    *)
(* pointer: here, to the state.                                            *)
(***************************************************************************)
EXTENDS GxChannel, SequencesExt

CONSTANT Threads  \* freeDiameter's dispatch threads

VARIABLES
  ip_hash,  \* address -> Gx state whose Session-Id string is entered
  pgx,      \* Gx Diameter session -> Gx state
  gst,      \* the Gx states made so far
  prx,      \* Rx Diameter session -> Rx state
  rst,      \* the Rx states made so far
  run,      \* callbacks that are running
  rxnet,    \* Diameter messages between the PCRF and the P-CSCF
  af,       \* what the P-CSCF knows of its Rx sessions
  pmark     \* what happened so far, for the properties

pcrfVars == <<ip_hash, pgx, gst, prx, rst, run, rxnet, af, pmark>>

PcrfInit ==
  /\ ip_hash = [a \in Addrs |-> NULL]
  /\ pgx = [s \in Sids |-> NoEntry] /\ gst = <<>>
  /\ prx = [r \in RxSids |-> NoEntry] /\ rst = <<>>
  /\ run = {} /\ rxnet = {}
  /\ af = [r \in RxSids |-> "idle"]
  /\ pmark = [over |-> {}, rxover |-> {}, refused |-> {}]

Spawn(c) == Cardinality(run) < Threads /\ run' = run \cup {c}
Become(c, d) == run' = (run \ {c}) \cup {d}
Done(c) == run' = run \ {c}

\* The Gx states some callback has in hand.
GxHeld == {c.k : c \in {d \in run : d.k # NULL}}
RxHeld == {c.r : c \in {d \in run : d.r # NULL}}

Met(sid, k) ==   \* a retrieve that gave k, while another has the state
  k = NULL /\ \E j \in GxHeld : gst[j].sid = sid
RxMet(rx, r) == r = NULL /\ \E j \in RxHeld : rst[j].rx = rx

-----------------------------------------------------------------------------
(* pcrf_gx_ccr_cb *)

NewGx(sid) == [sid |-> sid, addr |-> NoAddr, rx |-> <<>>, str |-> TRUE]

\* The state is taken out or made; the address, which an initial request
\* carries, is entered before anything can fail.
CcrTake(m, ok) ==
  /\ m.t = "CCR"
  /\ LET k    == Retrieved(pgx, m.sid)
         k1   == IF k = NULL THEN Len(gst) + 1 ELSE k
         gst1 == IF k = NULL THEN Append(gst, NewGx(m.sid)) ELSE gst
     IN  /\ pgx' = Without(pgx, m.sid)
         /\ gst' = IF m.addr = NoAddr THEN gst1 ELSE [gst1 EXCEPT ![k1].addr = m.addr]
         /\ ip_hash' = IF m.addr = NoAddr THEN ip_hash
                       ELSE [ip_hash EXCEPT ![m.addr] = k1]
         /\ Spawn([f |-> "ccr", pc |-> IF ok /\ m.type = "T" THEN "abort" ELSE "end",
                   m |-> m, k |-> k1, r |-> NULL, ok |-> ok])
         /\ pmark' = [pmark EXCEPT
              !.over = IF Met(m.sid, k) THEN @ \cup {m.sid} ELSE @,
              !.refused = IF ~ok /\ m.type = "T" THEN @ \cup {m.sid} ELSE @]
  /\ gxnet' = gxnet \ {m}
  /\ UNCHANGED <<prx, rst, rxnet, af>>


\* A termination aborts the Rx sessions of the state, one by one.
\* pcrf_rx_send_asr takes the Rx state out ...
CcrAbort(c) ==
  /\ c.f = "ccr" /\ c.pc = "abort"
  /\ IF gst[c.k].rx = <<>>
     THEN Become(c, [c EXCEPT !.pc = "end"]) /\ UNCHANGED <<gst, prx, rst, pmark>>
     ELSE LET rx == gst[c.k].rx[1].rx
              r  == Retrieved(prx, rx)
          IN  /\ prx' = Without(prx, rx)
              /\ IF r = NULL
                 THEN /\ gst' = [gst EXCEPT ![c.k].rx = Tail(@)]
                      /\ UNCHANGED <<rst, run>>
                 ELSE /\ rst' = [rst EXCEPT ![r].aborted = TRUE]
                      /\ Become(c, [c EXCEPT !.pc = "asr", !.r = r])
                      /\ UNCHANGED gst
              /\ pmark' = [pmark EXCEPT
                   !.rxover = IF RxMet(rx, r) THEN @ \cup {rx} ELSE @]
  /\ UNCHANGED <<ip_hash, pgx, rxnet, af, gxnet>>

\* ... puts it back and sends the request; remove_rx_state.
CcrAsr(c) ==
  /\ c.f = "ccr" /\ c.pc = "asr"
  /\ LET rx == rst[c.r].rx
     IN  /\ prx' = Stored(prx, rx, c.r)
         /\ rxnet' = IF Storable(prx, rx) THEN rxnet \cup {[t |-> "ASR", rx |-> rx]}
                     ELSE rxnet
  /\ gst' = [gst EXCEPT ![c.k].rx = Tail(@)]
  /\ Become(c, [c EXCEPT !.pc = "abort", !.r = NULL])
  /\ UNCHANGED <<ip_hash, pgx, rst, af, pmark, gxnet>>

\* state_cleanup: the address is taken out of the table, whatever is there.
GxCleanup(k) ==
  /\ gst' = [gst EXCEPT ![k].str = FALSE, ![k].rx = <<>>]
  /\ ip_hash' = IF gst[k].addr = NoAddr THEN ip_hash
                ELSE [ip_hash EXCEPT ![gst[k].addr] = NULL]

\* Mutant: a termination is answered first and cleaned up after.
CcrEndLate(c) ==
  /\ c.f = "ccr" /\ c.pc \in {"end", "late"}
  /\ \/ /\ c.m.type = "T" /\ c.pc = "end"
        /\ gxnet' = gxnet \cup {CCA(c.m, c.ok, FALSE)}
        /\ Become(c, [c EXCEPT !.pc = "late"])
        /\ UNCHANGED <<pgx, gst, ip_hash>>
     \/ /\ c.m.type = "T" /\ c.pc = "late"
        /\ GxCleanup(c.k) /\ Done(c)
        /\ UNCHANGED <<pgx, gxnet>>
     \/ /\ c.m.type = "I"
        /\ pgx' = Stored(pgx, c.m.sid, c.k)
        /\ Become(c, [c EXCEPT !.pc = "answer", !.k = NULL])
        /\ UNCHANGED <<gst, ip_hash, gxnet>>
  /\ UNCHANGED <<prx, rst, rxnet, af, pmark>>

\* Mutant: the state of a refused request is dropped.
CcrEndDropRefused(c) ==
  /\ c.f = "ccr" /\ c.pc = "end"
  /\ IF c.m.type = "T"
     THEN GxCleanup(c.k) /\ UNCHANGED pgx
     ELSE /\ pgx' = IF c.ok THEN Stored(pgx, c.m.sid, c.k) ELSE pgx
          /\ UNCHANGED <<gst, ip_hash>>
  /\ Become(c, [c EXCEPT !.pc = "answer", !.k = NULL])
  /\ UNCHANGED <<prx, rst, rxnet, af, pmark, gxnet>>

\* The state is put back, or cleaned up after a termination, before the
\* answer is sent; a store that fails is only logged.
CcrEnd(c) ==
  /\ c.f = "ccr" /\ c.pc = "end"
  /\ IF c.m.type = "T"
     THEN GxCleanup(c.k) /\ UNCHANGED pgx
     ELSE pgx' = Stored(pgx, c.m.sid, c.k) /\ UNCHANGED <<gst, ip_hash>>
  /\ Become(c, [c EXCEPT !.pc = "answer", !.k = NULL])
  /\ UNCHANGED <<prx, rst, rxnet, af, pmark, gxnet>>

\* An initial answer carries the profile's rules, if it has any with flows.
CcrAnswer(c, rule) ==
  /\ c.f = "ccr" /\ c.pc = "answer"
  /\ gxnet' = gxnet \cup {CCA(c.m, c.ok, rule /\ c.m.type = "I")}
  /\ Done(c)
  /\ UNCHANGED <<ip_hash, pgx, gst, prx, rst, rxnet, af, pmark>>

-----------------------------------------------------------------------------
(* pcrf_rx_aar_cb and pcrf_rx_str_cb *)

\* The Rx state, and the Gx session the address belongs to.
AarTake(m) ==
  /\ m.t = "AAR"
  /\ LET r  == Retrieved(prx, m.rx)
         r1 == IF r = NULL THEN Len(rst) + 1 ELSE r
         g  == ip_hash[m.addr]
     IN  /\ prx' = Without(prx, m.rx)
         /\ rst' = IF r = NULL
                   THEN Append(rst, [rx |-> m.rx, gx |-> NULL, aborted |-> FALSE])
                   ELSE rst
         /\ Spawn([f |-> "aar", pc |-> IF g = NULL THEN "end" ELSE "rar",
                   m |-> m, g |-> g, k |-> NULL, r |-> r1, ok |-> FALSE])
         /\ pmark' = [pmark EXCEPT !.rxover = IF RxMet(m.rx, r) THEN @ \cup {m.rx} ELSE @]
  /\ rxnet' = rxnet \ {m}
  /\ UNCHANGED <<ip_hash, pgx, gst, af, gxnet>>

\* Without a state, or without a Gx session in it, the callback fails and
\* nothing is answered.  After an abort the PGW is not asked.
StrTake(m) ==
  /\ m.t = "STR"
  /\ Cardinality(run) < Threads
  /\ LET r == Retrieved(prx, m.rx)
     IN  /\ prx' = Without(prx, m.rx)
         /\ IF r = NULL
            THEN /\ pmark' = [pmark EXCEPT
                      !.rxover = IF RxMet(m.rx, r) THEN @ \cup {m.rx} ELSE @]
                 /\ UNCHANGED run
            ELSE /\ Spawn([f |-> "str", pc |-> IF rst[r].aborted THEN "end" ELSE "rar",
                           m |-> m, g |-> NULL, k |-> NULL, r |-> r,
                           ok |-> rst[r].aborted])
                 /\ UNCHANGED pmark
  /\ rxnet' = rxnet \ {m}
  /\ UNCHANGED <<ip_hash, pgx, gst, rst, af, gxnet>>

-----------------------------------------------------------------------------
(* pcrf_gx_send_rar *)

PcrfKnows(sid) ==
  \/ pgx[sid] # NoEntry
  \/ \E c \in run : c.f \in {"ccr", "raa"} /\ c.m.sid = sid
  \/ \E c \in run : c.k # NULL /\ gst[c.k].sid = sid
  \/ \E m \in gxnet : m.t \in {"RAR", "RAA"} /\ m.sid = sid

\* The Session-Id asked for: an AAR reads it through the pointer of the table,
\* an STR has a copy.  Freed memory may or may not still hold it.
Named(c) == IF c.f = "aar" THEN gst[c.g].sid ELSE rst[c.r].gx
Freed(c) == c.f = "aar" /\ ~gst[c.g].str

RxEntries(k, rx) == {j \in DOMAIN gst[k].rx : gst[k].rx[j].rx = rx}

\* Install for an AAR with a medium that has a rule in the profile; `bad' has
\* none and fails, `none' has no component and needs no rule.
RarInstall(c, k) ==
  LET rx    == c.m.rx
      js    == RxEntries(k, rx)
      rules == c.m.media = "audio" \/ \E j \in js : gst[k].rx[j].rules
      entry == [rx |-> rx, rules |-> rules]
  IN  /\ gst' = [gst EXCEPT ![k].rx =
                   IF js = {} THEN Append(@, entry)
                   ELSE [j \in DOMAIN @ |-> IF j \in js THEN entry ELSE @[j]]]
      /\ Become(c, [c EXCEPT !.k = k, !.ok = c.m.media # "bad",
                      !.pc = IF c.m.media = "audio" THEN "send" ELSE "out"])

\* Remove for an STR.  Without an entry the state is not put back; without
\* rules the caller is told of an error.
RarRemove(c, k) ==
  LET js == RxEntries(k, c.m.rx)
  IN  /\ gst' = [gst EXCEPT ![k].rx = SelectSeq(@, LAMBDA x : x.rx # c.m.rx)]
      /\ Become(c, [c EXCEPT !.k = IF js = {} THEN NULL ELSE k,
                      !.ok = \E j \in js : gst[k].rx[j].rules,
                      !.pc = IF js = {} THEN "end"
                             ELSE IF \E j \in js : gst[k].rx[j].rules THEN "send"
                             ELSE "out"])

RarTakeOut(c, sid) ==
  LET k == Retrieved(pgx, sid)
  IN  /\ PcrfKnows(sid)
      /\ pgx' = Without(pgx, sid)
      /\ IF k = NULL
         THEN Become(c, [c EXCEPT !.pc = "end"]) /\ UNCHANGED gst
         ELSE IF c.f = "aar" THEN RarInstall(c, k) ELSE RarRemove(c, k)
      /\ pmark' = [pmark EXCEPT !.over = IF Met(sid, k) THEN @ \cup {sid} ELSE @]

RarUnknown(c) ==
  /\ Become(c, [c EXCEPT !.pc = "end"])
  /\ UNCHANGED <<pgx, gst, pmark>>

SendRar(c) ==
  /\ c.pc = "rar"
  /\ \/ RarTakeOut(c, Named(c))
     \/ ~PcrfKnows(Named(c)) /\ RarUnknown(c)
     \/ Freed(c) /\ RarUnknown(c)
  /\ UNCHANGED <<ip_hash, prx, rst, rxnet, af, gxnet>>

\* The state is put back; where that fails no request is sent.
SendRarStore(c) ==
  /\ c.pc \in {"send", "out"}
  /\ LET sid == gst[c.k].sid
         asked == c.pc = "send" /\ Storable(pgx, sid)
     IN  /\ pgx' = Stored(pgx, sid, c.k)
         /\ gxnet' = IF asked
                     THEN gxnet \cup {RAR(sid, IF c.f = "aar" THEN "install" ELSE "remove",
                                          c.m.rx, c.k)}
                     ELSE gxnet
         /\ Become(c, [c EXCEPT !.k = NULL, !.pc = "end", !.ok = @ /\ (c.pc = "send" => asked)])
  /\ UNCHANGED <<ip_hash, gst, prx, rst, rxnet, af, pmark>>

\* A success copies the Session-Id, through the same pointer, and stores the
\* Rx state before it answers; a failure answers and cleans the state up.
AarEnd(c) ==
  /\ c.f = "aar" /\ c.pc = "end"
  /\ IF c.ok
     THEN /\ rst' = [rst EXCEPT ![c.r].gx = IF @ = NULL THEN gst[c.g].sid ELSE @]
          /\ prx' = Stored(prx, c.m.rx, c.r)
     ELSE UNCHANGED <<rst, prx>>
  /\ rxnet' = rxnet \cup {[t |-> "AAA", rx |-> c.m.rx, ok |-> c.ok]}
  /\ Done(c)
  /\ UNCHANGED <<ip_hash, pgx, gst, af, pmark, gxnet>>

StrEnd(c) ==
  /\ c.f = "str" /\ c.pc = "end"
  /\ rxnet' = rxnet \cup {[t |-> "STA", rx |-> c.m.rx, ok |-> c.ok]}
  /\ Done(c)
  /\ UNCHANGED <<ip_hash, pgx, gst, prx, rst, af, pmark, gxnet>>

-----------------------------------------------------------------------------
(* pcrf_gx_raa_cb *)

RaaTake(m) ==
  /\ m.t = "RAA"
  /\ Cardinality(run) < Threads
  /\ LET k == Retrieved(pgx, m.sid)
     IN  /\ pgx' = Without(pgx, m.sid)
         /\ IF k = m.data
            THEN Spawn([f |-> "raa", pc |-> "end", m |-> m, k |-> k, r |-> NULL])
            ELSE UNCHANGED run
         /\ pmark' = [pmark EXCEPT
              !.over = IF k \notin {NULL, m.data} \/ Met(m.sid, k) THEN @ \cup {m.sid} ELSE @]
  /\ gxnet' = gxnet \ {m}
  /\ UNCHANGED <<ip_hash, gst, prx, rst, rxnet, af>>

RaaEnd(c) ==
  /\ c.f = "raa"
  /\ pgx' = Stored(pgx, c.m.sid, c.k)
  /\ Done(c)
  /\ UNCHANGED <<ip_hash, gst, prx, rst, rxnet, af, pmark, gxnet>>

\* `refusable' are the CCRs the database may have no data for; `rule', whether
\* the profile has a rule with flows.
PcrfNext(refusable, rule) ==
  \/ \E m \in gxnet : \/ CcrTake(m, TRUE)
                      \/ m.t = "CCR" /\ m.type \in refusable /\ CcrTake(m, FALSE)
                      \/ RaaTake(m)
  \/ \E m \in rxnet : AarTake(m) \/ StrTake(m)
  \/ \E c \in run : \/ CcrAbort(c) \/ CcrAsr(c) \/ CcrEnd(c) \/ CcrAnswer(c, rule)
                    \/ SendRar(c) \/ SendRarStore(c) \/ AarEnd(c) \/ StrEnd(c)
                    \/ RaaEnd(c)

-----------------------------------------------------------------------------
(* The P-CSCF: one session per Rx Session-Id *)

AfAsk(rx, a, media) ==
  /\ af[rx] = "idle"
  /\ af' = [af EXCEPT ![rx] = "asked"]
  /\ rxnet' = rxnet \cup {[t |-> "AAR", rx |-> rx, addr |-> a, media |-> media]}
  /\ UNCHANGED <<ip_hash, pgx, gst, prx, rst, run, pmark, gxnet>>

AfAnswer(m) ==
  /\ m.t \in {"AAA", "STA"}
  /\ rxnet' = rxnet \ {m}
  /\ af' = [af EXCEPT ![m.rx] = IF @ = "asked" /\ m.t = "AAA" /\ m.ok THEN "open"
                                ELSE "closed"]
  /\ UNCHANGED <<ip_hash, pgx, gst, prx, rst, run, pmark, gxnet>>

\* It ends a session by itself, or when it is told to abort.
AfClose(rx) ==
  /\ af[rx] = "open"
  /\ af' = [af EXCEPT ![rx] = "closing"]
  /\ rxnet' = (rxnet \ {[t |-> "ASR", rx |-> rx]}) \cup {[t |-> "STR", rx |-> rx]}
  /\ UNCHANGED <<ip_hash, pgx, gst, prx, rst, run, pmark, gxnet>>
=============================================================================
