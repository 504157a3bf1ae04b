---------------------------- MODULE NasSecurity ----------------------------
(***************************************************************************)
(* The uplink NAS COUNT of an mme_ue_t: 16 bits of overflow and 8 of       *)
(* sequence number, of which a message carries 8 and a SERVICE REQUEST 5.  *)
(***************************************************************************)
EXTENDS Integers, TLAPS

Count == {c \in Nat : c < 16777216}

Sqn(c) == c % 256
Overflow(c) == c \div 256

\* The count after a message that carries the 8 bits s.
SqnReceived(c, s) ==
  (IF Sqn(c) > s THEN (Overflow(c) + 1) % 65536 ELSE Overflow(c)) * 256 + s


\* The 8 bits taken for a SERVICE REQUEST that carries the 5 bits s.
Estimate(c, s) ==
  (((Sqn(c) \div 32) * 32 + (IF Sqn(c) % 32 > s THEN 32 ELSE 0)) % 256) + s

ServiceRequestReceived(c, s) == SqnReceived(c, Estimate(c, s))

-----------------------------------------------------------------------------
(* What the COUNT and the bits a message carries tell. *)

High(c) == Sqn(c) \div 32
Low(c) == c % 32

\* A count is its overflow, the upper 3 and the lower 5 bits of its sequence
\* number.
LEMMA Parts ==
  ASSUME NEW c \in Count
  PROVE  /\ c \in Nat
         /\ Overflow(c) \in Nat /\ Overflow(c) < 65536
         /\ Sqn(c) \in 0..255 /\ High(c) \in 0..7 /\ Low(c) \in 0..31
         /\ c = (256 * Overflow(c)) + Sqn(c)
         /\ Sqn(c) = (32 * High(c)) + Low(c)
         /\ Sqn(c) % 32 = Low(c)
<1>1. c \in Nat /\ c < 16777216
  BY SMT DEF Count
<1>2. /\ Overflow(c) \in Nat /\ Sqn(c) \in 0..255
      /\ c = (256 * Overflow(c)) + Sqn(c)
  BY <1>1, SMT DEF Overflow, Sqn
<1>3. Overflow(c) < 65536
  BY <1>1, <1>2, SMT
<1>4. /\ High(c) \in 0..7
      /\ Sqn(c) % 32 \in 0..31
      /\ Sqn(c) = (32 * High(c)) + (Sqn(c) % 32)
  BY <1>2, SMT DEF High
<1>5. Sqn(c) % 32 = Low(c)
  BY <1>1, SMT DEF Low, Sqn
<1> QED
  BY <1>1, <1>2, <1>3, <1>4, <1>5, SMT

\* A message that comes less than 256 counts after the last one received
\* gives the MME the count its sender used (nas_security_decode).
THEOREM CountRecovered ==
  ASSUME NEW c \in Count, NEW d \in Count, c <= d, d < c + 256
  PROVE  SqnReceived(c, Sqn(d)) = d
<1>1. /\ c \in Nat /\ Overflow(c) \in Nat /\ Sqn(c) \in 0..255
      /\ c = (256 * Overflow(c)) + Sqn(c)
  BY Parts
<1>2. /\ d \in Nat
      /\ Overflow(d) \in Nat /\ Overflow(d) < 65536 /\ Sqn(d) \in 0..255
      /\ d = (256 * Overflow(d)) + Sqn(d)
  BY Parts
<1>3. Overflow(d) = IF Sqn(c) > Sqn(d) THEN Overflow(c) + 1 ELSE Overflow(c)
  <2> DEFINE q == Overflow(c)
             p == Overflow(d)
             r == Sqn(c)
             s == Sqn(d)
  <2>1. q \in Nat /\ p \in Nat /\ r \in 0..255 /\ s \in 0..255
    BY <1>1, <1>2
  <2>2. /\ (256 * q) + r <= (256 * p) + s
        /\ (256 * p) + s < (256 * q) + r + 256
    BY <1>1, <1>2
  <2> HIDE DEF q, p, r, s
  <2>3. p = IF r > s THEN q + 1 ELSE q
    BY <2>1, <2>2, SMT
  <2> QED
    BY <2>3 DEF q, p, r, s
<1>4. Overflow(d) % 65536 = Overflow(d)
  BY <1>2, SMT
<1>5. (IF Sqn(c) > Sqn(d) THEN (Overflow(c) + 1) % 65536 ELSE Overflow(c))
        = Overflow(d)
  BY <1>3, <1>4, SMT
<1> QED
  BY <1>2, <1>5, SMT DEF SqnReceived

\* A SERVICE REQUEST that comes less than 32 counts after the last message
\* received gives the MME the count its sender used (nas_security_decode).
THEOREM EstimateRecovered ==
  ASSUME NEW c \in Count, NEW d \in Count, c <= d, d < c + 32
  PROVE  ServiceRequestReceived(c, Low(d)) = d
<1>1. /\ Overflow(c) \in Nat /\ High(c) \in 0..7 /\ Low(c) \in 0..31
      /\ c = (256 * Overflow(c)) + (32 * High(c)) + Low(c)
      /\ Sqn(c) % 32 = Low(c) /\ c \in Nat
  BY Parts
<1>2. /\ Overflow(d) \in Nat /\ High(d) \in 0..7 /\ Low(d) \in 0..31
      /\ d = (256 * Overflow(d)) + (32 * High(d)) + Low(d)
      /\ Sqn(d) = (32 * High(d)) + Low(d) /\ d \in Nat
  BY Parts
<1>3. ((High(c) * 32) + (IF Low(c) > Low(d) THEN 32 ELSE 0)) % 256
        = 32 * High(d)
  <2> DEFINE q == Overflow(c)
             h == High(c)
             l == Low(c)
             p == Overflow(d)
             g == High(d)
             k == Low(d)
  <2>1. /\ q \in Nat /\ h \in 0..7 /\ l \in 0..31
        /\ p \in Nat /\ g \in 0..7 /\ k \in 0..31
    BY <1>1, <1>2
  <2>2. /\ (256 * q) + (32 * h) + l <= (256 * p) + (32 * g) + k
        /\ (256 * p) + (32 * g) + k < (256 * q) + (32 * h) + l + 32
    BY <1>1, <1>2
  <2> SUFFICES ((h * 32) + (IF l > k THEN 32 ELSE 0)) % 256 = 32 * g
    OBVIOUS
  <2> HIDE DEF q, h, l, p, g, k
  <2>3. CASE l > k
    <3>1. g = h + 1 \/ (g = 0 /\ h = 7)
      BY <2>1, <2>2, <2>3, SMT
    <3>2. ((h * 32) + 32) % 256 = 32 * g
      BY <2>1, <3>1, SMT
    <3> QED
      BY <2>3, <3>2, SMT
  <2>4. CASE ~(l > k)
    <3>1. g = h
      BY <2>1, <2>2, <2>4, SMT
    <3>2. ((h * 32) + 0) % 256 = 32 * g
      BY <2>1, <3>1, SMT
    <3> QED
      BY <2>4, <3>2, SMT
  <2> QED
    BY <2>3, <2>4
<1>4. Estimate(c, Low(d)) = Sqn(d)
  BY <1>1, <1>2, <1>3, SMT DEF Estimate, High
<1>5. d < c + 256
  BY <1>1, <1>2, SMT
<1> QED
  BY <1>4, <1>5, CountRecovered, SMT DEF ServiceRequestReceived
=============================================================================
