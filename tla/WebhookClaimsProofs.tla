------------------------ MODULE WebhookClaimsProofs -------------------------
(***************************************************************************)
(* What the claim of an event id is good for: no event is attested more    *)
(* often than its claim can have lapsed, and none that was acknowledged is *)
(* lost while nothing fails.                                               *)
(*                                                                         *)
(* Entries do not say which event they are about, only which invoice, and  *)
(* several events may be about one.  The invariant therefore says that     *)
(* entries can be attributed: each to an event of its invoice and to the   *)
(* moment of a claim to that event, two of one event at least Ttl apart,   *)
(* and none to the claim a request is still working under.                 *)
(***************************************************************************)
EXTENDS WebhookIngestProofs, FiniteSetTheorems

-----------------------------------------------------------------------------
(***************************************************************************)
(* Division by the length of a claim.                                      *)
(***************************************************************************)
LEMMA Quotient ==
  ASSUME NEW n \in Nat
  PROVE  /\ n \div Ttl \in Nat
         /\ Ttl * (n \div Ttl) <= n
         /\ n < Ttl * (n \div Ttl) + Ttl
<1>0. Ttl \in Nat /\ Ttl > 0
  BY Bounds
<1>1. n \div Ttl \in Int
  BY <1>0
<1>2. Ttl * (n \div Ttl) <= n /\ n < Ttl * (n \div Ttl) + Ttl
  BY <1>0, Z3
<1>3. n \div Ttl \in Nat
  BY <1>0, <1>1, <1>2, Z3
<1> QED
  BY <1>2, <1>3

LEMMA QuotientsOrdered ==
  ASSUME NEW m \in Nat, NEW n \in Nat
  PROVE  /\ m <= n => m \div Ttl <= n \div Ttl
         /\ m + Ttl <= n => m \div Ttl < n \div Ttl
         /\ n \div Ttl <= n
<1> DEFINE p == m \div Ttl
           q == n \div Ttl
<1>0. Ttl \in Nat /\ Ttl > 0
  BY Bounds
<1>1. /\ p \in Nat /\ Ttl * p <= m /\ m < Ttl * p + Ttl
      /\ q \in Nat /\ Ttl * q <= n /\ n < Ttl * q + Ttl
  BY Quotient
<1> HIDE DEF p, q
<1>2. \A x, y \in Nat : x <= y => Ttl * x <= Ttl * y
  BY <1>0, Z3
<1>3. Ttl * (q + 1) = Ttl * q + Ttl /\ Ttl * (p + 1) = Ttl * p + Ttl
  BY <1>0, <1>1, Z3
<1>4. m <= n => p <= q
  <2> SUFFICES ASSUME m <= n, q + 1 <= p PROVE FALSE
    BY <1>1
  <2>1. Ttl * (q + 1) <= Ttl * p /\ Ttl * p \in Nat /\ Ttl * q \in Nat
    BY <1>0, <1>1, <1>2
  <2> QED
    BY <1>0, <1>1, <1>3, <2>1
<1>5. m + Ttl <= n => p < q
  <2> SUFFICES ASSUME m + Ttl <= n, q <= p PROVE FALSE
    BY <1>1
  <2>1. Ttl * q <= Ttl * p /\ Ttl * p \in Nat /\ Ttl * q \in Nat
    BY <1>0, <1>1, <1>2
  <2> QED
    BY <1>0, <1>1, <2>1
<1>6. q <= n
  <2>1. 1 * q <= Ttl * q
    BY <1>0, <1>1, Z3
  <2> QED
    BY <1>0, <1>1, <2>1
<1> QED
  BY <1>4, <1>5, <1>6 DEF p, q

-----------------------------------------------------------------------------
(***************************************************************************)
(* A claim was made once the event had happened, and is of this moment or  *)
(* an earlier one.                                                         *)
(***************************************************************************)
Expiry(e) == reserved["upstash"][e]

ClaimsDated ==
  \A e \in Events :
    /\ happened[e] # NoEvent => happened[e].ts <= clock
    /\ Expiry(e) # 0 => /\ happened[e] # NoEvent
                        /\ happened[e].ts + Ttl <= Expiry(e)
                        /\ Expiry(e) <= clock + Ttl

Attested == {k \in DOMAIN ledger : ledger[k].decisionRef \in Invoices}

Attribution == [event : Events, claim : Nat]

Attributes(to) ==
  /\ to \in [Attested -> Attribution]
  /\ \A k \in Attested :
       /\ InvoiceOf[to[k].event] = ledger[k].decisionRef
       /\ happened[to[k].event] # NoEvent
       /\ happened[to[k].event].ts <= to[k].claim
       /\ to[k].claim + Ttl <= Expiry(to[k].event)
  /\ \A k, l \in Attested :
       k # l /\ to[k].event = to[l].event =>
         to[k].claim + Ttl <= to[l].claim \/ to[l].claim + Ttl <= to[k].claim
  /\ \A h \in Requests : \A k \in Attested :
       Processing(h) /\ to[k].event = job[h] =>
         to[k].claim + Ttl + Ttl <= Expiry(job[h])

OnceInv == ClaimInv /\ AttestInv /\ ClaimsDated /\ \E to : Attributes(to)

-----------------------------------------------------------------------------
(***************************************************************************)
(* An attribution bounds the entries of an invoice.                        *)
(***************************************************************************)
LEMMA AttributedOncePerWindow ==
  ASSUME IsFiniteSet(Events), IngestInv, Idempotency = "upstash", ClaimsDated,
         NEW to, Attributes(to)
  PROVE  AttestedOncePerWindow
<1> SUFFICES ASSUME NEW i \in Invoices
             PROVE  Cardinality(EntriesFor(i))
                      <= Cardinality(UNION {{e} \X Windows(e) : e \in EventsOf(i)})
  BY DEF AttestedOncePerWindow
<1> DEFINE slots == UNION {{e} \X Windows(e) : e \in EventsOf(i)}
           windowOf(k) == 1 + (to[k].claim - happened[to[k].event].ts) \div Ttl
           slot == [k \in EntriesFor(i) |-> <<to[k].event, windowOf(k)>>]
<1>0. /\ clock \in Nat /\ Ttl \in Nat /\ Ttl > 0
      /\ \A e \in Events : happened[e] # NoEvent =>
           happened[e].ts \in Nat /\ happened[e].ts <= clock
      /\ \A e \in Events : Expiry(e) \in Nat
  BY Bounds DEF IngestInv, WorldOK, Failure, ClaimsDated, StoresOK, ReservationMaps, Expiry
<1>1. ASSUME NEW k \in EntriesFor(i)
      PROVE  /\ k \in Attested /\ to[k].event \in EventsOf(i) /\ to[k].event \in Events
             /\ to[k].claim \in Nat /\ happened[to[k].event].ts \in Nat
             /\ happened[to[k].event].ts <= to[k].claim /\ to[k].claim <= clock
  <2>1. k \in Attested /\ ledger[k].decisionRef = i
    BY <1>1 DEF EntriesFor, Attested
  <2>2. to[k] \in Attribution
    BY <2>1 DEF Attributes
  <2>3. /\ InvoiceOf[to[k].event] = i /\ happened[to[k].event] # NoEvent
        /\ happened[to[k].event].ts <= to[k].claim
        /\ to[k].claim + Ttl <= Expiry(to[k].event)
    BY <2>1 DEF Attributes
  <2>4. to[k].event \in Events /\ to[k].claim \in Nat
    BY <2>2 DEF Attribution
  <2>5. Expiry(to[k].event) <= clock + Ttl
    BY <1>0, <2>3, <2>4 DEF ClaimsDated
  <2> QED
    BY <1>0, <2>1, <2>3, <2>4, <2>5 DEF EventsOf
<1>2. ASSUME NEW k \in EntriesFor(i)
      PROVE  slot[k] \in slots
  <2> DEFINE e == to[k].event
             m == to[k].claim - happened[e].ts
             n == clock - happened[e].ts
  <2>1. m \in Nat /\ n \in Nat /\ m <= n
    BY <1>0, <1>1
  <2>2. m \div Ttl \in Nat /\ n \div Ttl \in Nat /\ m \div Ttl <= n \div Ttl
    BY <2>1, Quotient, QuotientsOrdered
  <2>3. windowOf(k) \in Windows(e)
    BY <2>2 DEF Windows
  <2>4. slot[k] \in {e} \X Windows(e)
    BY <2>3
  <2> QED
    BY <1>1, <2>4
<1>3. ASSUME NEW k \in EntriesFor(i), NEW l \in EntriesFor(i), slot[k] = slot[l]
      PROVE  k = l
  <2> SUFFICES ASSUME k # l PROVE FALSE
    OBVIOUS
  <2> DEFINE e == to[k].event
             m == to[k].claim - happened[e].ts
             n == to[l].claim - happened[e].ts
  <2>1. to[l].event = e /\ windowOf(k) = windowOf(l)
    BY <1>3, Zenon
  <2>2. m \in Nat /\ n \in Nat
    BY <1>1, <2>1
  <2>3. m + Ttl <= n \/ n + Ttl <= m
    <3>1. to[k].claim + Ttl <= to[l].claim \/ to[l].claim + Ttl <= to[k].claim
      BY <1>1, <2>1 DEF Attributes
    <3> QED
      BY <1>0, <1>1, <2>1, <3>1
  <2>4. m \div Ttl < n \div Ttl \/ n \div Ttl < m \div Ttl
    BY <2>2, <2>3, QuotientsOrdered
  <2>5. m \div Ttl \in Nat /\ n \div Ttl \in Nat
    BY <2>2, Quotient
  <2>6. 1 + m \div Ttl = 1 + n \div Ttl
    BY <2>1, Zenon
  <2> QED
    BY <2>4, <2>5, <2>6
<1>4. slot \in Injection(EntriesFor(i), slots)
  BY <1>2, <1>3 DEF Injection, IsInjective
<1>5. IsFiniteSet(slots)
  <2>1. slots \subseteq Events \X (1 .. clock + 1)
    <3>1. ASSUME NEW e \in EventsOf(i), NEW w \in Windows(e)
          PROVE  e \in Events /\ w \in 1 .. clock + 1
      <4>1. e \in Events /\ clock - happened[e].ts \in Nat /\ happened[e].ts \in Nat
        BY <1>0 DEF EventsOf
      <4>2. (clock - happened[e].ts) \div Ttl <= clock - happened[e].ts
        BY <4>1, QuotientsOrdered
      <4>3. (clock - happened[e].ts) \div Ttl \in Nat
        BY <4>1, Quotient
      <4> QED
        BY <1>0, <4>1, <4>2, <4>3 DEF Windows
    <3> QED
      BY <3>1
  <2>2. IsFiniteSet(Events \X (1 .. clock + 1))
    <3>1. 1 \in Int /\ clock + 1 \in Int
      BY <1>0
    <3>2. IsFiniteSet(1 .. clock + 1)
      BY <3>1, FS_Interval
    <3> QED
      BY <3>2, FS_Product
  <2> QED
    BY <2>1, <2>2, FS_Subset
<1> QED
  BY <1>4, <1>5, FS_Injection

-----------------------------------------------------------------------------
(***************************************************************************)
(* Steps that append nothing, claim nothing and bring no request past the  *)
(* reservation.                                                            *)
(***************************************************************************)
LEMMA SameAttribution ==
  ASSUME Idempotency = "upstash", OnceInv, ClaimInv', AttestInv',
         UNCHANGED <<ledger, reserved>>, clock' >= clock,
         \A e \in Events : \/ happened'[e] = happened[e]
                           \/ happened[e] = NoEvent /\ happened'[e].ts <= clock',
         \A g \in Requests : Processing(g)' => Processing(g) /\ job'[g] = job[g]
  PROVE  OnceInv'
<1>0. /\ ClaimsDated /\ WorldOK /\ clock \in Nat /\ clock' \in Nat
      /\ Ttl \in Nat
      /\ \A e \in Events : Expiry(e) \in Nat /\ Expiry(e)' = Expiry(e)
      /\ \A e \in Events : happened[e] # NoEvent => happened[e].ts \in Nat
  <2>1. ClaimsDated /\ WorldOK /\ WorldOK' /\ StoresOK
    BY DEF OnceInv, ClaimInv, IngestInv
  <2>2. clock \in Nat /\ clock' \in Nat /\ Ttl \in Nat
    BY <2>1, Bounds DEF WorldOK
  <2> QED
    BY <2>1, <2>2 DEF WorldOK, Failure, Expiry, StoresOK, ReservationMaps
<1>1. ClaimsDated'
  <2>1. ASSUME NEW e \in Events
        PROVE  /\ happened'[e] # NoEvent => happened'[e].ts <= clock'
               /\ Expiry(e)' # 0 => /\ happened'[e] # NoEvent
                                    /\ happened'[e].ts + Ttl <= Expiry(e)'
                                    /\ Expiry(e)' <= clock' + Ttl
    <3>1. CASE happened'[e] = happened[e]
      BY <1>0, <3>1 DEF ClaimsDated
    <3>2. CASE happened'[e] # happened[e]
      BY <1>0, <3>2 DEF ClaimsDated
    <3> QED
      BY <3>1, <3>2
  <2> QED
    BY <2>1 DEF ClaimsDated
<1>2. PICK to : Attributes(to)
  BY DEF OnceInv
<1>3. Attested' = Attested
  BY DEF Attested, Invoices
<1>4. \A k \in Attested : /\ to[k].event \in Events
                         /\ happened'[to[k].event] = happened[to[k].event]
  <2>1. ASSUME NEW k \in Attested
        PROVE  to[k].event \in Events /\ happened'[to[k].event] = happened[to[k].event]
    <3>1. to[k] \in Attribution /\ happened[to[k].event] # NoEvent
      BY <1>2 DEF Attributes
    <3> QED
      BY <3>1 DEF Attribution
  <2> QED
    BY <2>1
<1>5. \A g \in Requests : Processing(g) => job[g] \in Events
  BY DEF Processing
<1> HIDE DEF OnceInv
<1>6. Attributes(to)'
  <2>1. to \in [Attested' -> Attribution]
    BY <1>2, <1>3 DEF Attributes
  <2>2. \A k \in Attested' :
          /\ InvoiceOf[to[k].event] = ledger'[k].decisionRef
          /\ happened'[to[k].event] # NoEvent
          /\ happened'[to[k].event].ts <= to[k].claim
          /\ to[k].claim + Ttl <= Expiry(to[k].event)'
    BY <1>0, <1>2, <1>3, <1>4 DEF Attributes
  <2>3. \A k, l \in Attested' :
          k # l /\ to[k].event = to[l].event =>
            to[k].claim + Ttl <= to[l].claim \/ to[l].claim + Ttl <= to[k].claim
    BY <1>2, <1>3 DEF Attributes
  <2>4. \A h \in Requests : \A k \in Attested' :
          Processing(h)' /\ to[k].event = job'[h] =>
            to[k].claim + Ttl + Ttl <= Expiry(job[h])
    BY <1>2, <1>3 DEF Attributes
  <2>5. \A h \in Requests : Processing(h)' =>
          reserved'["upstash"][job'[h]] = reserved["upstash"][job[h]]
    OBVIOUS
  <2> QED
    BY <2>1, <2>2, <2>3, <2>4, <2>5 DEF Attributes, Attribution, Expiry
<1> QED
  BY <1>1, <1>6 DEF OnceInv

(***************************************************************************)
(* A claim: whatever the event's entries are attributed to has lapsed.     *)
(***************************************************************************)
LEMMA ReserveClaims ==
  ASSUME Idempotency = "upstash", ClaimInv, NEW h \in Requests, Reserve(h),
         NEW e, e = job[h]
  PROVE  /\ e \in Events /\ happened[e] # NoEvent
         /\ Expiry(e) <= clock /\ Expiry(e)' = clock + Ttl
         /\ \A f \in Events : f # e => Expiry(f)' = Expiry(f)
         /\ \A g \in Requests : Processing(g)' =>
              \/ g = h /\ job'[g] = e
              \/ Processing(g) /\ job'[g] = job[g] /\ job[g] # e
<1>1. IngestInv /\ StoresOK /\ HoldsWhatItNeeds(h) /\ clock \in Nat /\ Ttl \in Nat
  BY Bounds DEF ClaimInv, IngestInv
<1>2. e \in Events /\ happened[e] # NoEvent
  BY <1>1 DEF Reserve, HoldsWhatItNeeds
<1>3. /\ reserved["upstash"][e] \in Nat
      /\ reserved["upstash"][e] <= clock
      /\ reserved' = [reserved EXCEPT !["upstash"][e] = clock + Ttl]
      /\ reserved \in [{"upstash"} -> [Events -> Nat]]
  BY <1>1, <1>2 DEF Reserve, Claimed, Claim, MapOf, StoresOK, ReservationMaps
<1>4. /\ reserved'["upstash"][e] = clock + Ttl
      /\ \A f \in Events : f # e => reserved'["upstash"][f] = reserved["upstash"][f]
  BY <1>2, <1>3
<1>5. \A g \in Requests : Processing(g) => job[g] # e
  BY <1>1, <1>2, <1>3 DEF ClaimInv, ClaimLive
<1>6. (\E ok \in BOOLEAN : Answer(h, ok)) \/ Await(h, "insert", NoDecision)
  BY DEF Reserve, FailsAfterEffect
<1>7. \A g \in Requests : Processing(g)' =>
        \/ g = h /\ job'[g] = e
        \/ Processing(g) /\ job'[g] = job[g] /\ job[g] # e
  BY <1>1, <1>5, <1>6, AnswerEndsProcessing, AwaitKeepsJob
<1> QED
  BY <1>2, <1>3, <1>4, <1>7 DEF Expiry

LEMMA ReserveKeepsAttribution ==
  ASSUME Idempotency = "upstash", OnceInv, ClaimInv', AttestInv',
         NEW h \in Requests, Reserve(h)
  PROVE  OnceInv'
<1>e. PICK e : e = job[h]
  OBVIOUS
<1>0. /\ ClaimsDated /\ clock \in Nat /\ Ttl \in Nat /\ Ttl > 0
      /\ \A f \in Events : Expiry(f) \in Nat
      /\ UNCHANGED <<ledger, clock, happened>>
  <2>1. ClaimsDated /\ WorldOK /\ StoresOK
    BY DEF OnceInv, ClaimInv, IngestInv
  <2> QED
    BY <2>1, Bounds
       DEF Reserve, ledgerVars, stripeVars, StoresOK, ReservationMaps, Expiry
<1>1. /\ e \in Events /\ happened[e] # NoEvent
      /\ Expiry(e) <= clock /\ Expiry(e)' = clock + Ttl
      /\ \A f \in Events : f # e => Expiry(f)' = Expiry(f)
      /\ \A g \in Requests : Processing(g)' =>
           \/ g = h /\ job'[g] = e
           \/ Processing(g) /\ job'[g] = job[g] /\ job[g] # e
  BY <1>e, ReserveClaims DEF OnceInv
<1>2. happened[e].ts \in Nat /\ happened[e].ts <= clock
  BY <1>0, <1>1 DEF OnceInv, ClaimInv, IngestInv, WorldOK, Failure, ClaimsDated
<1>3. ClaimsDated'
  <2>1. ASSUME NEW f \in Events
        PROVE  /\ happened'[f] # NoEvent => happened'[f].ts <= clock'
               /\ Expiry(f)' # 0 => /\ happened'[f] # NoEvent
                                    /\ happened'[f].ts + Ttl <= Expiry(f)'
                                    /\ Expiry(f)' <= clock' + Ttl
    <3>1. CASE f = e
      BY <1>0, <1>1, <1>2, <3>1
    <3>2. CASE f # e
      BY <1>0, <1>1, <3>2 DEF ClaimsDated
    <3> QED
      BY <3>1, <3>2
  <2> QED
    BY <2>1 DEF ClaimsDated
<1>4. PICK to : Attributes(to)
  BY DEF OnceInv
<1>5. Attested' = Attested
  BY <1>0 DEF Attested, Invoices
<1>6. ASSUME NEW k \in Attested
      PROVE  /\ to[k].event \in Events /\ to[k].claim \in Nat
             /\ InvoiceOf[to[k].event] = ledger'[k].decisionRef
             /\ happened'[to[k].event] # NoEvent
             /\ happened'[to[k].event].ts <= to[k].claim
             /\ to[k].claim + Ttl <= Expiry(to[k].event)'
             /\ to[k].event = e => to[k].claim + Ttl + Ttl <= Expiry(e)'
  <2>1. /\ to[k] \in Attribution
        /\ InvoiceOf[to[k].event] = ledger[k].decisionRef
        /\ happened[to[k].event] # NoEvent
        /\ happened[to[k].event].ts <= to[k].claim
        /\ to[k].claim + Ttl <= Expiry(to[k].event)
    BY <1>4 DEF Attributes
  <2>2. to[k].event \in Events /\ to[k].claim \in Nat
    BY <2>1 DEF Attribution
  <2>3. /\ to[k].claim + Ttl <= Expiry(to[k].event)'
        /\ to[k].event = e => to[k].claim + Ttl + Ttl <= Expiry(e)'
    <3>1. CASE to[k].event = e
      <4>1. to[k].claim + Ttl <= Expiry(e)
        BY <2>1, <3>1
      <4>2. Expiry(to[k].event)' = clock + Ttl
        BY <1>1, <3>1
      <4> QED
        BY <1>0, <1>1, <2>2, <4>1, <4>2
    <3>2. CASE to[k].event # e
      BY <1>1, <2>1, <2>2, <3>2
    <3> QED
      BY <3>1, <3>2
  <2> QED
    BY <1>0, <2>1, <2>2, <2>3
<1>7. ASSUME NEW g \in Requests, NEW k \in Attested,
             Processing(g)', to[k].event = job'[g]
      PROVE  to[k].claim + Ttl + Ttl <= reserved'["upstash"][job'[g]]
  <2>1. CASE job'[g] = e
    BY <1>6, <1>7, <2>1 DEF Expiry
  <2>2. CASE job'[g] # e
    <3>1. Processing(g) /\ job'[g] = job[g] /\ job[g] \in Events
      BY <1>1, <1>7, <2>2 DEF Processing
    <3>2. to[k].claim + Ttl + Ttl <= Expiry(job[g])
      BY <1>4, <1>7, <3>1 DEF Attributes
    <3> QED
      BY <1>1, <2>2, <3>1, <3>2 DEF Expiry
  <2> QED
    BY <2>1, <2>2
<1>8. Attributes(to)'
  <2>1. to \in [Attested' -> Attribution]
    BY <1>4, <1>5 DEF Attributes
  <2>2. \A k, l \in Attested' :
          k # l /\ to[k].event = to[l].event =>
            to[k].claim + Ttl <= to[l].claim \/ to[l].claim + Ttl <= to[k].claim
    BY <1>4, <1>5 DEF Attributes
  <2> QED
    BY <1>5, <1>6, <1>7, <2>1, <2>2 DEF Attributes, Attribution, Expiry
<1> QED
  BY <1>3, <1>8 DEF OnceInv

(***************************************************************************)
(* An append: the new entry is attributed to the claim the request works   *)
(* under, which no other request shares.                                   *)
(***************************************************************************)
LEMMA AppendKeepsAttribution ==
  ASSUME Idempotency = "upstash", OnceInv, ClaimInv', AttestInv',
         NEW h \in Requests, AppendAudit(h)
  PROVE  OnceInv'
<1>e. PICK e, n : e = job[h] /\ n = Len(ledger) + 1
  OBVIOUS
<1>0. /\ ClaimsDated /\ clock \in Nat /\ Ttl \in Nat /\ Ttl > 0
      /\ \A f \in Events : Expiry(f) \in Nat
      /\ UNCHANGED <<clock, happened, reserved>>
      /\ IngestInv /\ HoldsWhatItNeeds(h) /\ SealsItsOwn(h)
  <2>1. /\ ClaimsDated /\ WorldOK /\ StoresOK
        /\ IngestInv /\ HoldsWhatItNeeds(h) /\ SealsItsOwn(h)
    BY DEF OnceInv, ClaimInv, IngestInv, AttestInv
  <2> QED
    BY <2>1, Bounds
       DEF AppendAudit, storeVars, stripeVars, StoresOK, ReservationMaps, Expiry
<1>1. /\ pc[h] = "append"
      /\ ledger \in Seq(AuditEntry) /\ ledger' = Append(ledger, pending[h])
      /\ pending[h] \in AuditEntry /\ pending[h].decisionRef = RefOf(e)
      /\ e \in Events \cup {Probe}
  BY <1>e, <1>0 DEF AppendAudit, Insert, SealsItsOwn, HoldsWhatItNeeds, IngestInv, LedgerTypeOK
<1>2. /\ DOMAIN ledger' = DOMAIN ledger \cup {n} /\ n \notin DOMAIN ledger
      /\ ledger'[n] = pending[h]
      /\ \A k \in DOMAIN ledger : ledger'[k] = ledger[k]
  BY <1>e, <1>1, AppendProperties
<1>3. \A g \in Requests : Processing(g)' => g # h /\ Processing(g) /\ job'[g] = job[g]
  <2>1. \E ok \in BOOLEAN : Answer(h, ok)
    BY DEF AppendAudit, FailsAfterEffect
  <2> QED
    BY <1>0, <2>1, AnswerEndsProcessing
<1>4. ClaimsDated'
  BY <1>0 DEF ClaimsDated, Expiry
<1>5. PICK to : Attributes(to)
  BY DEF OnceInv
<1>6. CASE e = Probe
  <2>1. Attested' = Attested
    BY <1>1, <1>2, <1>6 DEF Attested, Invoices, RefOf
  <2>2. Attributes(to)'
    BY <1>0, <1>2, <1>3, <1>5, <2>1 DEF Attributes, Attribution, Attested, Expiry
  <2> QED
    BY <1>4, <2>2 DEF OnceInv
<1>7. CASE e # Probe
  <2> DEFINE now == [event |-> e, claim |-> Expiry(e) - Ttl]
  <2>0. PICK to1 : to1 = [k \in Attested' |-> IF k = n THEN now ELSE to[k]]
    OBVIOUS
  <2>1. e \in Events /\ Processing(h) /\ InvoiceOf[e] \in Invoices
    BY <1>e, <1>1, <1>7, IngestAssumption DEF Processing, IngestAssumption, Invoices
  <2>2. /\ happened[e] # NoEvent /\ happened[e].ts \in Nat
        /\ Expiry(e) > clock /\ happened[e].ts + Ttl <= Expiry(e)
    <3>1. happened[e] # NoEvent /\ WorldOK
      BY <1>e, <1>0, <2>1 DEF HoldsWhatItNeeds, IngestInv
    <3>2. Expiry(e) > clock
      BY <1>e, <2>1 DEF OnceInv, ClaimInv, ClaimLive, Expiry
    <3> QED
      BY <1>0, <2>1, <3>1, <3>2 DEF ClaimsDated, WorldOK, Failure
  <2>3. now \in Attribution
    BY <1>0, <2>1, <2>2 DEF Attribution
  <2>4. Attested' = Attested \cup {n} /\ n \notin Attested
    BY <1>1, <1>2, <1>7, <2>1 DEF Attested, Invoices, RefOf
  <2>5. \A k \in Attested : to1[k] = to[k]
    BY <2>0, <2>4
  <2>6. to1[n] = now /\ ledger'[n].decisionRef = InvoiceOf[e]
    BY <1>1, <1>2, <1>7, <2>0, <2>4 DEF RefOf
  <2>7. ASSUME NEW k \in Attested
        PROVE  /\ to[k].event \in Events /\ to[k].claim \in Nat
               /\ InvoiceOf[to[k].event] = ledger'[k].decisionRef
               /\ happened[to[k].event] # NoEvent
               /\ happened[to[k].event].ts <= to[k].claim
               /\ to[k].claim + Ttl <= Expiry(to[k].event)
               /\ to[k].event = e => to[k].claim + Ttl + Ttl <= Expiry(e)
    <3>1. to[k] \in Attribution /\ ledger'[k] = ledger[k]
      BY <1>2, <1>5 DEF Attributes, Attested
    <3>2. to[k].event = e => to[k].claim + Ttl + Ttl <= Expiry(e)
      BY <1>e, <1>5, <2>1 DEF Attributes
    <3> QED
      BY <1>5, <3>1, <3>2 DEF Attributes, Attribution
  <2>8. now.event = e /\ now.claim = Expiry(e) - Ttl
    OBVIOUS
  <2> HIDE DEF now
  <2>9. to1 \in [Attested' -> Attribution]
    BY <1>5, <2>0, <2>3, <2>4 DEF Attributes
  <2>10. \A k \in Attested' :
           /\ InvoiceOf[to1[k].event] = ledger'[k].decisionRef
           /\ happened'[to1[k].event] # NoEvent
           /\ happened'[to1[k].event].ts <= to1[k].claim
           /\ to1[k].claim + Ttl <= Expiry(to1[k].event)'
    <3>1. ASSUME NEW k \in Attested
          PROVE  /\ InvoiceOf[to1[k].event] = ledger'[k].decisionRef
                 /\ happened'[to1[k].event] # NoEvent
                 /\ happened'[to1[k].event].ts <= to1[k].claim
                 /\ to1[k].claim + Ttl <= Expiry(to1[k].event)'
      BY <1>0, <2>5, <2>7 DEF Expiry
    <3>2. /\ happened'[to1[n].event].ts <= to1[n].claim
          /\ to1[n].claim + Ttl <= Expiry(to1[n].event)'
      <4>1. Expiry(e)' = Expiry(e) /\ Expiry(e) \in Nat
        BY <1>0, <2>1 DEF Expiry
      <4> QED
        BY <1>0, <2>2, <2>6, <2>8, <4>1
    <3> QED
      BY <1>0, <2>2, <2>4, <2>6, <2>8, <3>1, <3>2
  <2>11. \A k, l \in Attested' :
           k # l /\ to1[k].event = to1[l].event =>
             to1[k].claim + Ttl <= to1[l].claim \/ to1[l].claim + Ttl <= to1[k].claim
    <3>1. \A k \in Attested : to[k].event = e => to[k].claim + Ttl <= now.claim
      <4>1. ASSUME NEW k \in Attested, to[k].event = e
            PROVE  to[k].claim + Ttl <= now.claim
        <5>1. Expiry(e) \in Nat /\ to[k].claim \in Nat
          BY <1>0, <2>1, <2>7
        <5>2. to[k].claim + Ttl + Ttl <= Expiry(e)
          BY <2>7, <4>1
        <5> QED
          BY <1>0, <2>8, <5>1, <5>2
      <4> QED
        BY <4>1
    <3>2. \A k, l \in Attested :
            k # l /\ to[k].event = to[l].event =>
              to[k].claim + Ttl <= to[l].claim \/ to[l].claim + Ttl <= to[k].claim
      BY <1>5 DEF Attributes
    <3> QED
      BY <2>4, <2>5, <2>6, <2>8, <3>1, <3>2
  <2>12. ASSUME NEW g \in Requests, NEW k \in Attested',
                Processing(g)', to1[k].event = job'[g]
         PROVE  to1[k].claim + Ttl + Ttl <= reserved'["upstash"][job'[g]]
    <3>1. g # h /\ Processing(g) /\ job'[g] = job[g] /\ job[g] # e
      BY <1>e, <1>3, <2>1, <2>12 DEF OnceInv, ClaimInv, OneRequestPerEvent
    <3>2. k \in Attested /\ to1[k] = to[k]
      BY <2>4, <2>5, <2>6, <2>8, <2>12, <3>1
    <3>3. to[k].claim + Ttl + Ttl <= Expiry(job[g])
      BY <1>5, <2>12, <3>1, <3>2 DEF Attributes
    <3> QED
      BY <1>0, <3>1, <3>2, <3>3 DEF Expiry
  <2>13. Attributes(to1)'
    BY <2>9, <2>10, <2>11, <2>12 DEF Attributes, Attribution, Expiry
  <2> QED
    BY <1>4, <2>13 DEF OnceInv
<1> QED
  BY <1>6, <1>7

LEMMA OnceInvInductive ==
  ASSUME Idempotency = "upstash"
  PROVE  OnceInv /\ [Next]_vars => OnceInv'
<1> SUFFICES ASSUME OnceInv, [Next]_vars PROVE OnceInv'
  OBVIOUS
<1>0. /\ ClaimInv' /\ AttestInv' /\ IngestInv /\ RequestsOK /\ StoresOK
      /\ clock \in Nat
  <2>1. ClaimInv' /\ AttestInv'
    BY ClaimInvInductive, AttestInvInductive DEF OnceInv
  <2> QED
    BY <2>1, Bounds DEF OnceInv, ClaimInv, IngestInv
<1>1. CASE Tick
  <2>1. \A g \in Requests : ~ Processing(g)'
    BY <1>1 DEF Tick, Processing, requestVars
  <2>2. UNCHANGED <<ledger, reserved, happened>> /\ clock' >= clock
    BY <1>0, <1>1 DEF Tick, stripeVars, storeVars, ledgerVars
  <2> QED
    BY <1>0, <2>1, <2>2, SameAttribution
<1>2. ASSUME NEW e \in Events, PaymentFails(e)
      PROVE  OnceInv'
  <2>1. /\ UNCHANGED <<ledger, reserved, clock, pc, job>>
        /\ \A f \in Events : \/ happened'[f] = happened[f]
                             \/ happened[f] = NoEvent /\ happened'[f].ts <= clock'
    BY <1>0, <1>2 DEF PaymentFails, storeVars, requestVars, ledgerVars, IngestInv, WorldOK
  <2> QED
    BY <1>0, <2>1, SameAttribution DEF Processing
<1>3. ASSUME NEW e \in Events, RefuseDelivery(e)
      PROVE  OnceInv'
  <2>1. UNCHANGED <<ledger, reserved, clock, happened, pc, job>>
    BY <1>3 DEF RefuseDelivery, storeVars, requestVars, ledgerVars
  <2> QED
    BY <1>0, <2>1, SameAttribution DEF Processing
<1>4. ASSUME NEW h \in Requests, NEW e \in Events, Deliver(h, e)
      PROVE  OnceInv'
  <2>1. /\ UNCHANGED <<ledger, reserved, clock, happened>>
        /\ \A g \in Requests : Processing(g)' => Processing(g) /\ job'[g] = job[g]
    BY <1>0, <1>4 DEF Deliver, Processing, RequestsOK, storeVars, ledgerVars
  <2> QED
    BY <1>0, <2>1, SameAttribution
<1>5. ASSUME NEW h \in Requests, StartProbe(h)
      PROVE  OnceInv'
  <2>1. /\ UNCHANGED <<ledger, reserved, clock, happened>>
        /\ \A g \in Requests : Processing(g)' => Processing(g) /\ job'[g] = job[g]
    BY <1>0, <1>5, IngestAssumption
       DEF StartProbe, Processing, RequestsOK, stripeVars, storeVars, ledgerVars,
           IngestAssumption
  <2> QED
    BY <1>0, <2>1, SameAttribution
<1>6. ASSUME NEW h \in Requests, HandlerStep(h)
      PROVE  OnceInv'
  <2>1. CASE Reserve(h)
    BY <1>0, <2>1, ReserveKeepsAttribution
  <2>2. CASE AppendAudit(h)
    BY <1>0, <2>2, AppendKeepsAttribution
  <2>3. CASE ~ Reserve(h) /\ ~ AppendAudit(h)
    <3>1. UNCHANGED <<ledger, reserved, clock, happened>>
      BY <1>6, <2>3
         DEF HandlerStep, Duplicate, InsertPayment, ReadHistory, Schedule, SaveDecision,
             ReadHead, ReadLatest, AppendRejected, InsertRejected, stripeVars, storeVars,
             ledgerVars
    <3>2. \/ \E ok \in BOOLEAN : Answer(h, ok)
          \/ /\ pc[h] \notin {"idle", "reserve"}
             /\ \E next, decision : Await(h, next, decision)
      BY <1>6, <2>3
         DEF HandlerStep, Duplicate, InsertPayment, ReadHistory, DecideNow, Schedule,
             SaveDecision, ReadHead, AppendRejected, FailsAfterEffect
    <3>3. \A g \in Requests : Processing(g)' => Processing(g) /\ job'[g] = job[g]
      <4>1. CASE \E ok \in BOOLEAN : Answer(h, ok)
        BY <1>0, <4>1, AnswerEndsProcessing
      <4>2. CASE /\ pc[h] \notin {"idle", "reserve"}
                 /\ \E next, decision : Await(h, next, decision)
        BY <1>0, <4>2, AwaitKeepsJob DEF Processing
      <4> QED
        BY <3>2, <4>1, <4>2
    <3> QED
      BY <1>0, <3>1, <3>3, SameAttribution
  <2> QED
    BY <2>1, <2>2, <2>3
<1>7. ASSUME NEW h \in Requests, FailsBeforeEffect(h)
      PROVE  OnceInv'
  <2>1. UNCHANGED <<ledger, reserved, clock, happened>> /\ Answer(h, FALSE)
    BY <1>7 DEF FailsBeforeEffect, AbandonAppends, stripeVars, storeVars
  <2>2. \A g \in Requests : Processing(g)' => Processing(g) /\ job'[g] = job[g]
    BY <1>0, <2>1, AnswerEndsProcessing
  <2> QED
    BY <1>0, <2>1, <2>2, SameAttribution
<1>8. ASSUME NEW p \in Processes, Crash(p)
      PROVE  OnceInv'
  <2>1. "upstash" # p /\ ReservationMaps = {"upstash"} /\ Store # "memory"
    BY IngestAssumption DEF IngestAssumption, ReservationMaps
  <2>2. UNCHANGED <<ledger, reserved, clock, happened>>
    BY <1>0, <1>8, <2>1 DEF Crash, AbandonAppends, stripeVars, StoresOK
  <2>3. \A g \in Requests : Processing(g)' => Processing(g) /\ job'[g] = job[g]
    BY <1>0, <1>8 DEF Crash, Processing, RequestsOK
  <2> QED
    BY <1>0, <2>2, <2>3, SameAttribution
<1>9. CASE UNCHANGED vars
  <2>1. UNCHANGED <<ledger, reserved, clock, happened, pc, job>>
    BY <1>9 DEF vars, stripeVars, storeVars, requestVars, ledgerVars
  <2> QED
    BY <1>0, <2>1, SameAttribution DEF Processing
<1> QED
  BY <1>1, <1>2, <1>3, <1>4, <1>5, <1>6, <1>7, <1>8, <1>9 DEF Next

(***************************************************************************)
(* With the shared idempotency store no event is attested again before its *)
(* claim has lapsed, whatever Stripe repeats, however many processes       *)
(* serve it and whatever fails (webhook.test.ts:111, "no second            *)
(* decision/audit entry").                                                 *)
(***************************************************************************)
THEOREM SharedStoreAttestedOncePerWindow ==
  ASSUME Idempotency = "upstash", IsFiniteSet(Events)
  PROVE  Spec => []AttestedOncePerWindow
<1>1. Init => OnceInv
  <2> SUFFICES ASSUME Init PROVE OnceInv
    OBVIOUS
  <2>1. /\ ledger = << >> /\ clock = 0
        /\ \A h \in Requests : pc[h] = "idle"
        /\ \A e \in Events : happened[e] = NoEvent
        /\ reserved = [m \in {"upstash"} |-> [e \in Events |-> 0]]
    BY DEF Init, InitLedger, ReservationMaps
  <2>2. ClaimInv
    BY <2>1, IngestInvInit DEF ClaimInv, ClaimLive, OneRequestPerEvent, Processing
  <2>3. AttestInv
    BY <2>1, IngestInvInit DEF AttestInv, AttestedIsStored, SavedBeforeAppend, SealsItsOwn
  <2>4. ClaimsDated
    BY <2>1 DEF ClaimsDated, Expiry
  <2>5. Attested = {}
    BY <2>1 DEF Attested
  <2>6. Attributes([k \in {} |-> 0])
    BY <2>5 DEF Attributes
  <2> QED
    BY <2>2, <2>3, <2>4, <2>6 DEF OnceInv
<1>2. OnceInv => AttestedOncePerWindow
  <2> SUFFICES ASSUME OnceInv PROVE AttestedOncePerWindow
    OBVIOUS
  <2>1. IngestInv /\ ClaimsDated /\ \E to : Attributes(to)
    BY DEF OnceInv, ClaimInv
  <2> QED
    BY <2>1, AttributedOncePerWindow
<1> QED
  BY <1>1, <1>2, OnceInvInductive, PTL DEF Spec

-----------------------------------------------------------------------------
(***************************************************************************)
(* Why nothing acknowledged is lost while nothing fails: an event is       *)
(* acknowledged only under a claim, and whoever made the claim is still    *)
(* working on the event or has stored its decision.  Where no append is    *)
(* rejected, in memory or with one request at a time, the entry follows.   *)
(***************************************************************************)
NeverRejected == Store = "memory" \/ OneWriter

Deciding(e) ==
  \E h \in Requests : job[h] = e /\ pc[h] \in {"insert", "history", "score", "save"}

Attesting(e) == \E h \in Requests : job[h] = e /\ pc[h] \in {"latest", "append"}

Handled(e) ==
  \/ Deciding(e)
  \/ /\ decisions[InvoiceOf[e]] # NoDecision
     /\ NeverRejected => EntriesFor(InvoiceOf[e]) # {} \/ Attesting(e)

ClaimedEvents == {e \in Events : \E m \in ReservationMaps : reserved[m][e] # 0}

HandledInv ==
  /\ AttestInv
  /\ acked \subseteq ClaimedEvents
  /\ \A e \in ClaimedEvents :
       /\ happened[e] # NoEvent
       /\ happened[e].payload \in DeclineClass => Handled(e)
  /\ \A h \in Requests : Processing(h) => job[h] \in ClaimedEvents

LEMMA NothingFails ==
  ASSUME IngestInv, MaxFaults = 0
  PROVE  /\ \A h \in Requests : ~ FailsBeforeEffect(h) /\ ~ FailsAfterEffect(h)
         /\ \A p \in Processes : ~ Crash(p)
<1>1. ~ (faults < MaxFaults)
  BY DEF IngestInv, WorldOK
<1> QED
  BY <1>1 DEF FailsBeforeEffect, FailsAfterEffect, Crash

(* Steps that claim, acknowledge and store nothing and that end no request *)
(* in the pipeline.                                                        *)
LEMMA SameHandled ==
  ASSUME HandledInv, AttestInv', UNCHANGED <<reserved, acked, decisions, ledger>>,
         \A e \in Events : happened[e] # NoEvent => happened'[e] = happened[e],
         \A h \in Requests : Processing(h)' => Processing(h) /\ job'[h] = job[h],
         \A h \in Requests : pc[h] \notin {"idle", "reserve"} =>
           /\ job'[h] = job[h]
           /\ pc[h] \in {"insert", "history", "score", "save"} /\ job[h] \in Events =>
                pc'[h] \in {"insert", "history", "score", "save"}
           /\ pc[h] \in {"latest", "append"} => pc'[h] \in {"latest", "append"}
  PROVE  HandledInv'
<1>1. ClaimedEvents' = ClaimedEvents
  BY DEF ClaimedEvents
<1>2. ASSUME NEW e \in Events
      PROVE  /\ Deciding(e) => Deciding(e)'
             /\ Attesting(e) => Attesting(e)'
             /\ EntriesFor(InvoiceOf[e])' = EntriesFor(InvoiceOf[e])
  BY <1>2 DEF Deciding, Attesting, EntriesFor
<1>3. \A e \in Events : Handled(e) => Handled(e)'
  BY <1>2 DEF Handled
<1>4. \A h \in Requests : Processing(h)' => job'[h] \in ClaimedEvents'
  BY <1>1 DEF HandledInv
<1> QED
  BY <1>1, <1>3, <1>4 DEF HandledInv, ClaimedEvents

(* What one step of a request leaves of the others' work.                  *)
LEMMA OthersGoOn ==
  ASSUME IngestInv, NEW h \in Requests, NEW e \in Events,
         \A g \in Requests : g # h => pc'[g] = pc[g] /\ job'[g] = job[g],
         job[h] # e
  PROVE  (Deciding(e) => Deciding(e)') /\ (Attesting(e) => Attesting(e)')
  BY DEF Deciding, Attesting

LEMMA HandlerKeepsHandled ==
  ASSUME MaxFaults = 0, HandledInv, AttestInv', NeverRejected => NoConflicts,
         NEW h \in Requests, HandlerStep(h)
  PROVE  HandledInv'
<1>0. /\ IngestInv /\ WorldOK /\ StoresOK /\ RequestsOK /\ HoldsWhatItNeeds(h)
      /\ SealsItsOwn(h) /\ ledger \in Seq(AuditEntry)
      /\ clock \in Nat /\ Ttl \in Nat /\ Ttl > 0
      /\ ~ FailsAfterEffect(h)
      /\ UNCHANGED happened
  <2>1. /\ IngestInv /\ WorldOK /\ StoresOK /\ RequestsOK /\ HoldsWhatItNeeds(h)
        /\ SealsItsOwn(h) /\ ledger \in Seq(AuditEntry)
    BY DEF HandledInv, AttestInv, IngestInv, LedgerTypeOK
  <2>2. UNCHANGED happened
    BY DEF HandlerStep, Duplicate, Reserve, InsertPayment, ReadHistory, Schedule,
           SaveDecision, ReadHead, AppendAudit, AppendRejected, stripeVars
  <2> QED
    BY <2>1, <2>2, Bounds, NothingFails
<1>1. CASE Duplicate(h)
  <2>1. /\ pc[h] = "reserve" /\ job[h] \in Events
        /\ UNCHANGED <<reserved, decisions, ledger>>
        /\ \A g \in Requests : g # h => pc'[g] = pc[g] /\ job'[g] = job[g]
        /\ acked' \subseteq acked \cup {job[h]}
    BY <1>0, <1>1, AnswerLeavesPipeline
       DEF Duplicate, Answer, HoldsWhatItNeeds, storeVars, ledgerVars
  <2>2. job[h] \in ClaimedEvents
    <3>1. reserved[MapOf(h)][job[h]] > clock /\ MapOf(h) \in ReservationMaps
      BY <1>1, MapOfIsMap DEF Duplicate, Claimed
    <3>2. reserved[MapOf(h)][job[h]] \in Nat
      BY <1>0, <2>1, <3>1 DEF StoresOK
    <3> QED
      BY <1>0, <2>1, <3>1, <3>2 DEF ClaimedEvents
  <2>3. ClaimedEvents' = ClaimedEvents
    BY <2>1 DEF ClaimedEvents
  <2>4. \A e \in Events : Handled(e) => Handled(e)'
    BY <2>1 DEF Handled, Deciding, Attesting, EntriesFor
  <2>5. \A g \in Requests : Processing(g)' => job'[g] \in ClaimedEvents'
    BY <1>0, <1>1, <2>3, AnswerEndsProcessing DEF Duplicate, HandledInv
  <2> QED
    BY <1>0, <2>1, <2>2, <2>3, <2>4, <2>5 DEF HandledInv, ClaimedEvents
<1>2. CASE Reserve(h)
  <2>e. PICK e, payload : e = job[h] /\ payload = happened[e].payload
    OBVIOUS
  <2>1. /\ pc[h] = "reserve" /\ e \in Events /\ happened[e] # NoEvent
        /\ UNCHANGED <<decisions, ledger>>
        /\ reserved' = [reserved EXCEPT ![MapOf(h)][e] = clock + Ttl]
        /\ \/ payload \in {"ignored", "invalid"} /\ \E ok \in BOOLEAN : Answer(h, ok)
           \/ Await(h, "insert", NoDecision)
    BY <1>0, <1>2, <2>e DEF Reserve, Claim, HoldsWhatItNeeds, ledgerVars
  <2>2. /\ \A g \in Requests : g # h => pc'[g] = pc[g] /\ job'[g] = job[g]
        /\ acked' \subseteq acked \cup {e}
        /\ \/ payload \in {"ignored", "invalid"}
           \/ pc'[h] = "insert" /\ job'[h] = e
    <3>1. CASE payload \in {"ignored", "invalid"} /\ \E ok \in BOOLEAN : Answer(h, ok)
      <4>1. acked' \subseteq acked \cup {e}
        BY <2>e, <3>1 DEF Answer
      <4> QED
        BY <1>0, <3>1, <4>1, AnswerLeavesPipeline
    <3>2. CASE Await(h, "insert", NoDecision)
      <4>1. acked' = acked
        BY <3>2 DEF Await
      <4> QED
        BY <1>0, <2>e, <3>2, <4>1, AwaitMovesOne
    <3> QED
      BY <2>1, <3>1, <3>2
  <2>3. ClaimedEvents' = ClaimedEvents \cup {e}
    <3>1. /\ reserved \in [ReservationMaps -> [Events -> Nat]]
          /\ MapOf(h) \in ReservationMaps /\ clock + Ttl \in Nat /\ clock + Ttl # 0
      BY <1>0, MapOfIsMap DEF StoresOK
    <3>2. reserved'[MapOf(h)][e] # 0
      BY <2>1, <3>1
    <3>3. \A m \in ReservationMaps, f \in Events :
            f # e => reserved'[m][f] = reserved[m][f]
      BY <2>1, <3>1
    <3> QED
      BY <2>1, <3>1, <3>2, <3>3 DEF ClaimedEvents
  <2>4. \A f \in Events : Handled(f) => Handled(f)'
    BY <2>1, <2>2 DEF Handled, Deciding, Attesting, EntriesFor
  <2>5. payload \in DeclineClass => Handled(e)'
    <3>1. payload \in DeclineClass => pc'[h] = "insert" /\ job'[h] = e
      BY <2>2 DEF DeclineClass, MerchantAdvice
    <3>2. pc'[h] = "insert" /\ job'[h] = e => Deciding(e)'
      BY DEF Deciding
    <3> QED
      BY <3>1, <3>2 DEF Handled
  <2>6. ASSUME NEW g \in Requests, Processing(g)'
        PROVE  job'[g] \in ClaimedEvents'
    <3>1. g # h => Processing(g) /\ job'[g] = job[g]
      BY <2>2, <2>6 DEF Processing
    <3>2. job'[h] = e \/ ~ Processing(h)'
      BY <1>0, <2>e, <2>1, AnswerEndsProcessing, AwaitKeepsJob
    <3> QED
      BY <2>3, <2>6, <3>1, <3>2 DEF HandledInv
  <2>7. \A f \in ClaimedEvents' :
          /\ happened'[f] # NoEvent
          /\ happened'[f].payload \in DeclineClass => Handled(f)'
    BY <1>0, <2>e, <2>1, <2>3, <2>4, <2>5 DEF HandledInv, ClaimedEvents
  <2> QED
    BY <2>2, <2>3, <2>6, <2>7 DEF HandledInv
<1>3. CASE InsertPayment(h) \/ ReadHistory(h) \/ Schedule(h) \/ ReadHead(h)
  <2>1. UNCHANGED <<reserved, decisions, ledger>>
    BY <1>3 DEF InsertPayment, ReadHistory, Schedule, ReadHead, ReadLatest, storeVars,
                ledgerVars
  <2>2. \/ /\ pc[h] \in {"insert", "history", "score", "save"}
           /\ \E next \in {"history", "score", "save"} : \E d : Await(h, next, d)
        \/ pc[h] = "history" /\ job[h] = Probe /\ \E d : Await(h, "latest", d)
        \/ pc[h] = "latest" /\ \E d : Await(h, "append", d)
    BY <1>0, <1>3 DEF InsertPayment, ReadHistory, DecideNow, Schedule, ReadHead
  <2>3. PICK next, d : /\ Await(h, next, d)
                       /\ \/ /\ pc[h] \in {"insert", "history", "score", "save"}
                             /\ next \in {"history", "score", "save"}
                          \/ pc[h] = "history" /\ job[h] = Probe /\ next = "latest"
                          \/ pc[h] = "latest" /\ next = "append"
    BY <2>2
  <2>4. /\ job' = job /\ acked' = acked /\ pc'[h] = next
        /\ \A g \in Requests : g # h => pc'[g] = pc[g]
    BY <1>0, <2>3, AwaitMovesOne DEF Await
  <2>5. Probe \notin Events
    BY IngestAssumption DEF IngestAssumption
  <2>6. /\ \A g \in Requests : Processing(g)' => Processing(g) /\ job'[g] = job[g]
        /\ \A g \in Requests : pc[g] \notin {"idle", "reserve"} =>
             /\ job'[g] = job[g]
             /\ pc[g] \in {"insert", "history", "score", "save"} /\ job[g] \in Events =>
                  pc'[g] \in {"insert", "history", "score", "save"}
             /\ pc[g] \in {"latest", "append"} => pc'[g] \in {"latest", "append"}
    BY <2>3, <2>4, <2>5 DEF Processing
  <2> QED
    BY <1>0, <2>1, <2>4, <2>6, SameHandled
<1>4. CASE SaveDecision(h)
  <2>e. PICK e : e = job[h]
    OBVIOUS
  <2>1. /\ pc[h] = "save" /\ e \in Events
        /\ decisions' = [decisions EXCEPT ![InvoiceOf[e]] = draft[h]]
        /\ draft[h] # NoDecision /\ InvoiceOf[e] \in Invoices
        /\ UNCHANGED <<reserved, ledger>>
        /\ Await(h, "latest", draft[h])
    BY <1>0, <1>4, <2>e, IngestAssumption, NoDecisionAssumption
       DEF SaveDecision, HoldsWhatItNeeds, ledgerVars, IngestAssumption, Invoices
  <2>2. /\ job' = job /\ acked' = acked /\ pc'[h] = "latest"
        /\ \A g \in Requests : g # h => pc'[g] = pc[g]
    BY <1>0, <2>1, AwaitMovesOne DEF Await
  <2>3. /\ decisions'[InvoiceOf[e]] # NoDecision
        /\ \A i \in Invoices : decisions[i] # NoDecision => decisions'[i] # NoDecision
    BY <1>0, <2>1 DEF StoresOK
  <2>4. ClaimedEvents' = ClaimedEvents
    BY <2>1 DEF ClaimedEvents
  <2>5. Handled(e)'
    BY <2>e, <2>2, <2>3 DEF Handled, Attesting
  <2>6. ASSUME NEW f \in Events, f # e, Handled(f)
        PROVE  Handled(f)'
    <3>1. InvoiceOf[f] \in Invoices
      BY IngestAssumption DEF IngestAssumption, Invoices
    <3>2. (Deciding(f) => Deciding(f)') /\ (Attesting(f) => Attesting(f)')
      BY <1>0, <2>e, <2>2, <2>6, OthersGoOn
    <3> QED
      BY <2>1, <2>3, <2>6, <3>1, <3>2 DEF Handled, EntriesFor
  <2>7. \A g \in Requests : Processing(g)' => job'[g] \in ClaimedEvents'
    BY <2>1, <2>2, <2>4 DEF HandledInv, Processing
  <2> QED
    BY <1>0, <2>1, <2>2, <2>4, <2>5, <2>6, <2>7 DEF HandledInv, ClaimedEvents
<1>5. CASE AppendAudit(h) \/ AppendRejected(h)
  <2>e. PICK e : e = job[h]
    OBVIOUS
  <2>1. /\ pc[h] = "append" /\ e \in Events \cup {Probe}
        /\ UNCHANGED <<reserved, decisions>>
        /\ \E ok \in BOOLEAN : Answer(h, ok)
        /\ \/ ledger' = Append(ledger, pending[h])
           \/ ~ NeverRejected /\ UNCHANGED ledger
        /\ pending[h] \in AuditEntry /\ pending[h].decisionRef = RefOf(e)
    BY <1>0, <1>5, <2>e
       DEF AppendAudit, Insert, AppendRejected, InsertRejected, NoConflicts, storeVars,
           HoldsWhatItNeeds, SealsItsOwn, IngestInv, LedgerTypeOK
  <2>2. /\ \A g \in Requests : g # h => pc'[g] = pc[g] /\ job'[g] = job[g]
        /\ acked' \subseteq acked \cup ({e} \cap Events)
    <3>1. acked' \subseteq acked \cup ({e} \cap Events)
      BY <2>e, <2>1 DEF Answer
    <3> QED
      BY <1>0, <2>1, <3>1, AnswerLeavesPipeline
  <2>3. ClaimedEvents' = ClaimedEvents
    BY <2>1 DEF ClaimedEvents
  <2>4. /\ \A i \in Invoices : EntriesFor(i) # {} => EntriesFor(i)' # {}
        /\ NeverRejected /\ e \in Events => EntriesFor(InvoiceOf[e])' # {}
    <3>1. CASE ledger' = Append(ledger, pending[h])
      <4>1. /\ DOMAIN ledger' = DOMAIN ledger \cup {Len(ledger) + 1}
            /\ ledger'[Len(ledger) + 1] = pending[h]
            /\ \A k \in DOMAIN ledger : ledger'[k] = ledger[k]
        BY <1>0, <2>1, <3>1, AppendProperties
      <4>2. e \in Events => RefOf(e) = InvoiceOf[e]
        BY IngestAssumption DEF RefOf, IngestAssumption
      <4> QED
        BY <2>1, <4>1, <4>2 DEF EntriesFor
    <3>2. CASE ~ NeverRejected /\ UNCHANGED ledger
      BY <3>2 DEF EntriesFor
    <3> QED
      BY <2>1, <3>1, <3>2
  <2>5. e \in Events => e \in ClaimedEvents /\ Handled(e)'
    <3>1. e \in Events => e \in ClaimedEvents /\ decisions[InvoiceOf[e]] # NoDecision
      BY <2>e, <2>1 DEF HandledInv, AttestInv, SavedBeforeAppend, Processing
    <3> QED
      BY <2>1, <2>4, <3>1 DEF Handled, EntriesFor
  <2>6. ASSUME NEW f \in Events, f # e, Handled(f)
        PROVE  Handled(f)'
    <3>1. InvoiceOf[f] \in Invoices
      BY IngestAssumption DEF IngestAssumption, Invoices
    <3>2. (Deciding(f) => Deciding(f)') /\ (Attesting(f) => Attesting(f)')
      BY <1>0, <2>e, <2>2, <2>6, OthersGoOn
    <3>3. EntriesFor(InvoiceOf[f]) # {} => EntriesFor(InvoiceOf[f])' # {}
      BY <2>4, <3>1
    <3> QED
      BY <2>1, <2>6, <3>2, <3>3 DEF Handled
  <2>7. \A g \in Requests : Processing(g)' => job'[g] \in ClaimedEvents'
    BY <1>0, <2>1, <2>3, AnswerEndsProcessing DEF HandledInv
  <2>8. \A f \in ClaimedEvents' :
          /\ happened'[f] # NoEvent
          /\ happened'[f].payload \in DeclineClass => Handled(f)'
    BY <1>0, <2>3, <2>5, <2>6 DEF HandledInv, ClaimedEvents
  <2> QED
    BY <2>2, <2>3, <2>5, <2>7, <2>8 DEF HandledInv
<1> QED
  BY <1>1, <1>2, <1>3, <1>4, <1>5 DEF HandlerStep

LEMMA HandledInvInductive ==
  ASSUME MaxFaults = 0
  PROVE  HandledInv /\ (NeverRejected => NoConflicts) /\ [Next]_vars => HandledInv'
<1> SUFFICES ASSUME HandledInv, NeverRejected => NoConflicts, [Next]_vars PROVE HandledInv'
  OBVIOUS
<1>0. AttestInv' /\ IngestInv /\ RequestsOK
  BY AttestInvInductive DEF HandledInv, AttestInv, IngestInv
<1>1. CASE Tick \/ (\E e \in Events : PaymentFails(e) \/ RefuseDelivery(e)) \/ UNCHANGED vars
  <2>1. /\ UNCHANGED <<reserved, acked, decisions, ledger, pc, job>>
        /\ \A e \in Events : happened[e] # NoEvent => happened'[e] = happened[e]
    BY <1>0, <1>1 DEF Tick, PaymentFails, RefuseDelivery, vars, stripeVars, storeVars,
                      requestVars, ledgerVars, IngestInv, WorldOK
  <2> QED
    BY <1>0, <2>1, SameHandled DEF Processing
<1>2. ASSUME NEW h \in Requests, NEW e \in Events, Deliver(h, e)
      PROVE  HandledInv'
  <2>1. /\ UNCHANGED <<reserved, acked, decisions, ledger, happened>>
        /\ pc[h] = "idle" /\ pc'[h] = "reserve"
        /\ \A g \in Requests : g # h => pc'[g] = pc[g] /\ job'[g] = job[g]
    BY <1>0, <1>2 DEF Deliver, RequestsOK, storeVars, ledgerVars
  <2> QED
    BY <1>0, <2>1, SameHandled DEF Processing
<1>3. ASSUME NEW h \in Requests, StartProbe(h)
      PROVE  HandledInv'
  <2>1. /\ UNCHANGED <<reserved, acked, decisions, ledger, happened>>
        /\ pc[h] = "idle" /\ job'[h] \notin Events
        /\ \A g \in Requests : g # h => pc'[g] = pc[g] /\ job'[g] = job[g]
    BY <1>0, <1>3, IngestAssumption
       DEF StartProbe, RequestsOK, stripeVars, storeVars, ledgerVars, IngestAssumption
  <2> QED
    BY <1>0, <2>1, SameHandled DEF Processing
<1>4. ASSUME NEW h \in Requests, HandlerStep(h)
      PROVE  HandledInv'
  BY <1>0, <1>4, HandlerKeepsHandled
<1> QED
  BY <1>0, <1>1, <1>2, <1>3, <1>4, NothingFails DEF Next

LEMMA HandledInvInit == Init => HandledInv
<1> SUFFICES ASSUME Init PROVE HandledInv
  OBVIOUS
<1>1. /\ ledger = << >> /\ acked = {}
      /\ \A h \in Requests : pc[h] = "idle"
      /\ reserved = [m \in ReservationMaps |-> [e \in Events |-> 0]]
  BY DEF Init, InitLedger
<1>2. AttestInv
  BY <1>1, IngestInvInit DEF AttestInv, AttestedIsStored, SavedBeforeAppend, SealsItsOwn
<1>3. ClaimedEvents = {}
  BY <1>1 DEF ClaimedEvents
<1> QED
  BY <1>1, <1>2, <1>3 DEF HandledInv, Processing

LEMMA IngestNeverRejects == Spec => [](NeverRejected => NoConflicts)
<1>1. CASE Store = "memory"
  <2>1. NoConflicts
    BY <1>1 DEF NoConflicts, Conflicts
  <2> QED
    BY <2>1, PTL
<1>2. CASE Store = "postgres" /\ OneWriter
  <2>1. SpecLedger => []NoConflicts
    BY <1>2, SoleWriterIsNeverRejected
  <2> QED
    BY <2>1, IngestUsesLedger, PTL DEF UsesLedger
<1>3. CASE ~ NeverRejected
  <2>1. NeverRejected => NoConflicts
    BY <1>3
  <2> QED
    BY <2>1, PTL
<1> QED
  BY <1>1, <1>2, <1>3, StoreAssumption DEF NeverRejected

LEMMA HandledInvariant ==
  ASSUME MaxFaults = 0
  PROVE  Spec => []HandledInv
  BY HandledInvInit, HandledInvInductive, IngestNeverRejects, PTL DEF Spec

(***************************************************************************)
(* While no store call fails and no process dies, an acknowledged failure  *)
(* that no request works on any more has a stored decision, whatever the   *)
(* stores and however deliveries, processes and requests interleave        *)
(* (route.ts:37-38).                                                       *)
(***************************************************************************)
THEOREM FaultlessAckedIsDecided ==
  ASSUME MaxFaults = 0
  PROVE  Spec => []AckedIsDecided
<1>1. HandledInv => AckedIsDecided
  BY DEF HandledInv, AckedIsDecided, Closed, Handled, Deciding, AttestInv, IngestInv,
         RequestsOK
<1> QED
  BY <1>1, HandledInvariant, PTL

(***************************************************************************)
(* Where no append is rejected its decision is in the ledger too: in       *)
(* memory always, over Postgres with one request at a time.  With two, a   *)
(* rejected append loses it: the run webhook_append_race.                  *)
(***************************************************************************)
THEOREM FaultlessAckedIsAttested ==
  ASSUME MaxFaults = 0, Store = "memory" \/ OneWriter
  PROVE  Spec => []AckedIsAttested
<1>1. HandledInv => AckedIsAttested
  BY DEF HandledInv, AckedIsAttested, Closed, Handled, Deciding, Attesting, AttestInv,
         IngestInv, RequestsOK, NeverRejected
<1> QED
  BY <1>1, HandledInvariant, PTL
=============================================================================
