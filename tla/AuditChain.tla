----------------------------- MODULE AuditChain -----------------------------
(***************************************************************************)
(* The hash-chained audit entry and the full-scan verifier of              *)
(* lib/audit/chain.ts, as pure operators.                                  *)
(*                                                                         *)
(* A SHA-256 digest is modelled by what it commits to.  The digest of an   *)
(* entry covers seq, prevHash, decisionRef and actor, and prevHash is the  *)
(* digest of the entry before it; with a collision-free hash a digest is   *)
(* therefore the list of everything the chain says up to that entry.       *)
(* Hashes are such lists, and the genesis prevHash is the empty one.       *)
(*                                                                         *)
(* The entry's ts is left out: no property tells two moments apart, and it *)
(* is covered by the digest exactly as decisionRef and actor are.          *)
(***************************************************************************)
EXTENDS Integers, Sequences, Ordering

CONSTANTS
  DecisionRef,  (* What an entry can attest: payment ids.                  *)
  Actor         (* MODEL, RULE (HUMAN is never written by a handler).      *)

Content == [seq : Nat, decisionRef : DecisionRef, actor : Actor]

Hash == Seq(Content)

GenesisPrevHash == << >>

AuditEntry ==
  [seq : Nat, prevHash : Hash, decisionRef : DecisionRef, actor : Actor,
   hash : Hash]

ComputeAuditHash(entry) ==
  Append(entry.prevHash, [seq         |-> entry.seq,
                          decisionRef |-> entry.decisionRef,
                          actor       |-> entry.actor])

(* Mutants of LinkAfter: numbering from -1, and forgetting the + 1.        *)
LinkFromMinusOne(heads) ==
  IF heads = {} THEN [seq |-> -1, prevHash |-> GenesisPrevHash]
  ELSE LET latest == CHOOSE e \in heads : TRUE
       IN  [seq |-> latest.seq + 1, prevHash |-> latest.hash]

LinkSameSeq(heads) ==
  IF heads = {} THEN [seq |-> 0, prevHash |-> GenesisPrevHash]
  ELSE LET latest == CHOOSE e \in heads : TRUE
       IN  [seq |-> latest.seq, prevHash |-> latest.hash]

(***************************************************************************)
(* Where the next entry attaches: after `latest`, or at genesis when the   *)
(* store returned no row (heads is then empty).                            *)
(***************************************************************************)
LinkAfter(heads) ==
  IF heads = {} THEN [seq |-> 0, prevHash |-> GenesisPrevHash]
  ELSE LET latest == CHOOSE e \in heads : TRUE
       IN  [seq |-> latest.seq + 1, prevHash |-> latest.hash]

SealedEntry(link, ref, actor) ==
  LET withoutHash == [seq |-> link.seq, prevHash |-> link.prevHash,
                      decisionRef |-> ref, actor |-> actor]
  IN  [seq |-> link.seq, prevHash |-> link.prevHash, decisionRef |-> ref,
       actor |-> actor, hash |-> ComputeAuditHash(withoutHash)]

-----------------------------------------------------------------------------
(***************************************************************************)
(* verifyAuditChain.  The rows are put in seq order, rows of one seq in    *)
(* the order they come in (sort is stable); the first position whose seq,  *)
(* prevHash or recomputed hash is wrong is reported.                       *)
(***************************************************************************)
Sorted(entries) ==
  LET positions == DOMAIN entries
      precedes  == {p \in positions \X positions :
                      \/ entries[p[1]].seq < entries[p[2]].seq
                      \/ entries[p[1]].seq = entries[p[2]].seq /\ p[1] < p[2]}
      order     == InOrder(positions, precedes)
  IN  [k \in positions |-> entries[order[k]]]

BadAt(sorted, i) ==
  \/ sorted[i].seq # i - 1
  \/ sorted[i].prevHash # (IF i = 1 THEN GenesisPrevHash ELSE sorted[i - 1].hash)
  \/ sorted[i].hash # ComputeAuditHash(sorted[i])

(* Mutants of VerifyAuditChain: one of the three comparisons left out.     *)
VerifyWithoutLinks(entries) ==
  LET sorted == Sorted(entries)
  IN  [valid |-> \A i \in DOMAIN sorted : sorted[i].hash = ComputeAuditHash(sorted[i]),
       firstBadSeq |-> -1]

VerifyWithoutHashes(entries) ==
  LET sorted == Sorted(entries)
  IN  [valid |-> \A i \in DOMAIN sorted :
                   /\ sorted[i].seq = i - 1
                   /\ i > 1 => sorted[i].prevHash = sorted[i - 1].hash,
       firstBadSeq |-> -1]

VerifyAuditChain(entries) ==
  LET sorted == Sorted(entries)
      bad    == {i \in DOMAIN sorted : BadAt(sorted, i)}
  IN  IF bad = {} THEN [valid |-> TRUE, firstBadSeq |-> -1]
      ELSE LET first == CHOOSE i \in bad : \A j \in bad : i <= j
           IN  [valid |-> FALSE, firstBadSeq |-> sorted[first].seq]
=============================================================================
