---------------------------- MODULE ReplaySeries ----------------------------
(***************************************************************************)
(* The dashboard's view of a replay run (lib/replay/series.ts): recovered  *)
(* amounts of both arms, cumulated over the hours something was recovered  *)
(* in.  Time is in hours, so a moment is its own bucket.                   *)
(***************************************************************************)
EXTENDS Integers, Sequences, Ordering

Recoveries(points) == {i \in DOMAIN points : points[i].recovered}

(* The amounts of the points counted.                                      *)
AmountOf(points, counted) ==
  LET upTo[k \in 0 .. Len(points)] ==
        IF k = 0 THEN 0
        ELSE upTo[k - 1] + (IF k \in counted THEN points[k].amount ELSE 0)
  IN  upTo[Len(points)]

(* summarize.                                                              *)
RecoveredAmount(points) == AmountOf(points, Recoveries(points))

BucketsOf(points) == {points[i].scheduledFor : i \in Recoveries(points)}

(* Mutant of Buckets: only the policy's recoveries make a bucket.          *)
PolicyBuckets(baselinePoints, policyPoints) == BucketsOf(policyPoints)

Buckets(baselinePoints, policyPoints) == BucketsOf(baselinePoints) \cup BucketsOf(policyPoints)

RecoveredBy(points, hour) ==
  AmountOf(points, {i \in Recoveries(points) : points[i].scheduledFor <= hour})

RunToReplaySeries(baselinePoints, policyPoints) ==
  LET keys  == Buckets(baselinePoints, policyPoints)
      hours == InOrder(keys, {jk \in keys \X keys : jk[1] < jk[2]})
  IN  [k \in DOMAIN hours |->
         [bucket |-> hours[k], baseline |-> RecoveredBy(baselinePoints, hours[k]),
          policy |-> RecoveredBy(policyPoints, hours[k])]]
=============================================================================
