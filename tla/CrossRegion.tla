----------------------------- MODULE CrossRegion ---------------------------
(***************************************************************************)
(* ensure_cross_region (crates/harness/src/cluster.rs): before a test      *)
(* whose batch must span two Raft regions, ask PD whether lo and hi are in *)
(* different regions, and have it split the region between them until they *)
(* are or a deadline has passed.                                           *)
(*                                                                         *)
(* The cluster is external: regions split by themselves at keys of Cuts,   *)
(* the merge scheduler glues them together again, and a split that was     *)
(* asked for is carried out later, or dropped.  A PD endpoint serves one   *)
(* view of all regions; it may be useless, which takes up to PD_TIMEOUT to *)
(* learn.  A region is [id, start, end], <<>> for unbounded.               *)
(***************************************************************************)
EXTENDS ByteStrings, FiniteSets

CONSTANTS
  lo, hi, split_at,
  Endpoints,    \* how many addresses $PD_ADDRS has
  Good,         \* those of them that do answer
  PD_TIMEOUT,   \* of one request
  TIMEOUT,      \* until the deadline
  SLEEP,        \* between two rounds
  Cuts,         \* where the cluster may split a region by itself
  MaxId         \* the last region id (a bound of the model)

\* The assertion at the head of ensure_cross_region.
ASSUME SplitAtAssumption ==
  lo \in ByteString /\ hi \in ByteString /\ split_at \in ByteString /\ Less(lo, split_at) /\ ~Less(hi, split_at)
ASSUME ByteAssumption == MaxByte >= GROUP
ASSUME CutsAssumption == Cuts \subseteq ByteString \ {<<>>}
ASSUME EndpointsAssumption == Endpoints \in Nat \ {0} /\ Good \subseteq 1 .. Endpoints
ASSUME TimeAssumption == PD_TIMEOUT \in Nat /\ TIMEOUT \in Nat /\ SLEEP \in Nat \ {0} /\ MaxId \in Nat \ {0}

VARIABLES
  layout,    \* the regions of the cluster
  lastId,
  asked,     \* the regions PD has been asked to split at split_at
  stage,     \* "get", "reply", "post", "sleep"; "met", "unmet", "unreachable"
  at,        \* the endpoint that is tried
  now,       \* time since the call
  snapshot,  \* what PD served, in its encoding
  straddle,  \* the region to be split
  apart      \* whether lo and hi were in different regions when it served that

cross_vars == <<layout, lastId, asked, stage, at, now, snapshot, straddle, apart>>
caller == <<stage, at, now, snapshot, straddle, apart>>
cluster == <<layout, lastId, asked>>

-----------------------------------------------------------------------------
(* Regions                                                                   *)

Region(id, start, end) == [id |-> id, start |-> start, end |-> end]
Within(r, k) == (r.start = <<>> \/ ~Less(k, r.start)) /\ (r.end = <<>> \/ Less(k, r.end))
Apart == \A r \in layout : ~(Within(r, lo) /\ Within(r, hi))

\* How PD reports a bound.
Bound(k) == IF k = <<>> THEN <<>> ELSE Grouped(k, Len(k) \div GROUP + 1)
View == {Region(r.id, Bound(r.start), Bound(r.end)) : r \in layout}

\* RegionInfo::contains and locate, as the ids of the regions that hold a key.
LoKey == EncodeKey(lo)
HiKey == EncodeKey(hi)
Locate(view, key) == {r.id : r \in {q \in view : Within(q, key)}}
Separate(view) == \E a \in Locate(view, LoKey), b \in Locate(view, HiKey) : a # b

CrossInit ==
  /\ layout = {Region(1, <<>>, <<>>)}
  /\ lastId = 1
  /\ asked = {}
  /\ stage = "get"
  /\ at = 1
  /\ now = 0
  /\ snapshot = {}
  /\ straddle = None
  /\ apart = FALSE

-----------------------------------------------------------------------------
(* The cluster                                                               *)

\* Region r is cut at key c; either half may keep the id.
Split(r, c) ==
  /\ lastId < MaxId
  /\ c # r.start /\ Within(r, c)
  /\ lastId' = lastId + 1
  /\ \E ids \in {<<r.id, lastId'>>, <<lastId', r.id>>} :
       layout' = (layout \ {r}) \union {Region(ids[1], r.start, c), Region(ids[2], c, r.end)}

SplitsItself ==
  /\ \E r \in layout, c \in Cuts : Split(r, c)
  /\ UNCHANGED <<asked, caller>>

Merges ==
  /\ \E r, q \in layout :
       /\ r.end = q.start /\ r.end # <<>>
       /\ \E id \in {r.id, q.id} : layout' = (layout \ {r, q}) \union {Region(id, r.start, q.end)}
  /\ UNCHANGED <<lastId, asked, caller>>

\* PD carries out the split it was asked for, or drops it: the region may no
\* longer be there, nor hold the key.
Operator ==
  /\ \E id \in asked :
       /\ asked' = asked \ {id}
       /\ \/ \E r \in layout : r.id = id /\ Split(r, split_at)
          \/ UNCHANGED <<layout, lastId>>
  /\ UNCHANGED caller

-----------------------------------------------------------------------------
(* ensure_cross_region                                                       *)

\* A request takes a while.
Takes == \E d \in 0 .. PD_TIMEOUT : now' = now + d

\* Mutants of HasNext: only the first address is tried; one too many is.
HasNextNever(i) == FALSE
HasNextOff(i) == i <= Endpoints
HasNext(i) == i < Endpoints

\* Mutant of Serve: lo and hi are looked up in a view each (region_of, twice).
ServeTwice ==
  /\ stage = "get"
  /\ snapshot' = {r \in snapshot : Within(r, LoKey)} \union {r \in View : Within(r, HiKey)}
  /\ apart' = Apart
  /\ stage' = "reply"
  /\ UNCHANGED <<cluster, at, now, straddle>>

\* regions(): an endpoint serves its view,
Serve ==
  /\ stage = "get"
  /\ snapshot' = View
  /\ apart' = Apart
  /\ stage' = "reply"
  /\ UNCHANGED <<cluster, at, now, straddle>>

\* or it is of no use: down, a black hole, not 2xx, not JSON.  The next one is
\* tried, and without any the call panics.
GetFails ==
  /\ stage \in {"get", "reply"} /\ at \notin Good
  /\ Takes
  /\ IF HasNext(at) THEN stage' = "get" /\ at' = at + 1 ELSE stage' = "unreachable" /\ at' = at
  /\ UNCHANGED <<cluster, snapshot, straddle, apart>>

\* Mutant of Expired: the deadline counts for a pair that cannot be located.
ExpiredUnlocated(t) == t >= TIMEOUT /\ Locate(snapshot, LoKey) = {}
Expired(t) == t >= TIMEOUT

\* The view arrives: it decides, then the deadline; or the region of lo is split.
Judge ==
  /\ stage = "reply"
  /\ Takes
  /\ at' = 1
  /\ \/ Separate(snapshot) /\ stage' = "met" /\ UNCHANGED straddle
     \/ ~Separate(snapshot) /\ Expired(now') /\ stage' = "unmet" /\ UNCHANGED straddle
     \/ /\ ~Separate(snapshot) /\ ~Expired(now')
        /\ IF Locate(snapshot, LoKey) = {} THEN stage' = "sleep" /\ UNCHANGED straddle
           ELSE stage' = "post" /\ straddle' \in Locate(snapshot, LoKey)
  /\ UNCHANGED <<cluster, snapshot, apart>>

\* split_region_at: the first endpoint to accept the operator.  A request that
\* fails may have been carried out all the same.
Post ==
  /\ stage = "post"
  /\ Takes
  /\ \/ /\ asked' = asked \union {straddle}
        /\ stage' = "sleep" /\ at' = at
     \/ /\ asked' \in {asked, asked \union {straddle}}
        /\ IF HasNext(at) THEN stage' = "post" /\ at' = at + 1 ELSE stage' = "sleep" /\ at' = at
  /\ UNCHANGED <<layout, lastId, snapshot, straddle, apart>>

\* Mutant of Sleep: the next round starts at once.
SleepNot ==
  /\ stage = "sleep"
  /\ stage' = "get" /\ at' = 1
  /\ UNCHANGED <<cluster, now, snapshot, straddle, apart>>

Sleep ==
  /\ stage = "sleep"
  /\ now' = now + SLEEP
  /\ stage' = "get" /\ at' = 1
  /\ UNCHANGED <<cluster, snapshot, straddle, apart>>

Ensure == Serve \/ GetFails \/ Judge \/ Post \/ Sleep

CrossNext == Ensure \/ SplitsItself \/ Merges \/ Operator

CrossSpec == CrossInit /\ [][CrossNext]_cross_vars
\* The caller is polled: every request ends by its timeout, every sleep too.
CrossFairSpec == CrossSpec /\ WF_cross_vars(Ensure)

-----------------------------------------------------------------------------
(* Properties                                                                *)

CrossTypeOK ==
  /\ \A r \in layout : r.id \in 1 .. lastId /\ r.start \in ByteString /\ r.end \in ByteString
  /\ lastId \in 1 .. MaxId
  /\ asked \subseteq 1 .. lastId
  /\ stage \in {"get", "reply", "post", "sleep", "met", "unmet", "unreachable"}
  /\ at \in 1 .. Endpoints
  /\ now \in Nat
  /\ \A r \in snapshot : r.id \in 1 .. lastId /\ r.start \in ByteString /\ r.end \in ByteString
  /\ straddle \in {None} \union 1 .. lastId
  /\ apart \in BOOLEAN

\* The precondition is met just if there was one moment, that of the last view,
\* at which a boundary separated the keys: ids of two moments never count
\* (region_pair), and no key is located on the wrong side of a bound (encode_key).
VerdictOfOneMoment ==
  /\ stage = "met" => apart
  /\ stage = "unmet" => ~apart

\* With one endpoint that answers, PD is reached (pd_get).
ReachableIsReached == Good # {} => stage # "unreachable"

\* The deadline is overrun by no more than a round: the requests to the endpoints
\* for the split, a sleep, and the requests for the next view.
BoundedOverrun == now <= TIMEOUT + Endpoints * PD_TIMEOUT + SLEEP + Endpoints * PD_TIMEOUT

\* The call returns or panics.
CallEnds == <>(stage \in {"met", "unmet", "unreachable"})
=============================================================================
