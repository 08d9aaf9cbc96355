---------------------------- MODULE MCMetering ----------------------------
(***************************************************************************)
(* Metering for TLC: every request falls in one bucket dimension, so that  *)
(* buckets are told apart by the streaming column alone and are shared.    *)
(***************************************************************************)
EXTENDS Metering, TLC

CONSTANTS
    d1,
    Staying,   \* processes that stay up once they are
    Elsewhere  \* requests that may also reach one of those

MCDims == {d1}
MCDimOf == [r \in Requests |-> d1]

\* Bound of the contention and pipeline runs.
StayUp == \A i \in Staying : inst[i] \in {"unborn", "claimed", "registered", "up"}

\* Bound of the contention run: the tokens are known of one request, which completes.
OneMeasured ==
    LET measured == {r \in Requests : record[r].tokens # Unavailable}
    IN Cardinality(measured) <= 1 /\ \A r \in measured : record[r].status = "completed"

\* Bounds of the pipeline run.  The processes that stay up start first, as in a rolling
\* update; rows do not age, which only matters to owners that a probe knows nothing of;
\* and of the requests, streams are looked at whose client stays until the upstream has
\* answered and whose upstream ends them: the status a stream ends with decides nothing
\* about its way through the queue.
StayingFirst ==
    \A i \in Staying, j \in Instances \ Staying : inst[j] # "unborn" => inst[i] = "up"
NoneAges == old = {}
Streams ==
    \A r \in Requests :
        /\ r \notin Elsewhere => home[r] \notin Staying
        /\ record[r].status \in {"in_flight", "completed"}
        /\ pc[r] = "new" \/ record[r].stream
        /\ pc[r] = "dropped" => record[r].status # "in_flight"

RequestSym == Permutations(Requests)
Sym == Permutations(Requests \ Legacy) \cup Permutations(Instances)
=============================================================================
