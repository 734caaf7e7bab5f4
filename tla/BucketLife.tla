----------------------------- MODULE BucketLife -----------------------------
(***************************************************************************)
(* What the operator promises of the life of a Bucket and of the data that *)
(* comes with it, whatever happens on the way: the abstract specification  *)
(* BucketController implements.                                            *)
(*                                                                         *)
(*   absent -> new -> held -> made <-> ready      new -> absent            *)
(*                    held, made, ready -> going -> absent                 *)
(*                                                                         *)
(* held: under the finalizer; made: its endpoint is recorded; going: being *)
(* deleted.  terms[b] is what the user asks for: the reclaim policy, and   *)
(* the home of the data.  data[b] is where there are MinIO buckets made    *)
(* for b: what a Bucket retained when it was deleted stays with its name.  *)
(***************************************************************************)
CONSTANTS
  Buckets,
  Homes,     \* where data can be
  None,      \* the terms of a Bucket that does not exist, a home not chosen
  Steady,    \* TRUE iff homes are kept, stay in reach and are not shared
  Alone      \* TRUE iff homes are kept and not shared, and answers not lost
             \* while others make MinIO buckets

VARIABLES life, terms, data

vars == <<life, terms, data>>

Lives == {"absent", "new", "held", "made", "ready", "going"}

Terms == [policy: {"Delete", "Retain"}, home: Homes \cup {None}]

Init == /\ life = [b \in Buckets |-> "absent"]
        /\ terms = [b \in Buckets |-> None]
        /\ data = [b \in Buckets |-> {}]

Turn(b, from, to) == /\ life[b] \in from
                     /\ life' = [life EXCEPT ![b] = to]
                     /\ UNCHANGED data

Create(b) == /\ Turn(b, {"absent"}, "new")
             /\ \E t \in Terms : terms' = [terms EXCEPT ![b] = t]

Edit(b) == /\ life[b] # "absent"
           /\ \E t \in Terms : /\ Steady => t.home = terms[b].home
                               /\ terms' = [terms EXCEPT ![b] = t]
           /\ UNCHANGED <<life, data>>

Hold(b)   == Turn(b, {"new"}, "held") /\ UNCHANGED terms
Record(b) == Turn(b, {"held"}, "made") /\ UNCHANGED terms
Ready(b)  == Turn(b, {"made"}, "ready") /\ UNCHANGED terms
Fail(b)   == Turn(b, {"ready"}, "made") /\ UNCHANGED terms

\* The finalizer keeps a Bucket that is deleted, if it got that far.
Delete(b) == \/ /\ Turn(b, {"new"}, "absent")
                /\ terms' = [terms EXCEPT ![b] = None]
             \/ /\ Turn(b, {"held", "made", "ready"}, "going")
                /\ UNCHANGED terms

\* Released only without its data, unless it is to be retained.
Release(b) == /\ Turn(b, {"going"}, "absent")
              /\ Steady => terms[b].policy = "Retain" \/ terms[b].home \notin data[b]
              /\ terms' = [terms EXCEPT ![b] = None]

\* Data is made for a Bucket the finalizer holds.
Make(b, h) == /\ h \notin data[b] /\ life[b] \notin {"absent", "new"}
              /\ Steady => h = terms[b].home
              /\ data' = [data EXCEPT ![b] = @ \cup {h}]
              /\ UNCHANGED <<life, terms>>

\* It goes with the Bucket, or when its making is undone: a Bucket that is
\* ready, or has been released, keeps what it has.
Lose(b, h) == /\ h \in data[b]
              /\ Steady => life[b] \notin {"absent", "new"} /\ h = terms[b].home
              /\ Alone => life[b] # "ready"
              /\ data' = [data EXCEPT ![b] = @ \ {h}]
              /\ UNCHANGED <<life, terms>>

Next == \E b \in Buckets :
          \/ Create(b) \/ Edit(b) \/ Hold(b) \/ Record(b) \/ Ready(b) \/ Fail(b)
          \/ Delete(b) \/ Release(b)
          \/ \E h \in Homes : Make(b, h) \/ Lose(b, h)

Spec == Init /\ [][Next]_vars
=============================================================================
