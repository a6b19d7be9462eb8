------------------------------ MODULE PathTrace ------------------------------
(* tracePath of packages/network-domain: a breadth-first search along the   *)
(* directed edges of the kinds allowed, down to a depth.                    *)
EXTENDS Naturals, Sequences

CONSTANTS Point, Kind,
          Link,      \* the edges there may be: [from, to, kind]
          MaxHops    \* bound on the depths asked for

VARIABLES links, asked, queue, visited, answer

traceVars == <<links, asked, queue, visited, answer>>

Walk == UNION {[1 .. n -> Link] : n \in 0 .. MaxHops}
NoAnswer == [at |-> "searching", path |-> <<>>]

TraceTypeOK ==
    /\ links \subseteq Link
    /\ asked \in [start : Point, target : Point, kinds : SUBSET Kind, depth : 0 .. MaxHops]
    /\ \A i \in DOMAIN queue : queue[i] \in [node : Point, path : Walk]
    /\ visited \subseteq Point
    /\ answer \in [at : {"searching", "found", "not found"}, path : Walk]

(* buildAdjacencyIndex, and the conditions on an edge that is followed.  The *)
(* order in which a node's edges are taken is left open.                     *)
Outbound(n) ==
    {e \in links : e.from = n /\ e.kind \in asked.kinds /\ e.to \notin visited}

Current == Head(queue)

Found ==
    /\ answer.at = "searching" /\ queue # <<>>
    /\ Current.node = asked.target
    /\ answer' = [at |-> "found", path |-> Current.path]
    /\ UNCHANGED <<links, asked, queue, visited>>

Exhausted == Current.node # asked.target /\ Len(Current.path) >= asked.depth

(* The depth is compared before the edges are followed; and after. *)
FollowDeeper(e) ==
    /\ answer.at = "searching" /\ queue # <<>>
    /\ Current.node # asked.target /\ Len(Current.path) <= asked.depth
    /\ e \in Outbound(Current.node)
    /\ visited' = visited \cup {e.to}
    /\ queue' = Append(queue, [node |-> e.to, path |-> Append(Current.path, e)])
    /\ UNCHANGED <<links, asked, answer>>

Follow(e) ==
    /\ answer.at = "searching" /\ queue # <<>>
    /\ Current.node # asked.target /\ ~ Exhausted
    /\ e \in Outbound(Current.node)
    /\ visited' = visited \cup {e.to}
    /\ queue' = Append(queue, [node |-> e.to, path |-> Append(Current.path, e)])
    /\ UNCHANGED <<links, asked, answer>>

Drop ==
    /\ answer.at = "searching" /\ queue # <<>>
    /\ Current.node # asked.target
    /\ Exhausted \/ Outbound(Current.node) = {}
    /\ queue' = Tail(queue)
    /\ UNCHANGED <<links, asked, visited, answer>>

NotFound ==
    /\ answer.at = "searching" /\ queue = <<>>
    /\ answer' = [at |-> "not found", path |-> <<>>]
    /\ UNCHANGED <<links, asked, queue, visited>>

TraceInit ==
    /\ links \in SUBSET Link
    /\ asked \in [start : Point, target : Point, kinds : SUBSET Kind, depth : 0 .. MaxHops]
    /\ queue = <<[node |-> asked.start, path |-> <<>>]>>
    /\ visited = {asked.start}
    /\ answer = NoAnswer

TraceNext == Found \/ (\E e \in Link : Follow(e)) \/ Drop \/ NotFound

TraceSpec == TraceInit /\ [][TraceNext]_traceVars

-----------------------------------------------------------------------------
(* Where a walk is after n edges, and whether it is one to x. *)
Stop(walk, n) == IF n = 0 THEN asked.start ELSE walk[n].to

Leads(walk, n, x) ==
    /\ \A i \in 1 .. n : /\ walk[i] \in links /\ walk[i].kind \in asked.kinds
                         /\ walk[i].from = Stop(walk, i - 1)
    /\ Stop(walk, n) = x

Reachable(x, n) == \E walk \in [1 .. n -> links] : Leads(walk, n, x)

(* A path that is found is a walk from start to target, along edges of the  *)
(* kinds allowed, within the depth, and there is no shorter one; if none is *)
(* found, there is none.                                                    *)
TraceIsShortest ==
    LET path == answer.path
    IN  /\ answer.at = "found" =>
              /\ Leads(path, Len(path), asked.target)
              /\ Len(path) <= asked.depth
              /\ \A n \in 0 .. Len(path) - 1 : ~ Reachable(asked.target, n)
        /\ answer.at = "not found" =>
              \A n \in 0 .. asked.depth : ~ Reachable(asked.target, n)
=============================================================================
