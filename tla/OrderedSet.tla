----------------------------- MODULE OrderedSet -----------------------------
(***************************************************************************)
(* What a balanced tree promises whoever keeps keys in it: an insertion    *)
(* adds its key and a deletion removes its key, once, between the call and *)
(* the return, and nothing else ever changes the content.                  *)
(***************************************************************************)
CONSTANTS Keys

VARIABLES content,   \* the keys that were inserted and not deleted
          request    \* the call that is being worked on

NoRequest == [do |-> "idle"]
Requests == [do : {"insert", "delete"}, key : Keys]

SetInit == content = {} /\ request = NoRequest

Call(r) == request = NoRequest /\ request' = r /\ UNCHANGED content

ReturnInsert ==
    /\ request.do = "insert"
    /\ content' = content \cup {request.key}
    /\ request' = NoRequest

ReturnDelete ==
    /\ request.do = "delete"
    /\ content' = content \ {request.key}
    /\ request' = NoRequest

SetNext == (\E r \in Requests : Call(r)) \/ ReturnInsert \/ ReturnDelete

OrderedSetSpec == SetInit /\ [][SetNext]_<<content, request>>
=============================================================================
