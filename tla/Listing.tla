------------------------------- MODULE Listing -------------------------------
(***************************************************************************)
(* The list endpoints of one namespace: what store.list returns, in the    *)
(* envelope that collection_response puts around it: a page of it, and its *)
(* length.  The links of the envelope are left out.                        *)
(***************************************************************************)
EXTENDS Integers, SequencesExt

CONSTANTS Client,
          Limit,   \* of collection_response: 50, unless the caller says otherwise
          MaxId    \* bound: how many resources are created

VARIABLES
    resources,   \* the ids of the namespace, in the order the dictionary keeps
    minted,      \* how many uuids were drawn
    reply        \* the last list that each client was given

vars == <<resources, minted, reply>>

\* resources[offset : offset + limit], and the length of the whole.
CollectionResponse(list, limit, offset) ==
    [page |-> SubSeq(list, offset + 1, Min({Len(list), offset + limit})),
     total_count |-> Len(list)]

Init == /\ resources = <<>>
        /\ minted = 0
        /\ reply = [c \in Client |-> CollectionResponse(<<>>, Limit, 0)]

Create == /\ minted < MaxId
          /\ minted' = minted + 1
          /\ resources' = Append(resources, minted + 1)
          /\ UNCHANGED reply

Delete(r) == /\ resources' = SelectSeq(resources, LAMBDA x : x # r)
             /\ UNCHANGED <<minted, reply>>

Reset == /\ resources' = <<>>
         /\ UNCHANGED <<minted, reply>>

\* No handler passes on a limit or an offset: both are those by default.
List(c) == /\ reply' = [reply EXCEPT ![c] = CollectionResponse(resources, Limit, 0)]
           /\ UNCHANGED <<resources, minted>>

Next == \/ Create \/ Reset
        \/ \E r \in ToSet(resources) : Delete(r)
        \/ \E c \in Client : List(c)

Spec == Init /\ [][Next]_vars

-----------------------------------------------------------------------------
\* docs/development-status.md: "All list endpoints currently return every resource
\* in a single response".
ListComplete == \A c \in Client : Len(reply[c].page) = reply[c].total_count
=============================================================================
