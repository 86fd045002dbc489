--------------------------- MODULE SerialSession ---------------------------
(***************************************************************************)
(* What a session promises to the client and to the application, whoever  *)
(* uses it concurrently: the client receives whole operations, one after   *)
(* another, and nothing after a kick; the packs the session knows of are   *)
(* the ones offered by the operations completed so far.                    *)
(***************************************************************************)
EXTENDS Naturals, Sequences, SequencesExt

CONSTANTS Frames,   \* [by, n, pack, packet]: a packet of an operation
          Offers,   \* packets that offer a pack
          Removals, \* packets that take it back
          Kicks     \* packets that end the session

VARIABLES sent, ended, offered

vars == <<sent, ended, offered>>

Init == sent = <<>> /\ ended = FALSE /\ offered = {}

SameOperation(f, g) == f.by = g.by /\ f.n = g.n

\* The next packet of the operation in progress, or the first of a new one.
Send(f) ==
    /\ sent' = Append(sent, f)
    /\ ~ended
    /\ \A g \in Range(sent) : g.packet \notin Kicks
    /\ \A g \in Range(sent) : SameOperation(f, g) => SameOperation(f, Last(sent))
    /\ UNCHANGED <<ended, offered>>

\* The packs offered last and not taken back since.
Standing ==
    {sent[i].pack : i \in {i \in DOMAIN sent :
        /\ sent[i].packet \in Offers
        /\ \A j \in (i + 1)..Len(sent) :
               sent[j].packet \in Removals => sent[j].pack # sent[i].pack}}

\* An operation is complete.
Settle ==
    /\ offered' = Standing
    /\ UNCHANGED <<sent, ended>>

End == ended' = TRUE /\ UNCHANGED <<sent, offered>>

Next == Settle \/ End \/ (sent' # sent /\ \E f \in Frames : Send(f))

Spec == Init /\ [][Next]_vars

=============================================================================
