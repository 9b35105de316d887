------------------------------ MODULE QuoteBook ------------------------------
(***************************************************************************)
(* What delivery amounts to for the user, who saves quote requests and     *)
(* reads what became of them, and for the quote service, which creates     *)
(* quotes.  There are no tabs, posts, sessions, retries or lost answers    *)
(* here.  QuoteDelivery implements this.                                   *)
(***************************************************************************)
EXTENDS Naturals, Sequences

CONSTANTS
    Contents,
    Invalid,   \* of these, the ones no quote is created with
    Records,   \* the ids under which quotes are saved
    None

VARIABLES
    saved,     \* what the user saved, in that order, and what he is told of it
    quotes     \* [Records -> the content of the quote of that id, or None]

bookVars == <<saved, quotes>>

BookInit ==
    /\ saved = << >>
    /\ quotes = [r \in Records |-> None]

\* The user saves a request under an id of its own, or corrects or repeats
\* one of his earlier ones under the id of that.
Save ==
    \E record \in Records, content \in Contents :
        /\ \/ record = Len(saved) + 1
           \/ \E i \in 1..Len(saved) : saved[i].record = record
        /\ saved' = Append(saved, [record |-> record, content |-> content,
                                   status |-> "pending"])
        /\ UNCHANGED quotes

\* The quote of a saved request is created, the only one of its id.
Create ==
    \E i \in 1..Len(saved) :
        /\ saved[i].content \notin Invalid
        /\ quotes[saved[i].record] = None
        /\ quotes' = [quotes EXCEPT ![saved[i].record] = saved[i].content]
        /\ UNCHANGED saved

\* The user is told that a request failed, which he may be even if an earlier
\* post of it was accepted, or that it was delivered, once its quote exists.
Report ==
    \E i \in 1..Len(saved) :
        /\ \/ saved' = [saved EXCEPT ![i].status = "failed"]
           \/ /\ quotes[saved[i].record] # None
              /\ saved' = [saved EXCEPT ![i].status = "synced"]
        /\ UNCHANGED quotes

BookNext == Save \/ Create \/ Report

BookSpec == BookInit /\ [][BookNext]_bookVars
=============================================================================
