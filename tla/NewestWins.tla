----------------------------- MODULE NewestWins -----------------------------
(***************************************************************************)
(* What the market-context store promises: of all the records that were    *)
(* ever offered for a business key it holds the most recently fetched one, *)
(* in whatever order they were offered.  StockIngestion implements it.     *)
(***************************************************************************)
EXTENDS Naturals

CONSTANTS
    Records,    \* every record that may be offered
    BusinessKeys,
    KeyOfRecord(_),
    NoRecord

VARIABLES
    offered,    \* records carried by a committed upsert
    newest,     \* the row a business key has
    fetchTime   \* when a record was fetched; fixed once it is offered

vars == <<offered, newest, fetchTime>>

\* r is what key k shows when R has been offered.
IsNewest(r, k, R) ==
    \/ /\ r = NoRecord
       /\ \A x \in R : KeyOfRecord(x) # k
    \/ /\ r \in R /\ KeyOfRecord(r) = k
       /\ \A x \in R : KeyOfRecord(x) = k => fetchTime[x] <= fetchTime[r]

Init ==
    /\ offered = {}
    /\ newest = [k \in BusinessKeys |-> NoRecord]
    /\ fetchTime \in [Records -> Nat]

\* A record is fetched some time before it is offered.
Fetch ==
    /\ fetchTime' \in [Records -> Nat]
    /\ \A x \in offered : fetchTime'[x] = fetchTime[x]
    /\ UNCHANGED <<offered, newest>>

Offer(r) ==
    /\ offered' = offered \cup {r}
    /\ newest' \in [BusinessKeys -> Records \cup {NoRecord}]
    /\ UNCHANGED fetchTime
    /\ \A k \in BusinessKeys : IsNewest(newest'[k], k, offered')

Next == Fetch \/ \E r \in Records : Offer(r)

Spec == Init /\ [][Next]_vars

=============================================================================
