---------------------------- MODULE FundRequests ----------------------------
(***************************************************************************)
(* What the DAO promises of its money, apart from how ballots are held: a    *)
(* request is filed, decided once, and, if granted, paid once, at once or    *)
(* later, in the asset and the amount that were decided on, and never out of *)
(* what members have staked. Nothing else leaves but what a member takes of  *)
(* their own, in the base token.                                            *)
(***************************************************************************)
EXTENDS Integers

CONSTANTS
    Requests,
    Tokens,                \* the assets requests may be in
    Base                   \* the one members hold shares, stake and yield in

VARIABLES
    stage,                 \* request -> how far it has come
    asked,                 \* request -> [asset, amount]
    cash,                  \* asset -> what the DAO holds
    held                   \* of it in the base token, what members have staked

fundVars == <<stage, asked, cash, held>>

Stages == {"unused", "open", "granted", "paid", "closed"}

(* What a decision may lead to; a request that is closed or paid stays so.   *)
Onward == [s \in Stages |->
    CASE s = "open" -> {"granted", "paid", "closed"}
      [] s = "granted" -> {"paid"}
      [] OTHER -> {}]

Terms == [Requests -> [asset : Tokens, amount : Int]]

Init ==
    /\ stage = [r \in Requests |-> "unused"]
    /\ asked \in Terms
    /\ cash = [a \in Tokens |-> 0]
    /\ held = 0

File(r) ==
    /\ stage[r] = "unused"
    /\ stage' = [stage EXCEPT ![r] = "open"]
    /\ asked' \in Terms /\ \A q \in Requests \ {r} : asked'[q] = asked[q]
    /\ UNCHANGED <<cash, held>>

(* The amount, not the asset, and only before anything is decided.           *)
Amend(r) ==
    /\ stage[r] = "open"
    /\ asked' \in Terms /\ asked' = [asked EXCEPT ![r].amount = asked'[r].amount]
    /\ UNCHANGED <<stage, cash, held>>

(* What there is to pay requests with.                                       *)
Free(holdings, asset) == IF asset = Base THEN holdings[asset] - held ELSE holdings[asset]

Less(holdings, r) == [holdings EXCEPT ![asked[r].asset] = @ - asked[r].amount]

(* Requests are decided, at most two of them paid.                           *)
Decide ==
    LET paid == {r \in Requests : stage'[r] = "paid" /\ stage[r] # "paid"}
    IN  /\ stage' \in [Requests -> Stages]
        /\ \A r \in Requests : stage'[r] \in {stage[r]} \cup Onward[stage[r]]
        /\ \/ paid = {} /\ cash' = cash
           \/ \E r \in paid : paid = {r} /\ cash' = Less(cash, r)
           \/ \E r, q \in paid :
                 r # q /\ paid = {r, q} /\ cash' = Less(Less(cash, r), q)
        /\ \A r \in paid : Free(cash', asked[r].asset) >= 0
        /\ UNCHANGED <<asked, held>>

(* Money comes in. *)
Receive ==
    /\ \A a \in Tokens : cash'[a] >= cash[a]
    /\ UNCHANGED <<stage, asked, held>>

(* A member takes what is theirs, their stake perhaps with it ...            *)
Settle ==
    /\ \E left \in 0 .. cash[Base] : cash' = [cash EXCEPT ![Base] = left]
    /\ UNCHANGED <<stage, asked>>

(* ... or locks or releases a stake.                                         *)
Hold == UNCHANGED <<stage, asked, cash>>

Next ==
    \/ \E r \in Requests : File(r) \/ Amend(r)
    \/ Decide \/ Receive \/ Settle \/ Hold

Spec == Init /\ [][Next]_fundVars
============================================================================
