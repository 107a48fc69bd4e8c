------------------------------ MODULE Timelock ------------------------------
(***************************************************************************)
(* What a timelock promises, apart from who may use it: a value of an item  *)
(* takes effect only after it has stood announced, unreplaced, for Delay. At *)
(* most one value of an item is announced at a time. Values in Immediate    *)
(* need no notice (taking a permission away, as opposed to giving one).     *)
(***************************************************************************)
EXTENDS Naturals, TLAPS

CONSTANTS
    Items,                 \* what has a value: a policy, the listing of a token
    Values,                \* what may be announced
    Immediate,             \* what needs no notice
    Delay

VARIABLES
    clock,
    current,               \* item -> the value in effect
    announced              \* item -> {} or {[value |-> v, since |-> t]}

timelockVars == <<clock, current, announced>>

Init ==
    /\ clock \in Nat
    /\ current \in [Items -> Values]
    /\ announced = [i \in Items |-> {}]

(* Time passes, by any amount. *)
Elapse ==
    /\ clock' \in Nat /\ clock' >= clock
    /\ UNCHANGED <<current, announced>>

(* Whatever was announced before is replaced, and the wait starts over.      *)
Announce(i) ==
    /\ \E v \in Values :
          announced' = [announced EXCEPT ![i] = {[value |-> v, since |-> clock]}]
    /\ UNCHANGED <<clock, current>>

Withdraw(i) ==
    /\ announced' = [announced EXCEPT ![i] = {}]
    /\ UNCHANGED <<clock, current>>

Enact(i) ==
    /\ \E notice \in announced[i] :
         /\ clock >= notice.since + Delay
         /\ current' = [current EXCEPT ![i] = notice.value]
    /\ announced' = [announced EXCEPT ![i] = {}]
    /\ UNCHANGED clock

Revoke(i) ==
    /\ \E v \in Immediate : current' = [current EXCEPT ![i] = v]
    /\ UNCHANGED <<clock, announced>>

Next ==
    \/ Elapse
    \/ \E i \in Items : Announce(i) \/ Withdraw(i) \/ Enact(i) \/ Revoke(i)

Spec == Init /\ [][Next]_timelockVars

(* What those affected can count on: from a moment t at which v is neither   *)
(* in effect nor announced, it is not in effect before t + Delay.            *)
Unannounced(i, v) == current[i] # v /\ \A notice \in announced[i] : notice.value # v
Notice(i, v, t) ==
    [](clock = t /\ Unannounced(i, v) => [](current[i] = v => clock >= t + Delay))
-----------------------------------------------------------------------------
(* The state is one, and its times are times.                                *)
TimelockTyped ==
    /\ clock \in Nat
    /\ current \in [Items -> Values \cup Immediate]
    /\ announced \in [Items -> SUBSET [value : Values, since : Nat]]

LEMMA TimelockTypeCorrect == Spec => []TimelockTyped
<1>1. Init => TimelockTyped
  BY DEF Init, TimelockTyped
<1>2. TimelockTyped /\ [Next]_timelockVars => TimelockTyped'
  <2>. SUFFICES ASSUME TimelockTyped, [Next]_timelockVars PROVE TimelockTyped'
    OBVIOUS
  <2>1. CASE Elapse
    BY <2>1 DEF TimelockTyped, Elapse
  <2>2. ASSUME NEW i \in Items, Announce(i) \/ Withdraw(i) \/ Enact(i) \/ Revoke(i)
        PROVE  TimelockTyped'
    BY <2>2 DEF TimelockTyped, Announce, Withdraw, Enact, Revoke
  <2>3. CASE UNCHANGED timelockVars
    BY <2>3 DEF TimelockTyped, timelockVars
  <2>. QED  BY <2>1, <2>2, <2>3 DEF Next
<1>. QED  BY <1>1, <1>2, PTL DEF Spec

(* What stays true of a value from a moment t at which it was unannounced.   *)
NotBefore(i, v, t) ==
    /\ clock >= t
    /\ current[i] = v => clock >= t + Delay
    /\ \A notice \in announced[i] : notice.value = v => notice.since >= t

(* The protocol gives notice of every value that needs any: an announcement  *)
(* after t is dated t or later, and only what has been announced takes       *)
(* effect.                                                                   *)
THEOREM NoticeGiven ==
    ASSUME Delay \in Nat, NEW CONSTANT i \in Items,
           NEW CONSTANT v, v \notin Immediate, NEW CONSTANT t \in Nat
    PROVE  Spec => Notice(i, v, t)
<1>1. TimelockTyped /\ clock = t /\ Unannounced(i, v) => NotBefore(i, v, t)
  BY DEF TimelockTyped, Unannounced, NotBefore
<1>2. TimelockTyped /\ NotBefore(i, v, t) /\ [Next]_timelockVars => NotBefore(i, v, t)'
  <2>. SUFFICES ASSUME TimelockTyped, NotBefore(i, v, t), [Next]_timelockVars
                PROVE  NotBefore(i, v, t)'
    OBVIOUS
  <2>1. CASE Elapse
    BY <2>1 DEF Elapse, NotBefore, TimelockTyped
  <2>2. ASSUME NEW j \in Items, Announce(j) PROVE NotBefore(i, v, t)'
    BY <2>2 DEF Announce, NotBefore, TimelockTyped
  <2>3. ASSUME NEW j \in Items, Withdraw(j) PROVE NotBefore(i, v, t)'
    BY <2>3 DEF Withdraw, NotBefore, TimelockTyped
  <2>4. ASSUME NEW j \in Items, Enact(j) PROVE NotBefore(i, v, t)'
    BY <2>4 DEF Enact, NotBefore, TimelockTyped
  <2>5. ASSUME NEW j \in Items, Revoke(j) PROVE NotBefore(i, v, t)'
    BY <2>5 DEF Revoke, NotBefore, TimelockTyped
  <2>6. CASE UNCHANGED timelockVars
    BY <2>6 DEF timelockVars, NotBefore
  <2>. QED  BY <2>1, <2>2, <2>3, <2>4, <2>5, <2>6 DEF Next
<1>3. NotBefore(i, v, t) => (current[i] = v => clock >= t + Delay)
  BY DEF NotBefore
<1>. QED  BY <1>1, <1>2, <1>3, TimelockTypeCorrect, PTL DEF Spec, Notice
============================================================================
