---------------------------- MODULE StockLedger ----------------------------
(***************************************************************************)
(* What the warehouse promises: a stock figure per material and a count    *)
(* per lot, changed together by operations that take effect at one instant *)
(* on the CURRENT figures.  A delivery is packed into new lots without     *)
(* loss; a lot is used up once; a correction touches no lot.               *)
(***************************************************************************)
EXTENDS Integers, FiniteSetsExt

CONSTANTS Lots, Material

VARIABLES onHand,  \* stock figure per material
          held,    \* count per lot
          place    \* the material a lot is on the shelf for, or FREE / USED

FREE == "free"
USED == "used"

Init ==
    /\ onHand = [m \in Material |-> 0]
    /\ held = [l \in Lots |-> 0]
    /\ place = [l \in Lots |-> FREE]

\* The new lots together hold exactly what the stock figure grows by.
Receive(m) ==
    \E N \in SUBSET {l \in Lots : place[l] = FREE} :
        LET size == [l \in N |-> held'[l]]
        IN  /\ N # {}
            /\ \A l \in N : held'[l] \in Nat \ {0}
            /\ onHand' = [onHand EXCEPT ![m] = @ + SumFunction(size)]
            /\ held' = [l \in Lots |-> IF l \in N THEN size[l] ELSE held[l]]
            /\ place' = [l \in Lots |-> IF l \in N THEN m ELSE place[l]]

UseUp(l) ==
    /\ place[l] \in Material
    /\ onHand' = [onHand EXCEPT ![place[l]] = @ - held[l]]
    /\ held' = [held EXCEPT ![l] = 0]
    /\ place' = [place EXCEPT ![l] = USED]

Scrap(l) ==
    /\ place[l] \in Material
    /\ held' = [held EXCEPT ![l] = held'[l]]
    /\ held'[l] < held[l]
    /\ onHand' = [onHand EXCEPT ![place[l]] = @ - (held[l] - held'[l])]
    /\ UNCHANGED place

Correct(m) ==
    /\ onHand' = [onHand EXCEPT ![m] = onHand'[m]]
    /\ UNCHANGED <<held, place>>

Next ==
    \/ \E m \in Material : Receive(m) \/ Correct(m)
    \/ \E l \in Lots : UseUp(l) \/ Scrap(l)

Spec == Init /\ [][Next]_<<onHand, held, place>>
=============================================================================
