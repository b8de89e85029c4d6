---------------------------- MODULE RequestQueue ----------------------------
(***************************************************************************)
(* What the server promises, without streams, threads or connections: a    *)
(* request counts once it has been handed over whole; requests are carried *)
(* out in the order they were handed over, each at most once; nothing else *)
(* changes the tables.  When a server process ends, the requests it has    *)
(* not carried out are lost.  An add is not atomic: it changes billboard,  *)
(* then view, and may be lost in between.                                  *)
(***************************************************************************)
EXTENDS Naturals, Sequences

CONSTANTS Requests, Null, NaN, ViewAutoInc

VARIABLES queue, half, billboard, view, nextBillboard, nextView

vars == <<queue, half, billboard, view, nextBillboard, nextView>>

Init == queue = <<>> /\ half = FALSE

Submit ==
    /\ \E r \in Requests : queue' = Append(queue, r)
    /\ UNCHANGED <<half, billboard, view, nextBillboard, nextView>>

First(type) == queue # <<>> /\ Head(queue).type = type

Finish == queue' = Tail(queue) /\ half' = FALSE

Insert(table, k, row) == [i \in {k} \cup DOMAIN table |-> IF i = k THEN row ELSE table[i]]

AddToBillboard ==
    /\ First("addBillboard") /\ ~half
    /\ billboard' = Insert(billboard, nextBillboard, Head(queue).data)
    /\ nextBillboard' = nextBillboard + 1
    /\ half' = TRUE
    /\ UNCHANGED <<queue, view, nextView>>

AddToView ==
    LET k == IF ViewAutoInc THEN nextView ELSE 0 IN
    /\ First("addBillboard") /\ half
    /\ k \notin DOMAIN view
    /\ view' = Insert(view, k, [text |-> Head(queue).data, sched |-> Null])
    /\ nextView' = IF ViewAutoInc THEN k + 1 ELSE nextView
    /\ Finish
    /\ UNCHANGED <<billboard, nextBillboard>>

Schedule ==
    LET k == IF Head(queue).id = NaN THEN 0 ELSE Head(queue).id IN
    /\ First("addView")
    /\ view' = IF k \in DOMAIN view THEN [view EXCEPT ![k].sched = Head(queue).data]
               ELSE view
    /\ Finish
    /\ UNCHANGED <<billboard, nextBillboard, nextView>>

Delete ==
    /\ First("delete")
    /\ view' = [k \in DOMAIN view \ {Head(queue).id} |-> view[k]]
    /\ Finish
    /\ UNCHANGED <<billboard, nextBillboard, nextView>>

Edit ==
    LET k == Head(queue).id IN
    /\ First("editTable")
    /\ billboard' = IF k \in DOMAIN billboard
                    THEN [billboard EXCEPT ![k] = Head(queue).data] ELSE billboard
    /\ Finish
    /\ UNCHANGED <<view, nextBillboard, nextView>>

Lose ==
    /\ queue' = <<>> /\ half' = FALSE
    /\ UNCHANGED <<billboard, view, nextBillboard, nextView>>

Next == Submit \/ AddToBillboard \/ AddToView \/ Schedule \/ Delete \/ Edit \/ Lose

Spec == Init /\ [][Next]_vars
=============================================================================
