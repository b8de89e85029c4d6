---------------------------- MODULE QueueProofs -----------------------------
(***************************************************************************)
(* The proof that the server carries out the requests handed over whole,   *)
(* in order and at most once: Session implements RequestQueue.             *)
(***************************************************************************)
EXTENDS SessionProofs, WellFoundedInduction

USE DataAssumption, IdAssumption, TableAssumption
    DEF DataAssumption, IdAssumption, TableAssumption
-----------------------------------------------------------------------------
(***************************************************************************)
(* The objects of a stretch of the stream.  What a recursive definition    *)
(* computes is shown by taking the first place where it would differ.      *)
(***************************************************************************)
LEMMA FirstPlace ==
    ASSUME NEW S, S \subseteq Nat, S # {}
    PROVE  \E i \in S : \A j \in S : i <= j
<1>1. PICK i \in S : \A j \in S : <<j, i>> \notin OpToRel(<, Nat)
  BY NatLessThanWellFounded, WFMin
<1>2. \A j \in S : ~(j < i)
  BY <1>1 DEF OpToRel
<1> QED
  BY <1>2

(* The requests so far, with one more item of the stream. *)
WithItem(requests, item) ==
    IF item.tag = "utf" THEN requests ELSE Append(requests, item.val)

LEMMA WithItemTypes ==
    ASSUME NEW q \in Seq(Requests), NEW item \in Items
    PROVE  WithItem(q, item) \in Seq(Requests)
<1>1. item.tag = "utf" \/ item.val \in Requests
  BY ItemFacts
<1> QED
  BY <1>1 DEF WithItem

(* f collects the objects of the first n items of s. *)
Collects(f, s, n) ==
    /\ f \in [0 .. n -> Seq(Requests)]
    /\ f[0] = <<>>
    /\ \A i \in 1 .. n : f[i] = WithItem(f[i - 1], s[i])

LEMMA CollectsExists ==
    ASSUME NEW s \in Seq(Items)
    PROVE  \E f : Collects(f, s, Len(s))
<1> DEFINE Bad == {n \in 0 .. Len(s) : ~ \E f : Collects(f, s, n)}
<1> SUFFICES ASSUME Bad # {} PROVE FALSE
  <2>1. Len(s) \in 0 .. Len(s)
    OBVIOUS
  <2> QED
    BY <2>1, Zenon
<1>1. PICK n \in Bad : \A m \in Bad : n <= m
  <2>1. Bad \subseteq Nat
    OBVIOUS
  <2> HIDE DEF Bad
  <2> QED
    BY <2>1, FirstPlace
<1>2. n # 0
  <2>1. Collects([i \in 0 .. 0 |-> <<>>], s, 0)
    BY DEF Collects
  <2> QED
    BY <2>1
<1>3. n \in 1 .. Len(s) /\ n - 1 \in 0 .. Len(s) /\ n - 1 < n
  BY <1>2
<1>4. n - 1 \notin Bad
  BY <1>1, <1>3
<1>5. PICK f : Collects(f, s, n - 1)
  BY <1>3, <1>4
<1> DEFINE g == [i \in 0 .. n |-> IF i = n THEN WithItem(f[n - 1], s[n]) ELSE f[i]]
<1>6. s[n] \in Items /\ f[n - 1] \in Seq(Requests)
  BY <1>3, <1>5 DEF Collects
<1>7. g \in [0 .. n -> Seq(Requests)]
  <2>1. WithItem(f[n - 1], s[n]) \in Seq(Requests)
    BY <1>6, WithItemTypes
  <2>2. \A i \in 0 .. n : i # n => f[i] \in Seq(Requests)
    BY <1>3, <1>5 DEF Collects
  <2> QED
    BY <2>1, <2>2
<1>8. g[0] = <<>>
  BY <1>3, <1>5 DEF Collects
<1>9. ASSUME NEW i \in 1 .. n PROVE g[i] = WithItem(g[i - 1], s[i])
  <2>1. i - 1 \in 0 .. n /\ i - 1 # n /\ i \in 0 .. n
    BY <1>3
  <2>2. g[i - 1] = f[i - 1]
    BY <2>1
  <2>3. CASE i = n
    BY <2>1, <2>2, <2>3
  <2>4. CASE i # n
    <3>1. i \in 1 .. n - 1
      BY <1>3, <2>4
    <3>2. f[i] = WithItem(f[i - 1], s[i])
      BY <1>5, <3>1 DEF Collects
    <3> QED
      BY <2>1, <2>2, <2>4, <3>2
  <2> QED
    BY <2>3, <2>4
<1>10. Collects(g, s, n)
  BY <1>7, <1>8, <1>9 DEF Collects
<1> QED
  BY <1>10

(* ObjectsUpto is what its recursive definition says. *)
LEMMA UptoCollects ==
    ASSUME NEW s \in Seq(Items)
    PROVE  Collects(ObjectsUpto(s), s, Len(s))
<1> DEFINE Eqn(f) ==
        f = [i \in 0 .. Len(s) |->
                IF i = 0 THEN <<>>
                ELSE IF s[i].tag = "utf" THEN f[i - 1] ELSE Append(f[i - 1], s[i].val)]
<1>1. PICK f : Collects(f, s, Len(s))
  BY CollectsExists
<1>2. Eqn(f)
  <2>1. ASSUME NEW i \in 0 .. Len(s)
        PROVE  f[i] = IF i = 0 THEN <<>>
                      ELSE IF s[i].tag = "utf" THEN f[i - 1] ELSE Append(f[i - 1], s[i].val)
    <3>1. CASE i = 0
      BY <1>1, <3>1 DEF Collects
    <3>2. CASE i # 0
      <4>1. i \in 1 .. Len(s)
        BY <3>2
      <4>2. f[i] = WithItem(f[i - 1], s[i])
        BY <1>1, <4>1 DEF Collects
      <4> QED
        BY <3>2, <4>2 DEF WithItem
    <3> QED
      BY <3>1, <3>2
  <2> QED
    BY <1>1, <2>1 DEF Collects
<1>3. Eqn(ObjectsUpto(s))
  BY <1>2, Zenon DEF ObjectsUpto
<1> DEFINE u == ObjectsUpto(s)
<1> HIDE DEF u
<1>4. /\ DOMAIN u = 0 .. Len(s) /\ u[0] = <<>>
      /\ \A i \in 1 .. Len(s) : u[i] = WithItem(u[i - 1], s[i])
      /\ u = [i \in 0 .. Len(s) |-> u[i]]
  <2>1. Eqn(u)
    BY <1>3 DEF u
  <2>2. DOMAIN u = 0 .. Len(s) /\ u = [i \in 0 .. Len(s) |-> u[i]]
    BY <2>1
  <2>3. \A i \in 0 .. Len(s) :
            u[i] = IF i = 0 THEN <<>>
                   ELSE IF s[i].tag = "utf" THEN u[i - 1] ELSE Append(u[i - 1], s[i].val)
    BY <2>1, Zenon
  <2>4. 0 \in 0 .. Len(s) /\ \A i \in 1 .. Len(s) : i \in 0 .. Len(s) /\ i # 0
    OBVIOUS
  <2> QED
    BY <2>2, <2>3, <2>4, Zenon DEF WithItem
<1>5. ASSUME NEW i \in 0 .. Len(s) PROVE u[i] = f[i]
  <2> DEFINE Bad == {j \in 0 .. Len(s) : u[j] # f[j]}
  <2> SUFFICES ASSUME Bad # {} PROVE FALSE
    BY DEF Bad
  <2>1. PICK n \in Bad : \A m \in Bad : n <= m
    <3>1. Bad \subseteq Nat
      OBVIOUS
    <3> HIDE DEF Bad
    <3> QED
      BY <3>1, FirstPlace
  <2>2. n # 0
    BY <1>1, <1>4 DEF Collects
  <2>3. n \in 1 .. Len(s) /\ n - 1 \in 0 .. Len(s) /\ n - 1 < n
    BY <2>2
  <2>4. u[n - 1] = f[n - 1]
    BY <2>1, <2>3
  <2>5. u[n] = f[n]
    BY <2>3, <2>4, <1>1, <1>4 DEF Collects
  <2> QED
    BY <2>1, <2>5
<1>6. u = f
  BY <1>1, <1>4, <1>5 DEF Collects
<1> QED
  BY <1>1, <1>6 DEF u

LEMMA ObjectsTypes ==
    ASSUME NEW s \in Seq(Items)
    PROVE  Objects(s) \in Seq(Requests)
<1>1. Len(s) \in 0 .. Len(s)
  OBVIOUS
<1> QED
  BY <1>1, UptoCollects DEF Objects, Collects

LEMMA ObjectsNone == Objects(<<>>) = <<>>
<1>1. <<>> \in Seq(Items) /\ Len(<<>>) = 0
  OBVIOUS
<1>2. Collects(ObjectsUpto(<<>>), <<>>, 0)
  BY <1>1, UptoCollects, Zenon
<1> QED
  BY <1>1, <1>2 DEF Collects, Objects

(* An item written: an object is one more request, a type is none. *)
LEMMA ObjectsAppend ==
    ASSUME NEW s \in Seq(Items), NEW item \in Items
    PROVE  Objects(Append(s, item)) = WithItem(Objects(s), item)
<1> DEFINE t == Append(s, item)
           f == ObjectsUpto(s)
           g == ObjectsUpto(t)
<1>1. /\ t \in Seq(Items) /\ Len(t) = Len(s) + 1 /\ Len(s) \in Nat
      /\ t[Len(s) + 1] = item /\ \A i \in 1 .. Len(s) : t[i] = s[i]
  OBVIOUS
<1>2. Collects(f, s, Len(s)) /\ Collects(g, t, Len(t))
  BY <1>1, UptoCollects
<1> HIDE DEF t, f, g
<1>3. f[Len(s)] = g[Len(s)]
  <2> DEFINE Bad == {j \in 0 .. Len(s) : f[j] # g[j]}
  <2> SUFFICES ASSUME Bad # {} PROVE FALSE
    <3>1. Len(s) \in 0 .. Len(s)
      OBVIOUS
    <3> QED
      BY <3>1, Zenon
  <2>1. PICK n \in Bad : \A m \in Bad : n <= m
    <3>1. Bad \subseteq Nat
      OBVIOUS
    <3> HIDE DEF Bad
    <3> QED
      BY <3>1, FirstPlace
  <2>2. n # 0
    BY <1>2 DEF Collects
  <2>3. n \in 1 .. Len(s) /\ n \in 1 .. Len(t) /\ n - 1 \in 0 .. Len(s) /\ n - 1 < n
    BY <1>1, <2>2
  <2>4. f[n - 1] = g[n - 1]
    BY <2>1, <2>3
  <2>5. f[n] = g[n]
    BY <2>3, <2>4, <1>1, <1>2 DEF Collects
  <2> QED
    BY <2>1, <2>5
<1>4. g[Len(t)] = WithItem(g[Len(s)], item)
  <2>1. Len(t) \in 1 .. Len(t) /\ Len(t) - 1 = Len(s)
    BY <1>1
  <2> QED
    BY <2>1, <1>1, <1>2 DEF Collects
<1> QED
  BY <1>3, <1>4 DEF Objects, t, f, g

LEMMA AppendAfter ==
    ASSUME NEW a \in Seq(Requests)
    PROVE  \A q \in Seq(Requests), x \in Requests : Append(a \o q, x) = a \o Append(q, x)
  OBVIOUS

(* An item read: an object was the first request, a type was none. *)
LEMMA ObjectsTail ==
    ASSUME NEW s \in Seq(Items), s # <<>>
    PROVE  Objects(s) = WithItem(<<>>, Head(s)) \o Objects(Tail(s))
<1> DEFINE t == Tail(s)
           f == ObjectsUpto(s)
           g == ObjectsUpto(t)
           p == WithItem(<<>>, Head(s))
<1>1. /\ t \in Seq(Items) /\ Len(t) = Len(s) - 1 /\ Len(s) \in Nat /\ Len(t) \in Nat
      /\ Head(s) = s[1] /\ \A i \in 1 .. Len(t) : t[i] = s[i + 1]
      /\ \A i \in 1 .. Len(s) : s[i] \in Items
  OBVIOUS
<1>2. Collects(f, s, Len(s)) /\ Collects(g, t, Len(t))
  BY <1>1, UptoCollects
<1>3. p \in Seq(Requests)
  <2>1. Head(s) \in Items /\ <<>> \in Seq(Requests)
    BY <1>1
  <2> QED
    BY <2>1, WithItemTypes
<1>4. f[1] = p
  <2>1. 1 \in 1 .. Len(s) /\ 1 - 1 = 0
    BY <1>1
  <2> QED
    BY <2>1, <1>1, <1>2 DEF Collects
<1> HIDE DEF t, f, g, p
<1>5. \A q \in Seq(Requests), x \in Requests : Append(p \o q, x) = p \o Append(q, x)
  BY <1>3, AppendAfter, Zenon
<1>6. f[Len(t) + 1] = p \o g[Len(t)]
  <2> DEFINE Bad == {j \in 0 .. Len(t) : f[j + 1] # p \o g[j]}
  <2> SUFFICES ASSUME Bad # {} PROVE FALSE
    <3>1. Len(t) \in 0 .. Len(t)
      BY <1>1
    <3> QED
      BY <3>1, Zenon
  <2>1. PICK n \in Bad : \A m \in Bad : n <= m
    <3>1. Bad \subseteq Nat
      BY <1>1
    <3> HIDE DEF Bad
    <3> QED
      BY <3>1, FirstPlace
  <2>2. n # 0
    <3>1. g[0] = <<>> /\ f[0 + 1] = p
      BY <1>2, <1>4 DEF Collects
    <3>2. p \o <<>> = p
      BY <1>3
    <3> QED
      BY <3>1, <3>2
  <2>3. /\ n \in 1 .. Len(t) /\ n + 1 \in 1 .. Len(s) /\ n - 1 \in 0 .. Len(t) /\ n - 1 < n
        /\ (n + 1) - 1 = n /\ (n - 1) + 1 = n
    BY <1>1, <2>2
  <2>4. n - 1 \notin Bad
    <3>1. n \in Nat /\ ~(n <= n - 1)
      BY <2>3, <1>1
    <3> HIDE DEF Bad
    <3> QED
      BY <2>1, <3>1
  <2>5. f[n] = p \o g[n - 1]
    <3>1. f[(n - 1) + 1] = p \o g[n - 1]
      BY <2>3, <2>4, Zenon
    <3> QED
      BY <3>1, <2>3
  <2>6. /\ f[n + 1] = WithItem(f[n], s[n + 1]) /\ g[n] = WithItem(g[n - 1], s[n + 1])
        /\ g[n - 1] \in Seq(Requests) /\ s[n + 1] \in Items
    BY <2>3, <1>1, <1>2 DEF Collects
  <2>7. f[n + 1] = p \o g[n]
    <3>1. CASE s[n + 1].tag = "utf"
      BY <2>5, <2>6, <3>1 DEF WithItem
    <3>2. CASE s[n + 1].tag # "utf"
      <4>1. s[n + 1].val \in Requests
        BY <2>6, <3>2, ItemFacts
      <4> QED
        BY <2>5, <2>6, <3>2, <4>1, <1>5 DEF WithItem
    <3> QED
      BY <3>1, <3>2
  <2> QED
    BY <2>1, <2>7
<1>7. Len(t) + 1 = Len(s)
  BY <1>1
<1> QED
  BY <1>6, <1>7 DEF Objects, t, f, g, p
-----------------------------------------------------------------------------
(***************************************************************************)
(* The steps.  Reading and writing a type change nothing; an object makes  *)
(* a request whole; a read moves it from the stream into the server's      *)
(* hand; a statement carries it out; the end of the process loses the rest.*)
(***************************************************************************)
LEMMA HandTypes ==
    ASSUME IndInv, exit = "running"
    PROVE  InHand \in Seq(Requests)
<1>1. CASE serverPc \in {"readUTF", "readObject"} \/ requestType = "showTable"
  <2>1. InHand = <<>>
    BY <1>1, Zenon DEF InHand
  <2> QED
    BY <2>1
<1>2. CASE ~(serverPc \in {"readUTF", "readObject"} \/ requestType = "showTable")
  <2>1. request.type = requestType /\ requestType # "showTable"
    BY <1>2 DEF IndInv, RunsRequestAsSent
  <2>2. request \in Requests
    BY <2>1 DEF IndInv, TypeOK, ShowRequest
  <2>3. InHand = <<request>>
    BY <1>2, Zenon DEF InHand
  <2> QED
    BY <2>2, <2>3
<1> QED
  BY <1>1, <1>2

(* The server has a request in hand: it is the first of the queue. *)
LEMMA HandIsFirst ==
    ASSUME IndInv, exit = "running", requestType # "showTable",
           serverPc \notin {"readUTF", "readObject"}
    PROVE  /\ Queue # <<>> /\ Head(Queue) = request /\ Tail(Queue) = Objects(c2s)
           /\ request.type = requestType /\ request \in Requests
<1>1. request.type = requestType
  BY DEF IndInv, RunsRequestAsSent
<1>2. request \in Requests
  BY <1>1 DEF IndInv, TypeOK, ShowRequest
<1>3. Queue = <<request>> \o Objects(c2s)
  BY Zenon DEF Queue, InHand
<1>4. Objects(c2s) \in Seq(Requests)
  BY ObjectsTypes DEF IndInv, TypeOK
<1>5. ASSUME NEW r \in Requests, NEW q \in Seq(Requests)
      PROVE  <<r>> \o q # <<>> /\ Head(<<r>> \o q) = r /\ Tail(<<r>> \o q) = q
  <2>1. <<r>> \o q \in Seq(Requests) /\ Len(<<r>> \o q) = Len(q) + 1 /\ Len(q) \in Nat
    OBVIOUS
  <2>2. Tail(<<r>> \o q) = q
    BY <2>1
  <2> QED
    BY <2>1, <2>2
<1> QED
  BY <1>1, <1>2, <1>3, <1>4, <1>5

(* The process ends: what is left is lost (Server.java:122-130). *)
LEMMA LoseStep ==
    ASSUME NEW cause \in Exits \ {"running"}, Dies(cause)
    PROVE  Promise!Lose
<1>1. exit' # "running"
  BY DEF Dies
<1>2. Queue' = <<>>
  BY <1>1 DEF Queue
<1>3. At("execute2")' = FALSE
  BY <1>1 DEF At
<1> QED
  BY <1>2, <1>3 DEF Promise!Lose, Dies

(* A request carried out leaves the queue. *)
LEMMA FinishStep ==
    ASSUME IndInv, At("execute") \/ At("execute2"), requestType # "showTable",
           Done
    PROVE  Promise!Finish
<1>1. /\ exit = "running" /\ exit' = "running" /\ c2s' = c2s /\ serverPc' = "readUTF"
      /\ serverPc \notin {"readUTF", "readObject"}
  BY DEF At, Done, wireVars
<1>2. Tail(Queue) = Objects(c2s)
  BY <1>1, HandIsFirst
<1>3. InHand' = <<>>
  BY <1>1, Zenon DEF InHand
<1>4. Objects(c2s) \in Seq(Requests)
  BY ObjectsTypes DEF IndInv, TypeOK
<1>5. Queue' = <<>> \o Objects(c2s)
  BY <1>1, <1>3 DEF Queue
<1>6. Queue' = Tail(Queue)
  BY <1>2, <1>4, <1>5
<1>7. At("execute2")' = FALSE
  BY <1>1 DEF At
<1> QED
  BY <1>6, <1>7 DEF Promise!Finish

(* The statements (Server.java:42-43,59,104,114). *)
LEMMA StatementStep ==
    ASSUME IndInv,
           InsertBillboard \/ InsertView \/ UpdateView \/ DeleteFromView \/ UpdateBillboard
    PROVE  Promise!Next
<1>1. /\ exit = "running" /\ requestType # "showTable"
      /\ serverPc \notin {"readUTF", "readObject"}
      /\ At("execute") \/ At("execute2")
  BY DEF InsertBillboard, InsertView, UpdateView, DeleteFromView, UpdateBillboard, Executes, At
<1>2. /\ Queue # <<>> /\ Head(Queue) = request /\ request.type = requestType
      /\ request \in Requests
  BY <1>1, HandIsFirst
<1>3. IsTable(view, ViewRow) /\ IsTable(billboard, Texts)
  BY DEF IndInv, TypeOK
<1>4. CASE InsertBillboard
  <2>1. /\ requestType = "addBillboard" /\ serverPc = "execute" /\ serverPc' = "execute2"
        /\ UNCHANGED <<exit, c2s, request, requestType, view, nextView>>
    BY <1>4 DEF InsertBillboard, Executes, At, wireVars
  <2>2. Queue' = Queue
    <3>1. InHand' = InHand
      BY <2>1, Zenon DEF InHand
    <3> QED
      BY <2>1, <3>1 DEF Queue
  <2>3. ~At("execute2") /\ At("execute2")'
    BY <1>1, <2>1 DEF At
  <2>4. At("execute2")' = TRUE
    BY <2>3, Zenon
  <2>5. /\ billboard' = WithRow(billboard, nextBillboard, request.data)
        /\ nextBillboard' = nextBillboard + 1
    BY <1>4 DEF InsertBillboard
  <2>6. WithRow(billboard, nextBillboard, request.data)
          = Promise!Insert(billboard, nextBillboard, request.data)
    BY DEF WithRow, Promise!Insert
  <2>7. Promise!First("addBillboard")
    BY <1>2, <2>1 DEF Promise!First
  <2>8. Promise!AddToBillboard
    BY <1>2, <2>1, <2>2, <2>3, <2>4, <2>5, <2>6, <2>7, Zenon DEF Promise!AddToBillboard
  <2> QED
    BY <2>8 DEF Promise!Next
<1>5. CASE InsertView
  <2>1. /\ requestType = "addBillboard" /\ At("execute2") /\ ~Refuses /\ Done
        /\ UNCHANGED <<billboard, nextBillboard>>
        /\ view' = WithRow(view, ViewKey, [text |-> request.data, sched |-> Null])
        /\ nextView' = IF ViewAutoInc THEN nextView + 1 ELSE nextView
    BY <1>5 DEF InsertView, Executes
  <2>2. Promise!Finish
    BY <2>1, FinishStep
  <2>3. Promise!First("addBillboard")
    BY <1>2, <2>1 DEF Promise!First
  <2>4. ViewKey \notin DOMAIN view
    BY <2>1, Zenon DEF Refuses
  <2>5. view' = Promise!Insert(view, ViewKey, [text |-> Head(Queue).data, sched |-> Null])
    BY <1>2, <2>1 DEF WithRow, Promise!Insert
  <2>6. nextView' = IF ViewAutoInc THEN ViewKey + 1 ELSE nextView
    BY <2>1 DEF ViewKey
  <2>7. Promise!AddToView
    BY <2>1, <2>2, <2>3, <2>4, <2>5, <2>6, Zenon DEF Promise!AddToView, ViewKey
  <2> QED
    BY <2>7 DEF Promise!Next
<1>6. CASE UpdateView
  <2>1. /\ requestType = "addView" /\ At("execute") /\ Done
        /\ UNCHANGED <<billboard, nextBillboard, nextView>>
        /\ view' = [k \in DOMAIN view |-> IF k = Key(request.id)
                                          THEN [view[k] EXCEPT !.sched = request.data]
                                          ELSE view[k]]
    BY <1>6 DEF UpdateView, Executes
  <2>2. Promise!Finish
    BY <2>1, FinishStep
  <2>3. Promise!First("addView")
    BY <1>2, <2>1 DEF Promise!First
  <2>4. view' = IF Key(request.id) \in DOMAIN view
                THEN [view EXCEPT ![Key(request.id)].sched = request.data] ELSE view
    <3>1. view = [k \in DOMAIN view |-> view[k]]
      BY <1>3 DEF IsTable
    <3> QED
      BY <2>1, <3>1
  <2>5. Promise!Schedule
    BY <1>2, <2>1, <2>2, <2>3, <2>4 DEF Promise!Schedule, Key
  <2> QED
    BY <2>5 DEF Promise!Next
<1>7. CASE DeleteFromView
  <2>1. /\ requestType = "delete" /\ At("execute") /\ Done
        /\ UNCHANGED <<billboard, nextBillboard, nextView>>
        /\ view' = WithoutRow(view, request.id)
    BY <1>7 DEF DeleteFromView, Executes
  <2>2. Promise!Finish
    BY <2>1, FinishStep
  <2>3. Promise!First("delete")
    BY <1>2, <2>1 DEF Promise!First
  <2>4. Promise!Delete
    BY <1>2, <2>1, <2>2, <2>3 DEF Promise!Delete, WithoutRow
  <2> QED
    BY <2>4 DEF Promise!Next
<1>8. CASE UpdateBillboard
  <2>1. /\ requestType = "editTable" /\ At("execute") /\ Done
        /\ UNCHANGED <<view, nextBillboard, nextView>>
        /\ billboard' = [k \in DOMAIN billboard |-> IF k = request.id THEN request.data
                                                    ELSE billboard[k]]
    BY <1>8 DEF UpdateBillboard, Executes
  <2>2. Promise!Finish
    BY <2>1, FinishStep
  <2>3. Promise!First("editTable")
    BY <1>2, <2>1 DEF Promise!First
  <2>4. billboard' = IF request.id \in DOMAIN billboard
                     THEN [billboard EXCEPT ![request.id] = request.data] ELSE billboard
    <3>1. billboard = [k \in DOMAIN billboard |-> billboard[k]]
      BY <1>3 DEF IsTable
    <3> QED
      BY <2>1, <3>1
  <2>5. Promise!Edit
    BY <1>2, <2>1, <2>2, <2>3, <2>4 DEF Promise!Edit
  <2> QED
    BY <2>5 DEF Promise!Next
<1> QED
  BY <1>4, <1>5, <1>6, <1>7, <1>8

(* The server's other steps leave the queue alone: a type is no request,   *)
(* and an object read was the first of the stream (Server.java:28-34).     *)
LEMMA ReadStep ==
    ASSUME IndInv,
           \/ ReadRequestType \/ ReadObject \/ ReadEOF
           \/ GetInstance \/ CreateStatement \/ ShowTable
    PROVE  UNCHANGED Promise!vars
<1>1. exit = "running" /\ exit' = "running"
  BY DEF ReadRequestType, ReadObject, ReadEOF, GetInstance, CreateStatement, ShowTable,
         Executes, At, wireVars
<1>2. UNCHANGED <<billboard, view, nextBillboard, nextView>>
  BY DEF ReadRequestType, ReadObject, ReadEOF, GetInstance, CreateStatement, ShowTable, dbVars
<1>3. UNCHANGED At("execute2")
  <2>1. serverPc # "execute2" /\ serverPc' # "execute2"
    BY DEF ReadRequestType, ReadObject, ReadEOF, GetInstance, CreateStatement, ShowTable,
           Executes, At
  <2>2. ~At("execute2") /\ ~At("execute2")'
    BY <2>1 DEF At
  <2>3. At("execute2") = FALSE /\ At("execute2")' = FALSE
    BY <2>2 DEF At
  <2> QED
    BY <2>3
<1>4. c2s \in Seq(Items) /\ Objects(c2s) \in Seq(Requests)
  BY ObjectsTypes DEF IndInv, TypeOK
<1>5. Queue = InHand \o Objects(c2s) /\ Queue' = InHand' \o Objects(c2s')
  BY <1>1 DEF Queue
<1>6. Queue' = Queue
  <2>1. CASE ReadRequestType
    <3>1. /\ serverPc = "readUTF" /\ c2s # <<>> /\ Head(c2s).tag = "utf" /\ c2s' = Tail(c2s)
          /\ serverPc' = "readObject" \/ requestType' = "showTable"
      BY <2>1 DEF ReadRequestType, At
    <3>2. InHand = <<>> /\ InHand' = <<>>
      BY <3>1, Zenon DEF InHand
    <3>3. WithItem(<<>>, Head(c2s)) = <<>>
      BY <3>1 DEF WithItem
    <3>4. Objects(c2s) = <<>> \o Objects(c2s')
      BY <3>1, <3>3, <1>4, ObjectsTail
    <3>5. Objects(c2s') \in Seq(Requests)
      <4>1. c2s' \in Seq(Items)
        BY <3>1, <1>4
      <4> QED
        BY <4>1, ObjectsTypes
    <3> QED
      BY <3>2, <3>4, <3>5, <1>5
  <2>2. CASE ReadObject
    <3>1. /\ serverPc = "readObject" /\ c2s # <<>> /\ c2s' = Tail(c2s)
          /\ Head(c2s).tag = PayloadClass[requestType]
          /\ serverPc' = "getInstance" /\ request' = Head(c2s).val /\ requestType' = requestType
      BY <2>2 DEF ReadObject, At
    <3>2. requestType \in RequestTypes \ {"showTable"}
      BY <3>1 DEF IndInv, TypeOK, Control
    <3>3. Head(c2s).tag # "utf"
      BY <3>1, <3>2 DEF PayloadClass
    <3>4. Head(c2s) \in Items /\ c2s' \in Seq(Items)
      BY <3>1, <1>4
    <3>5. request' \in Requests
      BY <3>1, <3>3, <3>4, ItemFacts
    <3>6. WithItem(<<>>, Head(c2s)) = <<request'>>
      BY <3>1, <3>3, <3>5 DEF WithItem
    <3>7. InHand = <<>>
      BY <3>1, Zenon DEF InHand
    <3>8. InHand' = <<request'>>
      BY <3>1, <3>2 DEF InHand
    <3>9. Objects(c2s) = InHand' \o Objects(c2s')
      BY <3>1, <3>6, <3>8, <1>4, ObjectsTail
    <3>10. Queue = Objects(c2s)
      BY <3>7, <1>4, <1>5
    <3> QED
      BY <3>9, <3>10, <1>5
  <2>3. CASE ReadEOF \/ GetInstance \/ CreateStatement \/ ShowTable
    <3>1. c2s' = c2s /\ request' = request /\ requestType' = requestType
      BY <2>3 DEF ReadEOF, GetInstance, CreateStatement, ShowTable, wireVars
    <3>2. CASE ReadEOF
      <4>1. serverPc \in {"readUTF", "readObject"} /\ serverPc' = "readUTF"
        BY <3>2 DEF ReadEOF
      <4>2. InHand' = InHand
        BY <4>1, Zenon DEF InHand
      <4> QED
        BY <4>2, <3>1, <1>5
    <3>3. CASE GetInstance \/ CreateStatement
      <4>1. /\ serverPc \notin {"readUTF", "readObject"}
            /\ serverPc' \notin {"readUTF", "readObject"}
        BY <3>3 DEF GetInstance, CreateStatement, At
      <4>2. InHand' = InHand
        BY <4>1, <3>1, Zenon DEF InHand
      <4> QED
        BY <4>2, <3>1, <1>5
    <3>4. CASE ShowTable
      <4>1. requestType = "showTable" /\ requestType' = "showTable"
        BY <3>1, <3>4 DEF ShowTable, Executes
      <4>2. InHand' = InHand
        BY <4>1, Zenon DEF InHand
      <4> QED
        BY <4>2, <3>1, <1>5
    <3> QED
      BY <2>3, <3>2, <3>3, <3>4
  <2> QED
    BY <2>1, <2>2, <2>3
<1> QED
  BY <1>2, <1>3, <1>6, Zenon DEF Promise!vars

LEMMA ServerRefines ==
    ASSUME IndInv, ServerNext
    PROVE  [Promise!Next]_(Promise!vars)
<1>1. CASE \E cause \in Exits \ {"running"} : Dies(cause)
  BY <1>1, LoseStep DEF Promise!Next
<1>2. CASE \/ MisreadObject \/ ReadReset \/ CreateStatementOnNull \/ ShowTableThrows
           \/ RefusedStatement \/ DatabaseFails \/ KillServer
  <2>1. \E cause \in Exits \ {"running"} : Dies(cause)
    BY <1>2 DEF MisreadObject, ReadReset, CreateStatementOnNull, ShowTableThrows,
                RefusedStatement, DatabaseFails, KillServer, Exits
  <2> QED
    BY <1>1, <2>1
<1>3. CASE \/ ReadRequestType \/ ReadObject \/ ReadEOF
           \/ GetInstance \/ CreateStatement \/ ShowTable
  BY <1>3, ReadStep
<1>4. CASE \/ InsertBillboard \/ InsertView \/ UpdateView \/ DeleteFromView \/ UpdateBillboard
  BY <1>4, StatementStep
<1> QED
  BY <1>2, <1>3, <1>4 DEF ServerNext, ServerStep

(* What the client writes: a type adds nothing to the queue, an object     *)
(* completes a request (clientGUI.java:124-128).                           *)
LEMMA ClientRefines ==
    ASSUME IndInv, ClientStep \/ ClientUser, UNCHANGED serverVars
    PROVE  [Promise!Next]_(Promise!vars)
<1>1. /\ exit' = exit
      /\ UNCHANGED <<serverPc, requestType, request, billboard, view, nextBillboard, nextView>>
  <2>1. exit' = exit
    BY DEF ClientStep, ClientUser, RequestTable, ReadTable, ConstructorThrows, WriteObject,
           WriteObjectThrows, AbortDelete, WriteType, WriteTypeThrows, CloseWindow,
           KillClient, wireVars
  <2> QED
    BY <2>1 DEF serverVars, dbVars
<1>2. UNCHANGED At("execute2") /\ UNCHANGED InHand
  BY <1>1 DEF At, InHand
<1>3. c2s \in Seq(Items) /\ Objects(c2s) \in Seq(Requests)
  BY ObjectsTypes DEF IndInv, TypeOK
<1>4. ASSUME c2s' = c2s \/ exit # "running" PROVE UNCHANGED Promise!vars
  <2>1. Queue' = Queue
    BY <1>1, <1>2, <1>4 DEF Queue
  <2> QED
    BY <1>1, <1>2, <2>1, Zenon DEF Promise!vars
<1>5. ASSUME NEW t \in RequestTypes, Write(Utf(t)) PROVE UNCHANGED Promise!vars
  <2>1. CASE exit = "running" /\ c2s' = Append(c2s, Utf(t))
    <3>1. Utf(t) \in Items /\ Utf(t).tag = "utf"
      BY UtfIsItem DEF Utf
    <3>2. Objects(c2s') = Objects(c2s)
      BY <2>1, <3>1, <1>3, ObjectsAppend DEF WithItem
    <3>3. Queue' = Queue
      BY <3>2, <1>1, <1>2 DEF Queue
    <3> QED
      BY <3>3, <1>1, <1>2, Zenon DEF Promise!vars
  <2> QED
    BY <1>4, <1>5, <2>1 DEF Write
<1>6. CASE RequestTable \/ \E r \in Requests : WriteType(r)
  <2>1. \E t \in RequestTypes : Write(Utf(t))
    <3>1. CASE RequestTable
      BY <3>1 DEF RequestTable, RequestTypes
    <3>2. ASSUME NEW r \in Requests, WriteType(r) PROVE \E t \in RequestTypes : Write(Utf(t))
      BY <3>2, RequestFacts DEF WriteType
    <3> QED
      BY <1>6, <3>1, <3>2
  <2> QED
    BY <1>5, <2>1
<1>7. CASE WriteObject /\ exit = "running"
  <2>1. /\ clientPc = "writeObject" /\ ~(pending.type = "delete" /\ pending.id = Null)
        /\ c2s' = Append(c2s, Object(pending))
    BY <1>7 DEF WriteObject, Write
  <2>2. pending \in Requests
    BY <2>1 DEF IndInv, Control
  <2>3. Object(pending) \in Items
    BY <2>1, <2>2, ObjectIsItem
  <2>4. Object(pending).tag # "utf" /\ Object(pending).val = pending
    BY <2>2, RequestFacts DEF Object, PayloadClass
  <2>5. Objects(c2s') = Append(Objects(c2s), pending)
    BY <2>1, <2>3, <2>4, <1>3, ObjectsAppend DEF WithItem
  <2>6. InHand \in Seq(Requests)
    BY <1>7, HandTypes
  <2>7. Queue' = Append(Queue, pending)
    <3>1. Queue = InHand \o Objects(c2s) /\ Queue' = InHand \o Append(Objects(c2s), pending)
      BY <1>1, <1>2, <1>7, <2>5 DEF Queue
    <3>2. Append(InHand \o Objects(c2s), pending) = InHand \o Append(Objects(c2s), pending)
      BY <2>2, <2>6, <1>3, AppendAfter, Zenon
    <3> QED
      BY <3>1, <3>2
  <2>8. Promise!Submit
    BY <1>1, <1>2, <2>2, <2>7, Zenon DEF Promise!Submit
  <2> QED
    BY <2>8 DEF Promise!Next
<1>8. CASE WriteObject /\ exit # "running"
  BY <1>4, <1>8
<1>9. CASE \/ ReadTable \/ ConstructorThrows \/ WriteObjectThrows \/ AbortDelete
           \/ WriteTypeThrows \/ CloseWindow \/ KillClient
  <2>1. c2s' = c2s
    BY <1>9 DEF ReadTable, ConstructorThrows, WriteObjectThrows, AbortDelete,
                WriteTypeThrows, CloseWindow, KillClient, wireVars
  <2> QED
    BY <1>4, <2>1
<1> QED
  BY <1>6, <1>7, <1>8, <1>9 DEF ClientStep, ClientUser

(* A new session starts with nothing handed over. *)
LEMMA SessionRefines ==
    ASSUME NewSession
    PROVE  UNCHANGED Promise!vars
<1>1. /\ exit # "running" /\ exit' = "running" /\ c2s' = <<>> /\ serverPc' = "readUTF"
      /\ UNCHANGED <<billboard, view, nextBillboard, nextView>>
  BY DEF NewSession, dbVars
<1>2. Queue = <<>>
  BY <1>1 DEF Queue
<1>3. Queue' = <<>>
  <2>1. InHand' = <<>>
    BY <1>1, Zenon DEF InHand
  <2>2. Queue' = <<>> \o <<>>
    BY <1>1, <2>1, ObjectsNone DEF Queue
  <2> QED
    BY <2>2
<1>4. At("execute2") = FALSE /\ At("execute2")' = FALSE
  BY <1>1 DEF At
<1> QED
  BY <1>1, <1>2, <1>3, <1>4, Zenon DEF Promise!vars

(* The server carries out the requests handed over whole, in order and at  *)
(* most once, and nothing else changes the tables, through every crash,    *)
(* aborted handler and restart (Server.java:26-130).                       *)
THEOREM CarriesOutCorrect == Spec => CarriesOutRequests
<1>1. Init => Promise!Init
  <2> SUFFICES ASSUME Init PROVE Promise!Init
    OBVIOUS
  <2>1. c2s = <<>> /\ serverPc = "readUTF" /\ exit = "running"
    BY DEF Init, WireInit, ServerStart
  <2>2. InHand = <<>>
    BY <2>1, Zenon DEF InHand
  <2>3. Queue = <<>> \o <<>>
    BY <2>1, <2>2, ObjectsNone DEF Queue
  <2>4. At("execute2") = FALSE
    BY <2>1 DEF At
  <2> QED
    BY <2>3, <2>4 DEF Promise!Init
<1>2. IndInv /\ [Next]_vars => [Promise!Next]_(Promise!vars)
  <2> SUFFICES ASSUME IndInv, [Next]_vars PROVE [Promise!Next]_(Promise!vars)
    OBVIOUS
  <2>1. CASE ServerNext
    BY <2>1, ServerRefines
  <2>2. CASE (ClientStep \/ ClientUser) /\ UNCHANGED <<serverVars, session>>
    BY <2>2, ClientRefines
  <2>3. CASE NewSession
    BY <2>3, SessionRefines
  <2>4. CASE UNCHANGED vars
    <3>1. UNCHANGED <<exit, c2s, serverPc, requestType, request, billboard, view,
                      nextBillboard, nextView>>
      BY <2>4 DEF vars, wireVars, serverVars, dbVars
    <3>2. UNCHANGED At("execute2") /\ UNCHANGED InHand
      BY <3>1 DEF At, InHand
    <3>3. Queue' = Queue
      BY <3>1, <3>2 DEF Queue
    <3> QED
      BY <3>1, <3>2, <3>3, Zenon DEF Promise!vars
  <2> QED
    BY <2>1, <2>2, <2>3, <2>4 DEF Next
<1> QED
  BY <1>1, <1>2, IndInvCorrect, PTL DEF Spec, CarriesOutRequests, Promise!Spec
=============================================================================
