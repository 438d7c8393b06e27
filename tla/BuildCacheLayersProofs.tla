------------------------ MODULE BuildCacheLayersProofs -------------------------
(***************************************************************************)
(* What a cache program answered stays for a touch interval, and a         *)
(* collection spares what it decided to keep, for any number of programs,  *)
(* actions and outputs and any touch intervals.                            *)
(*                                                                         *)
(* A get, a put and a collection meet in every order, and what protects a   *)
(* file is a different thing at every stage: that no collection of its     *)
(* layer is running, then the age of the action that names it, then that   *)
(* the running collection has listed and kept that action. The invariant   *)
(* says which at which stage.                                              *)
(***************************************************************************)
EXTENDS BuildCacheLayers, TLAPS

Requests == [op : {"idle", "get", "put", "served"}, action : Actions \cup {None},
             from : Layers \cup {None}, in : Layers \cup {None}, since : Nat, raced : BOOLEAN]

Collections == [on : BOOLEAN, kept : SUBSET Actions, actions : SUBSET Actions,
                objects : SUBSET Outputs]

\* What a program is at, and how long ago its answer was.
Request(x) ==
    /\ x \in Requests
    /\ x.op # "idle" => x.action \in Actions /\ x.from \in Layers
    /\ x.op \in {"put", "served"} => x.in \in Layers
    /\ x.op \in {"get", "put"} => x.since = 0
    /\ x.op = "served" => x.since < Touch[x.in]

\* A collection removes nothing before it has listed, and nothing it keeps.
Collection(x) ==
    /\ x \in Collections
    /\ ~x.on => x.actions = {} /\ x.objects = {}
    /\ x.actions \cap x.kept = {}
    /\ \A a \in x.kept : output[a] \notin x.objects

Typed ==
    /\ output \in Compilations
    /\ actions \in [Layers -> [Actions -> Nat \cup {None}]]
    /\ objects \in [Layers -> [Outputs -> Nat \cup {None}]]
    /\ Aged(actions, Actions) /\ Aged(objects, Outputs)
    /\ program = [p \in Programs |-> program[p]]
    /\ plan = [l \in Layers |-> plan[l]]
    /\ \A p \in Programs : Request(program[p])
    /\ \A l \in Layers : Collection(plan[l])

\* What protects what a request has found or stored, unless a collection had
\* listed the layer meanwhile.
Protects(x) ==
    LET a == x.action
    IN  ~x.raced =>
          /\ x.op = "get" => ~plan[x.from].on /\ Has(actions, x.from, a)
          /\ x.op = "put" => ~plan[x.in].on /\ Has(objects, x.in, output[a])
          /\ x.op = "served" /\ x.from = x.in =>
                /\ Has(objects, x.in, output[a])
                /\ Has(actions, x.in, a) /\ actions[x.in][a] < x.since + Touch[x.in]
                /\ plan[x.in].on => a \in plan[x.in].kept

LInv == Typed /\ \A p \in Programs : Protects(program[p])

-----------------------------------------------------------------------------
(* Layers and ages.                                                        *)

\* An age is a number below the point where ages no longer differ.
LEMMA OldIsNat == \A l \in Layers : Old(l) \in Nat /\ Old(l) > 0 /\ MinIdle(l) <= Old(l)
BY LayersAssumption DEF Old, MinIdle, Layers

\* A layer that is said to hold an object has its file.
LEMMA HolderHas ==
    ASSUME NEW target \in Layers, NEW o, Holder(Holders(target), o) # None
    PROVE  LET h == Holder(Holders(target), o) IN h \in Layers /\ Has(objects, h, o)
<1> DEFINE layers == Holders(target)
           Found(i) == /\ Has(objects, layers[i], o)
                       /\ \A j \in 1..(i - 1) : ~Has(objects, layers[j], o)
<1>1. DOMAIN layers \in {1..1, 1..2} /\ \A i \in DOMAIN layers : layers[i] \in Layers
  BY DEF Holders, Layers
<1>2. \E i \in DOMAIN layers : Has(objects, layers[i], o)
  BY DEF Holder
<1>3. \E i \in DOMAIN layers : Found(i)
  <2> HIDE DEF layers
  <2>1. PICK i \in DOMAIN layers : Has(objects, layers[i], o)
    BY <1>2
  <2>2. i \in {1, 2} /\ 1 \in DOMAIN layers
    BY <1>1, <2>1
  <2>3. CASE Has(objects, layers[1], o)
    BY <2>2, <2>3
  <2>4. CASE ~Has(objects, layers[1], o)
    BY <2>1, <2>2, <2>4
  <2> QED BY <2>3, <2>4
<1>4. Holder(layers, o) = layers[CHOOSE i \in DOMAIN layers : Found(i)]
  BY <1>2 DEF Holder
<1>5. \A i : i \in DOMAIN layers /\ Found(i) => layers[i] \in Layers /\ Has(objects, layers[i], o)
  BY <1>1
<1> HIDE DEF layers, Found
<1>6. (CHOOSE i \in DOMAIN layers : Found(i)) \in DOMAIN layers
      /\ Found(CHOOSE i \in DOMAIN layers : Found(i))
  BY <1>3
<1> QED BY <1>4, <1>5, <1>6 DEF layers

\* A get asks both layers, as a put into the scratch layer does.
LEMMA GetAsksBoth == Holders("scratch") = <<"scratch", "base">>
BY DEF Holders

-----------------------------------------------------------------------------
(* Every step keeps the types and what protects the requests.              *)

\* A program moves; the others are where they were.
LEMMA ProgramMoves ==
    ASSUME Typed, NEW p \in Programs, NEW x, Request(x), program' = [program EXCEPT ![p] = x]
    PROVE  /\ program' = [q \in Programs |-> program'[q]]
           /\ \A q \in Programs : program'[q] = IF q = p THEN x ELSE program[q]
           /\ \A q \in Programs : Request(program'[q])
BY DEF Typed

\* Files are renewed or added and none is lost: nothing that is protected is harmed.
LEMMA RenewalProtects ==
    ASSUME Typed, NEW q \in Programs, Request(program'[q]), Protects(program'[q]),
           UNCHANGED <<output, plan>>,
           \A l \in Layers, a \in Actions :
              actions[l][a] # None =>
                 actions'[l][a] # None /\ (actions'[l][a] = actions[l][a] \/ actions'[l][a] = 0),
           \A l \in Layers, o \in Outputs : objects[l][o] # None => objects'[l][o] # None
    PROVE  Protects(program[q])'
<1> DEFINE x == program'[q]
           a == x.action
<1>1. x.op = "idle" \/ (a \in Actions /\ output[a] \in Outputs)
  BY LayersAssumption DEF Request, Requests, Typed
<1>2. x.op # "idle" => x.from \in Layers /\ Touch[x.from] \in Nat \ {0}
  BY LayersAssumption DEF Request
<1>3. x.since \in Nat
  BY DEF Request, Requests
<1>4. ~x.raced /\ x.op = "get" => ~plan'[x.from].on /\ actions'[x.from][a] # None
  BY <1>1, <1>2 DEF Protects, Has
<1>5. ~x.raced /\ x.op = "put" => ~plan'[x.in].on /\ objects'[x.in][output[a]] # None
  BY <1>1 DEF Protects, Has, Request
<1>6. ~x.raced /\ x.op = "served" /\ x.from = x.in =>
          /\ objects'[x.in][output[a]] # None
          /\ actions'[x.in][a] # None /\ actions'[x.in][a] < x.since + Touch[x.in]
          /\ plan'[x.in].on => a \in plan'[x.in].kept
  BY <1>1, <1>2, <1>3 DEF Protects, Has
<1> QED BY <1>4, <1>5, <1>6 DEF Protects, Has

\* An answer is a request that has one.
LEMMA AnswerTyped ==
    ASSUME NEW y, Request(y), y.op \in {"get", "put"}, NEW l \in Layers
    PROVE  Request(Answer(y, l))
<1>1. (y.raced \/ plan[l].on) \in BOOLEAN
  OBVIOUS
<1>2. Answer(y, l) \in Requests
  BY <1>1 DEF Answer, Request, Requests
<1>3. 0 < Touch[l]
  BY LayersAssumption
<1> QED BY <1>2, <1>3 DEF Answer, Request, Requests

LEMMA LookKeeps ==
    ASSUME LInv, NEW p \in Programs, NEW a \in Actions, Look(p, a)
    PROVE  LInv'
<1> DEFINE l == IF Has(actions, "scratch", a) THEN "scratch" ELSE "base"
           x == [Idle EXCEPT !.op = "get", !.action = a, !.from = l, !.raced = plan[l].on]
<1>1. program' = [program EXCEPT ![p] = x] /\ Typed
  BY DEF Look, LInv
<1>2. l \in Layers /\ Has(actions, l, a)
  BY DEF Look, Layers, Has
<1>3. Request(x)
  BY <1>1, <1>2 DEF Idle, Request, Requests, Typed, Collection, Collections
<1> HIDE DEF l
<1>4. Typed'
  BY <1>1, <1>3, ProgramMoves DEF Look, Typed, Aged, Collection
<1>5. Protects(x)
  BY <1>2 DEF Protects, Idle
<1>6. \A q \in Programs : Protects(program'[q])
  BY <1>1, <1>3, <1>5, ProgramMoves DEF LInv
<1>7. \A q \in Programs : Protects(program[q])'
  BY <1>1, <1>3, <1>6, ProgramMoves, RenewalProtects DEF Look
<1> QED BY <1>4, <1>7 DEF LInv

LEMMA LookFurtherKeeps ==
    ASSUME LInv, NEW p \in Programs, LookFurther(p)
    PROVE  LInv'
<1> DEFINE x == [program[p] EXCEPT !.from = "base", !.raced = plan["base"].on]
<1>1. /\ program' = [program EXCEPT ![p] = x] /\ Typed /\ Request(program[p])
      /\ program[p].op = "get" /\ Has(actions, "base", program[p].action)
      /\ UNCHANGED <<output, actions, objects, plan>>
  BY DEF LookFurther, LInv, Typed
<1>2. "base" \in Layers
  BY DEF Layers
<1>3. /\ Request(x) /\ x.op = "get" /\ x.from = "base" /\ x.action = program[p].action
      /\ x.raced = plan["base"].on
  BY <1>1, <1>2 DEF Request, Requests, Typed, Collection, Collections
<1> HIDE DEF x
<1>4. Typed'
  BY <1>1, <1>3, ProgramMoves DEF Typed, Aged, Collection
<1>5. Protects(x)
  BY <1>1, <1>3 DEF Protects
<1>6. \A q \in Programs : Protects(program'[q])
  BY <1>1, <1>3, <1>5, ProgramMoves DEF LInv
<1>7. \A q \in Programs : Protects(program[q])'
  BY <1>1, <1>3, <1>6, ProgramMoves, RenewalProtects
<1> QED BY <1>4, <1>7 DEF LInv

LEMMA ServeKeeps ==
    ASSUME LInv, NEW p \in Programs, Serve(p)
    PROVE  LInv'
<1> DEFINE l == program[p].from
           a == program[p].action
           holder == Holder(<<"scratch", "base">>, output[a])
           x == Answer(program[p], holder)
<1>1. Typed /\ Request(program[p]) /\ Protects(program[p]) /\ program[p].op = "get"
  BY DEF LInv, Typed, Serve
<1>2. /\ holder \in Layers /\ Has(objects, holder, output[a])
      /\ program' = [program EXCEPT ![p] = x] /\ actions' = Touched(l, a)
      /\ UNCHANGED <<output, objects, plan>>
  <2>1. holder # None
    BY DEF Serve
  <2> QED BY <1>1, <2>1, HolderHas, GetAsksBoth DEF Serve, Layers, Typed
<1>3. l \in Layers /\ a \in Actions /\ program[p].since = 0 /\ Touch[l] \in Nat \ {0}
      /\ Touch[holder] \in Nat \ {0}
  BY <1>1, <1>2, LayersAssumption DEF Request
<1> HIDE DEF holder
<1>4. /\ x.op = "served" /\ x.action = a /\ x.from = l /\ x.in = holder /\ x.since = 0
      /\ ~x.raced => ~program[p].raced /\ ~plan[holder].on
  BY <1>1, <1>2 DEF Request, Requests, Answer, Collection, Collections, Typed
<1>5. Request(x)
  BY <1>1, <1>2, <1>3, <1>4, AnswerTyped
<1> HIDE DEF x
<1>6. \A m \in Layers, b \in Actions :
          IF m = l /\ b = a /\ actions[l][a] # None /\ actions[l][a] >= Touch[l]
          THEN actions'[m][b] = 0 ELSE actions'[m][b] = actions[m][b]
  BY <1>1, <1>2, <1>3 DEF Touched, Typed, Has
<1>7. actions' \in [Layers -> [Actions -> Nat \cup {None}]] /\ Aged(actions', Actions)
  BY <1>1, <1>2, <1>3, OldIsNat DEF Touched, Typed, Has, Aged
<1>8. Typed'
  BY <1>1, <1>2, <1>5, <1>7, ProgramMoves DEF Typed, Aged, Collection
<1>9. ASSUME NEW q \in Programs PROVE Protects(program[q])'
  <2>1. CASE q # p
    <3>1. program'[q] = program[q] /\ Request(program'[q]) /\ Protects(program'[q])
      BY <1>1, <1>2, <1>5, <2>1, ProgramMoves DEF LInv, Typed
    <3>2. \A m \in Layers, b \in Actions : actions[m][b] # None =>
             actions'[m][b] # None /\ (actions'[m][b] = actions[m][b] \/ actions'[m][b] = 0)
      BY <1>6, LayersAssumption
    <3> QED BY <1>1, <1>2, <3>1, <3>2, RenewalProtects
  <2>2. CASE q = p
    <3>1. program'[q] = x
      BY <1>1, <1>2, <1>5, <2>2, ProgramMoves
    <3>2. ASSUME ~x.raced, holder = l
          PROVE  /\ objects'[holder][output[a]] # None /\ actions'[l][a] # None
                 /\ actions'[l][a] < Touch[l] /\ ~plan'[l].on
      <4>1. actions[l][a] # None /\ actions[l][a] \in Nat /\ ~plan[l].on
        BY <1>1, <1>3, <1>4, <3>2 DEF Protects, Has, Typed
      <4>2. actions'[l][a] # None /\ actions'[l][a] < Touch[l]
        BY <1>3, <1>6, <4>1, LayersAssumption
      <4> QED BY <1>2, <4>1, <4>2 DEF Has
    <3>3. x.op = "served" /\ x.action = a /\ x.from = l /\ x.in = holder /\ x.since = 0
      BY <1>4
    <3> HIDE DEF a, l
    <3> QED BY <1>2, <1>3, <3>1, <3>2, <3>3 DEF Protects, Has
  <2> QED BY <2>1, <2>2
<1> QED BY <1>8, <1>9 DEF LInv

LEMMA IdleRequest == Request(Idle) /\ Protects(Idle)
BY DEF Idle, Request, Requests, Protects

\* A program that is idle again asks for nothing.
LEMMA IdleKeeps ==
    ASSUME LInv, NEW p \in Programs, Miss(p) \/ Leave(p)
    PROVE  LInv'
<1>1. program' = [program EXCEPT ![p] = Idle] /\ UNCHANGED <<output, actions, objects, plan>>
  BY DEF Miss, Leave
<1>2. Typed'
  BY <1>1, IdleRequest, ProgramMoves DEF LInv, Typed, Aged, Collection
<1>3. \A q \in Programs : Request(program'[q]) /\ Protects(program'[q])
  BY <1>1, IdleRequest, ProgramMoves DEF LInv
<1>4. \A q \in Programs : Protects(program[q])'
  BY <1>1, <1>3, RenewalProtects DEF LInv
<1> QED BY <1>2, <1>4 DEF LInv

LEMMA PutKeeps ==
    ASSUME LInv, NEW p \in Programs, NEW a \in Actions, NEW target \in Layers, Put(p, a, target)
    PROVE  LInv'
<1> DEFINE holder == Holder(Holders(target), output[a])
           path == IF holder # None THEN holder ELSE target
           x == [Idle EXCEPT !.op = "put", !.action = a, !.from = target, !.in = path,
                             !.raced = plan[path].on]
<1>1. Typed /\ output[a] \in Outputs
  BY LayersAssumption DEF LInv, Typed
<1>2. /\ objects' = IF holder # None THEN objects
                    ELSE [objects EXCEPT ![path][output[a]] = 0]
      /\ program' = [program EXCEPT ![p] = x]
      /\ UNCHANGED <<output, actions, plan>>
  BY DEF Put
<1>3. path \in Layers /\ (holder # None => Has(objects, path, output[a]))
  BY HolderHas
<1>4. Request(x)
  BY <1>1, <1>3 DEF Idle, Request, Requests, Typed, Collection, Collections
<1>5. x.op = "put" /\ x.action = a /\ x.in = path /\ (x.raced = plan[path].on)
  BY DEF Idle
<1> HIDE DEF path, holder, x
<1>6. objects' \in [Layers -> [Outputs -> Nat \cup {None}]] /\ Aged(objects', Outputs)
  BY <1>1, <1>2, <1>3, OldIsNat DEF Typed, Aged
<1>7. /\ \A l \in Layers, o \in Outputs : objects[l][o] # None => objects'[l][o] # None
      /\ objects'[path][output[a]] # None
  BY <1>1, <1>2, <1>3, LayersAssumption DEF Typed, Has
<1>8. Typed'
  BY <1>1, <1>2, <1>4, <1>6, ProgramMoves DEF Typed, Aged, Collection
<1>9. ASSUME NEW q \in Programs PROVE Protects(program[q])'
  <2>1. CASE q # p
    <3>1. Request(program'[q]) /\ Protects(program'[q])
      BY <1>1, <1>2, <1>4, <2>1, ProgramMoves DEF LInv
    <3> QED BY <1>1, <1>2, <1>7, <3>1, RenewalProtects
  <2>2. CASE q = p
    <3>1. program'[q] = x
      BY <1>1, <1>2, <1>4, <2>2, ProgramMoves
    <3> QED BY <1>5, <1>2, <1>7, <3>1 DEF Protects, Has
  <2> QED BY <2>1, <2>2
<1> QED BY <1>8, <1>9 DEF LInv

LEMMA PutActionKeeps ==
    ASSUME LInv, NEW p \in Programs, PutAction(p)
    PROVE  LInv'
<1> DEFINE l == program[p].from
           a == program[p].action
           h == program[p].in
           x == Answer(program[p], h)
<1>1. Typed /\ Request(program[p]) /\ Protects(program[p]) /\ program[p].op = "put"
  BY DEF LInv, Typed, PutAction
<1>2. /\ program' = [program EXCEPT ![p] = x] /\ actions' = [actions EXCEPT ![l][a] = 0]
      /\ UNCHANGED <<output, objects, plan>>
  BY DEF PutAction
<1>3. /\ l \in Layers /\ h \in Layers /\ a \in Actions /\ output[a] \in Outputs
      /\ program[p].since = 0 /\ Touch[l] \in Nat \ {0}
  BY <1>1, LayersAssumption DEF Request, Typed
<1>4. /\ x.op = "served" /\ x.action = a /\ x.from = l /\ x.in = h /\ x.since = 0
      /\ ~x.raced => ~program[p].raced /\ ~plan[h].on
  BY <1>1, <1>3 DEF Request, Requests, Answer
<1>5. Request(x)
  BY <1>1, <1>3, AnswerTyped
<1> HIDE DEF x
<1>6. \A m \in Layers, b \in Actions :
          actions'[m][b] = IF m = l /\ b = a THEN 0 ELSE actions[m][b]
  BY <1>1, <1>2, <1>3 DEF Typed
<1>7. actions' \in [Layers -> [Actions -> Nat \cup {None}]] /\ Aged(actions', Actions)
  BY <1>1, <1>2, <1>3, OldIsNat DEF Typed, Aged
<1>8. Typed'
  BY <1>1, <1>2, <1>5, <1>7, ProgramMoves DEF Typed, Aged, Collection
<1>9. ASSUME NEW q \in Programs PROVE Protects(program[q])'
  <2>1. CASE q # p
    <3>1. Request(program'[q]) /\ Protects(program'[q])
      BY <1>1, <1>2, <1>5, <2>1, ProgramMoves DEF LInv
    <3>2. \A m \in Layers, b \in Actions : actions[m][b] # None =>
             actions'[m][b] # None /\ (actions'[m][b] = actions[m][b] \/ actions'[m][b] = 0)
      BY <1>6, LayersAssumption
    <3> QED BY <1>1, <1>2, <3>1, <3>2, RenewalProtects
  <2>2. CASE q = p
    <3>1. program'[q] = x
      BY <1>1, <1>2, <1>5, <2>2, ProgramMoves
    <3>2. ASSUME ~x.raced, h = l
          PROVE  /\ objects'[h][output[a]] # None /\ actions'[l][a] = 0 /\ ~plan'[l].on
      <4>1. objects[h][output[a]] # None /\ ~plan[h].on
        BY <1>1, <1>4, <3>2 DEF Protects, Has
      <4> QED BY <1>2, <1>3, <1>6, <3>2, <4>1
    <3>3. x.op = "served" /\ x.action = a /\ x.from = l /\ x.in = h /\ x.since = 0
      BY <1>4
    <3> HIDE DEF a, l
    <3> QED BY <1>2, <1>3, <3>1, <3>2, <3>3, LayersAssumption DEF Protects, Has
  <2> QED BY <2>1, <2>2
<1> QED BY <1>8, <1>9 DEF LInv

-----------------------------------------------------------------------------
(* Collections.                                                            *)

\* What a collection keeps: some of the actions it lists, and every young one
\* (collectWithHooks).
LEMMA YoungAreKept ==
    ASSUME Typed, NEW l \in Layers, NEW kept \in Kept(l)
    PROVE  /\ kept \subseteq Present(actions, l)
           /\ \A a \in Present(actions, l) : actions[l][a] < MinIdle(l) => a \in kept
BY DEF Kept, MayGo, Protected

LEMMA PresentTyped ==
    Typed => \A l \in Layers : /\ Present(actions, l) = {a \in Actions : actions[l][a] # None}
                               /\ Present(objects, l) = {o \in Outputs : objects[l][o] # None}
BY DEF Typed, Present

LEMMA ListKeeps ==
    ASSUME LInv, NEW l \in Layers, List(l)
    PROVE  LInv'
<1>1. PICK kept \in Kept(l) :
          plan' = [plan EXCEPT ![l] =
             [on |-> TRUE, kept |-> kept, actions |-> Present(actions, l) \ kept,
              objects |-> Freed(l, kept)]]
  BY DEF List
<1>2. Typed /\ UNCHANGED <<output, actions, objects>> /\ ~plan[l].on
  BY DEF LInv, List
<1>3. kept \subseteq Present(actions, l) /\ Present(actions, l) \subseteq Actions
      /\ Freed(l, kept) \subseteq Outputs /\ \A a \in kept : output[a] \notin Freed(l, kept)
  BY <1>2, YoungAreKept, PresentTyped DEF Freed
<1>4. /\ plan' = [m \in Layers |-> plan'[m]]
      /\ plan'[l].on /\ plan'[l].kept = kept
      /\ \A m \in Layers \ {l} : plan'[m] = plan[m]
      /\ \A m \in Layers : Collection(plan'[m])
  BY <1>1, <1>2, <1>3 DEF Typed, Collection, Collections
<1>5. /\ program' = [p \in Programs |-> program'[p]]
      /\ \A p \in Programs : program'[p] =
           IF program[p].op \in {"get", "put"} /\ l \in {program[p].from, program[p].in}
           THEN [program[p] EXCEPT !.raced = TRUE] ELSE program[p]
  BY DEF List
<1>6. ASSUME NEW p \in Programs PROVE Request(program'[p])
  <2>1. Request(program[p])
    BY <1>2 DEF Typed
  <2>2. Request([program[p] EXCEPT !.raced = TRUE])
    BY <2>1 DEF Request, Requests
  <2> QED BY <1>5, <2>1, <2>2
<1>7. \A m \in Layers : Collection(plan[m])'
  BY <1>2, <1>4 DEF Collection
<1>8. Typed'
  BY <1>2, <1>4, <1>5, <1>6, <1>7 DEF Typed, Aged
<1>9. ASSUME NEW p \in Programs PROVE Protects(program[p])'
  <2> DEFINE x == program[p]
             a == x.action
  <2>1. Request(x) /\ Protects(x) /\ Request(program'[p])
    BY <1>2, <1>6 DEF Typed, LInv
  <2>2. CASE x.op \in {"get", "put"} /\ l \in {x.from, x.in}
    <3>1. program'[p].raced
      BY <1>5, <2>1, <2>2 DEF Request, Requests
    <3> QED BY <3>1 DEF Protects
  <2>3. CASE x.op \in {"get", "put"} /\ l \notin {x.from, x.in}
    <3>1. program'[p] = x /\ (x.op = "get" => plan'[x.from] = plan[x.from])
          /\ (x.op = "put" => plan'[x.in] = plan[x.in])
      BY <1>4, <1>5, <2>1, <2>3 DEF Request
    <3> QED BY <1>2, <2>1, <2>3, <3>1 DEF Protects, Has
  <2>4. CASE x.op = "served"
    <3>1. program'[p] = x
      BY <1>5, <2>4
    <3>2. ASSUME ~x.raced, x.from = x.in, x.in = l PROVE a \in kept
      <4>1. a \in Actions /\ x.since \in Nat /\ x.since < Touch[l] /\ Touch[l] \in Nat
        BY <2>1, <2>4, <3>2, LayersAssumption DEF Request, Requests
      <4>2. actions[l][a] # None /\ actions[l][a] < x.since + Touch[l]
            /\ actions[l][a] \in Nat
        BY <1>2, <2>1, <2>4, <3>2, <4>1 DEF Protects, Has, Typed
      <4>3. a \in Present(actions, l) /\ actions[l][a] < MinIdle(l)
        BY <1>2, <4>1, <4>2, PresentTyped DEF MinIdle
      <4> QED BY <1>2, <4>3, YoungAreKept
    <3>3. x.in # l => plan'[x.in] = plan[x.in]
      BY <1>4, <2>1, <2>4 DEF Request
    <3> QED BY <1>2, <1>4, <2>1, <2>4, <3>1, <3>2, <3>3 DEF Protects, Has
  <2>5. CASE x.op = "idle"
    BY <1>5, <2>5 DEF Protects
  <2> QED BY <2>1, <2>2, <2>3, <2>4, <2>5 DEF Request, Requests
<1> QED BY <1>8, <1>9 DEF LInv

LEMMA RemoveActionKeeps ==
    ASSUME LInv, NEW l \in Layers, RemoveAction(l)
    PROVE  LInv'
<1>1. PICK a \in plan[l].actions : /\ actions' = [actions EXCEPT ![l][a] = None]
                                   /\ plan' = [plan EXCEPT ![l].actions = @ \ {a}]
  BY DEF RemoveAction
<1>2. Typed /\ UNCHANGED <<output, objects, program>> /\ Collection(plan[l])
  BY DEF LInv, RemoveAction, Typed
<1>3. /\ plan' = [m \in Layers |-> plan'[m]]
      /\ \A m \in Layers : /\ plan'[m].on = plan[m].on /\ plan'[m].kept = plan[m].kept
                           /\ Collection(plan'[m])
  BY <1>1, <1>2 DEF Typed, Collection, Collections
<1>4. /\ actions' \in [Layers -> [Actions -> Nat \cup {None}]] /\ Aged(actions', Actions)
      /\ \A m \in Layers, b \in Actions :
            actions'[m][b] = IF m = l /\ b = a THEN None ELSE actions[m][b]
  BY <1>1, <1>2 DEF Typed, Aged
<1>5. \A m \in Layers : Collection(plan[m])'
  BY <1>2, <1>3 DEF Collection
<1>6. Typed'
  BY <1>2, <1>3, <1>4, <1>5 DEF Typed, Aged
<1>7. plan[l].on /\ a \notin plan[l].kept
  BY <1>1, <1>2 DEF Collection
<1>8. ASSUME NEW p \in Programs PROVE Protects(program[p])'
  <2>1. Request(program[p]) /\ Protects(program[p])
    BY <1>2 DEF Typed, LInv
  <2> QED BY <1>2, <1>3, <1>4, <1>7, <2>1 DEF Protects, Has, Request
<1> QED BY <1>6, <1>8 DEF LInv

LEMMA RemoveObjectKeeps ==
    ASSUME LInv, NEW l \in Layers, RemoveObject(l)
    PROVE  LInv'
<1>1. PICK o \in plan[l].objects : /\ objects' = [objects EXCEPT ![l][o] = None]
                                   /\ plan' = [plan EXCEPT ![l].objects = @ \ {o}]
  BY DEF RemoveObject
<1>2. Typed /\ UNCHANGED <<output, actions, program>> /\ Collection(plan[l])
  BY DEF LInv, RemoveObject, Typed
<1>3. /\ plan' = [m \in Layers |-> plan'[m]]
      /\ \A m \in Layers : /\ plan'[m].on = plan[m].on /\ plan'[m].kept = plan[m].kept
                           /\ Collection(plan'[m])
  BY <1>1, <1>2 DEF Typed, Collection, Collections
<1>4. /\ objects' \in [Layers -> [Outputs -> Nat \cup {None}]] /\ Aged(objects', Outputs)
      /\ \A m \in Layers, b \in Outputs :
            objects'[m][b] = IF m = l /\ b = o THEN None ELSE objects[m][b]
  BY <1>1, <1>2 DEF Typed, Aged
<1>5. \A m \in Layers : Collection(plan[m])'
  BY <1>2, <1>3 DEF Collection
<1>6. Typed'
  BY <1>2, <1>3, <1>4, <1>5 DEF Typed, Aged
<1>7. plan[l].on /\ \A a \in plan[l].kept : output[a] # o
  BY <1>1, <1>2 DEF Collection
<1>8. ASSUME NEW p \in Programs PROVE Protects(program[p])'
  <2>1. Request(program[p]) /\ Protects(program[p])
        /\ (program[p].op # "idle" => output[program[p].action] \in Outputs)
    BY <1>2, LayersAssumption DEF Typed, LInv, Request
  <2> QED BY <1>2, <1>3, <1>4, <1>7, <2>1 DEF Protects, Has, Request
<1> QED BY <1>6, <1>8 DEF LInv

LEMMA RestKeeps ==
    ASSUME LInv, NEW l \in Layers, Rest(l)
    PROVE  LInv'
<1>1. Typed /\ UNCHANGED <<output, actions, objects, program>>
      /\ plan' = [plan EXCEPT ![l] = Resting]
  BY DEF LInv, Rest
<1>2. /\ plan' = [m \in Layers |-> plan'[m]]
      /\ \A m \in Layers : /\ plan'[m] = IF m = l THEN Resting ELSE plan[m]
                           /\ Collection(plan'[m])
  BY <1>1 DEF Typed, Collection, Collections, Resting
<1>3. \A m \in Layers : Collection(plan[m])'
  BY <1>1, <1>2 DEF Collection
<1>4. Typed'
  BY <1>1, <1>2, <1>3 DEF Typed, Aged
<1>5. ASSUME NEW p \in Programs PROVE Protects(program[p])'
  <2>1. Request(program[p]) /\ Protects(program[p])
    BY <1>1 DEF Typed, LInv
  <2> QED BY <1>1, <1>2, <2>1 DEF Protects, Has, Request, Resting
<1> QED BY <1>4, <1>5 DEF LInv

-----------------------------------------------------------------------------
(* Time, and the theorems.                                                 *)

\* A file that is older is there all the same, and at most by one tick.
LEMMA OlderAge ==
    ASSUME NEW l \in Layers, NEW age \in 0..Old(l) \cup {None}
    PROVE  /\ Older(l, age) \in 0..Old(l) \cup {None}
           /\ age # None => Older(l, age) # None /\ Older(l, age) <= age + 1
BY OldIsNat, LayersAssumption DEF Older

LEMMA TickKeeps ==
    ASSUME LInv, Tick
    PROVE  LInv'
<1>1. Typed /\ UNCHANGED <<output, plan>> /\ \A l \in Layers : ~plan[l].on
  BY DEF LInv, Tick
<1>2. /\ actions' \in [Layers -> [Actions -> Nat \cup {None}]] /\ Aged(actions', Actions)
      /\ \A l \in Layers, a \in Actions : actions'[l][a] = Older(l, actions[l][a])
  <2>1. actions' = [l \in Layers |-> [a \in Actions |-> Older(l, actions[l][a])]]
    BY DEF Tick
  <2>2. \A l \in Layers, a \in Actions : Older(l, actions[l][a]) \in 0..Old(l) \cup {None}
    BY <1>1, OlderAge DEF Typed, Aged
  <2> QED BY <2>1, <2>2, OldIsNat DEF Aged
<1>3. /\ objects' \in [Layers -> [Outputs -> Nat \cup {None}]] /\ Aged(objects', Outputs)
      /\ \A l \in Layers, o \in Outputs : objects'[l][o] = Older(l, objects[l][o])
  <2>1. objects' = [l \in Layers |-> [o \in Outputs |-> Older(l, objects[l][o])]]
    BY DEF Tick
  <2>2. \A l \in Layers, o \in Outputs : Older(l, objects[l][o]) \in 0..Old(l) \cup {None}
    BY <1>1, OlderAge DEF Typed, Aged
  <2> QED BY <2>1, <2>2, OldIsNat DEF Aged
<1>4. /\ program' = [p \in Programs |-> program'[p]]
      /\ \A p \in Programs : /\ program[p].op \notin {"get", "put"}
                             /\ program'[p] = IF program[p].op # "served" THEN program[p]
                                  ELSE IF program[p].since + 1 = Touch[program[p].in] THEN Idle
                                  ELSE [program[p] EXCEPT !.since = @ + 1]
  BY DEF Tick
<1>5. ASSUME NEW p \in Programs
      PROVE  /\ Request(program'[p])
             /\ \/ program'[p].op = "idle"
                \/ /\ program[p].op = "served" /\ program'[p].op = "served"
                   /\ program'[p].since = program[p].since + 1
                   /\ program'[p].action = program[p].action
                   /\ program'[p].from = program[p].from /\ program'[p].in = program[p].in
                   /\ program'[p].raced = program[p].raced
  <2> DEFINE x == program[p]
  <2>1. Request(x)
    BY <1>1 DEF Typed
  <2>2. CASE x.op # "served"
    <3>1. program'[p] = x
      BY <1>4, <2>2
    <3>2. x.op = "idle"
      BY <1>4, <2>1, <2>2 DEF Request, Requests
    <3> QED BY <2>1, <3>1, <3>2
  <2>3. CASE x.op = "served" /\ x.since + 1 = Touch[x.in]
    <3>1. program'[p] = Idle
      BY <1>4, <2>3
    <3> QED BY <3>1, IdleRequest DEF Idle
  <2>4. CASE x.op = "served" /\ x.since + 1 # Touch[x.in]
    <3>1. program'[p] = [x EXCEPT !.since = @ + 1]
      BY <1>4, <2>4
    <3>2. x.since \in Nat /\ Touch[x.in] \in Nat /\ x.since < Touch[x.in]
      BY <2>1, <2>4, LayersAssumption DEF Request, Requests
    <3> QED BY <2>1, <2>4, <3>1, <3>2 DEF Request, Requests
  <2> QED BY <2>2, <2>3, <2>4
<1>6. \A l \in Layers : Collection(plan[l])'
  BY <1>1 DEF Typed, Collection
<1>7. Typed'
  BY <1>1, <1>2, <1>3, <1>4, <1>5, <1>6 DEF Typed, Aged
<1>8. ASSUME NEW p \in Programs PROVE Protects(program[p])'
  <2>1. CASE program'[p].op = "idle"
    BY <2>1 DEF Protects
  <2>2. CASE program'[p].op # "idle"
    <3> DEFINE x == program[p]
               y == program'[p]
               a == x.action
    <3>1. /\ x.op = "served" /\ y.op = "served" /\ y.since = x.since + 1 /\ y.action = a
          /\ y.from = x.from /\ y.in = x.in /\ y.raced = x.raced /\ Protects(x) /\ Request(x)
      BY <1>1, <1>5, <2>2 DEF LInv, Typed
    <3>2. x.in \in Layers /\ a \in Actions /\ output[a] \in Outputs /\ ~plan[x.in].on
          /\ x.since \in Nat /\ Touch[x.in] \in Nat
      BY <1>1, <3>1, LayersAssumption DEF Request, Requests, Typed
    <3>3. ASSUME ~x.raced, x.from = x.in
          PROVE  /\ objects'[x.in][output[a]] # None /\ actions'[x.in][a] # None
                 /\ actions'[x.in][a] < y.since + Touch[x.in]
      <4>1. /\ objects[x.in][output[a]] # None /\ actions[x.in][a] # None
            /\ actions[x.in][a] < x.since + Touch[x.in]
        BY <3>1, <3>3 DEF Protects, Has
      <4>2. actions[x.in][a] \in 0..Old(x.in) \cup {None}
            /\ objects[x.in][output[a]] \in 0..Old(x.in) \cup {None}
        BY <1>1, <3>2 DEF Typed, Aged
      <4>3. actions'[x.in][a] # None /\ actions'[x.in][a] <= actions[x.in][a] + 1
            /\ actions'[x.in][a] \in Nat /\ actions[x.in][a] \in Nat
        BY <1>2, <3>2, <4>1, <4>2, OlderAge, OldIsNat
      <4>4. objects'[x.in][output[a]] # None
        BY <1>3, <3>2, <4>1, <4>2, OlderAge
      <4> QED BY <3>1, <3>2, <4>1, <4>3, <4>4
    <3> QED BY <1>1, <3>1, <3>2, <3>3 DEF Protects, Has
  <2> QED BY <2>1, <2>2
<1> QED BY <1>7, <1>8 DEF LInv

LEMMA LayersStart == Init => LInv
<1> SUFFICES ASSUME Init PROVE LInv
  OBVIOUS
<1>1. Collection(Resting)
  BY DEF Collection, Collections, Resting
<1>2. Aged(actions, Actions) /\ Aged(objects, Outputs)
  BY DEF Init, Aged
<1>3. \A l \in Layers : Collection(plan[l])
  BY <1>1 DEF Init
<1>4. \A p \in Programs : Request(program[p]) /\ Protects(program[p])
  BY IdleRequest DEF Init
<1> QED BY <1>2, <1>3, <1>4 DEF Init, LInv, Typed

LEMMA LayersStep == LInv /\ [Next]_vars => LInv'
<1> SUFFICES ASSUME LInv, [Next]_vars PROVE LInv'
  OBVIOUS
<1>1. CASE \E p \in Programs :
             \/ \E a \in Actions : Look(p, a) \/ \E l \in Layers : Put(p, a, l)
             \/ Serve(p) \/ LookFurther(p) \/ Miss(p) \/ PutAction(p) \/ Leave(p)
  BY <1>1, LookKeeps, LookFurtherKeeps, ServeKeeps, IdleKeeps, PutKeeps, PutActionKeeps
<1>2. CASE \E l \in Layers : List(l) \/ RemoveAction(l) \/ RemoveObject(l) \/ Rest(l)
  BY <1>2, ListKeeps, RemoveActionKeeps, RemoveObjectKeeps, RestKeeps
<1>3. CASE Tick
  BY <1>3, TickKeeps
<1>4. CASE UNCHANGED vars
  BY <1>4 DEF vars, LInv, Typed, Aged, Collection, Protects, Has
<1> QED BY <1>1, <1>2, <1>3, <1>4 DEF Next

\* What protects a request holds at every stage, and every field has its type.
THEOREM LayersInductive == Spec => []LInv
BY LayersStart, LayersStep, PTL DEF Spec

THEOREM LayersTyped == Spec => []TypeOK
<1>1. LInv => TypeOK
  BY DEF LInv, Typed, Request, Requests, Collection, Collections, TypeOK
<1> QED BY <1>1, LayersInductive, PTL

\* The path of a response stays for a touch interval, when the layer that has the
\* object has the action too and no listing preceded the response (touch, MinIdle).
THEOREM ResponsesStay == Spec => []ServedStays
<1>1. LInv => ServedStays
  BY DEF LInv, Protects, ServedStays, Served, IsThere
<1> QED BY <1>1, LayersInductive, PTL

\* No step of anyone removes the object of an action that a running collection has
\* kept (references, release).
THEOREM KeptActionsAreServed == Spec => KeptIsServed
<1> DEFINE Spares == \A l \in Layers, a \in Actions :
                        /\ plan[l].on /\ a \in plan[l].kept
                        /\ Has(objects, l, output[a])
                        => objects'[l][output[a]] # None
<1>1. LInv /\ [Next]_vars => Spares
  <2> SUFFICES ASSUME LInv, [Next]_vars, NEW l \in Layers, NEW a \in Actions,
                      plan[l].on, a \in plan[l].kept, Has(objects, l, output[a])
               PROVE  objects'[l][output[a]] # None
    OBVIOUS
  <2>1. output[a] \in Outputs /\ Typed /\ Collection(plan[l])
    BY LayersAssumption DEF LInv, Typed
  <2>2. CASE \E p \in Programs, b \in Actions, m \in Layers : Put(p, b, m)
    <3>1. PICK p \in Programs, b \in Actions, m \in Layers : Put(p, b, m)
      BY <2>2
    <3> QED BY <2>1, <3>1, LayersAssumption DEF Put, Has, Typed
  <2>3. CASE \E m \in Layers : RemoveObject(m)
    BY <2>1, <2>3 DEF RemoveObject, Has, Typed, Collection
  <2>4. CASE Tick
    BY <2>4 DEF Tick
  <2>5. CASE \/ \E p \in Programs : \/ \E b \in Actions : Look(p, b)
                                    \/ Serve(p) \/ LookFurther(p) \/ Miss(p) \/ PutAction(p) \/ Leave(p)
             \/ \E m \in Layers : List(m) \/ RemoveAction(m) \/ Rest(m)
             \/ UNCHANGED vars
    BY <2>5 DEF Look, Serve, LookFurther, Miss, PutAction, Leave, List, RemoveAction, Rest, vars, Has
  <2> QED BY <2>2, <2>3, <2>4, <2>5 DEF Next
<1>2. Spares => [Spares]_vars
  OBVIOUS
<1> QED BY <1>1, <1>2, LayersInductive, PTL DEF Spec, KeptIsServed

\* Where a bound is configured, a collection decides to exceed it for young objects
\* and the objects of young actions alone (collectWithHooks).
THEOREM BoundsAreSoft == MaxObjects # 0 => (Spec => BoundIsSoft)
<1> SUFFICES ASSUME MaxObjects # 0 PROVE Spec => BoundIsSoft
  OBVIOUS
<1> DEFINE Bounded(l) ==
      \/ Cardinality(Present(objects, l) \ plan'[l].objects) <= MaxObjects
      \/ \A o \in Present(objects, l) \ plan'[l].objects :
            \/ objects[l][o] < MinIdle(l)
            \/ \E a \in Present(actions, l) : output[a] = o /\ actions[l][a] < MinIdle(l)
           Soft == \A l \in Layers : ~plan[l].on /\ plan'[l].on => Bounded(l)
<1>1. LInv /\ [Next]_vars => Soft
  <2> SUFFICES ASSUME LInv, [Next]_vars, NEW l \in Layers, ~plan[l].on, plan'[l].on
               PROVE  Bounded(l)
    OBVIOUS
  <2>1. CASE List(l)
    <3>1. PICK kept \in Kept(l) : plan' = [plan EXCEPT ![l] =
             [on |-> TRUE, kept |-> kept, actions |-> Present(actions, l) \ kept,
              objects |-> Freed(l, kept)]]
      BY <2>1 DEF List
    <3>2. plan'[l].objects = Freed(l, kept) /\ kept \subseteq Present(actions, l)
      BY <3>1, YoungAreKept DEF LInv, Typed
    <3>3. \/ Remaining(l, kept) <= MaxObjects
          \/ \A a \in kept : actions[l][a] < MinIdle(l)
      BY DEF Kept, Fits, MayGo, Protected
    <3>4. CASE Remaining(l, kept) <= MaxObjects
      BY <3>2, <3>4 DEF Remaining
    <3>5. CASE \A a \in kept : actions[l][a] < MinIdle(l)
      <4>1. ASSUME NEW o \in Present(objects, l) \ Freed(l, kept)
            PROVE  \/ objects[l][o] < MinIdle(l)
                   \/ \E a \in kept : output[a] = o
        BY DEF Freed, Protected
      <4> QED BY <3>2, <3>5, <4>1
    <3> QED BY <3>3, <3>4, <3>5
  <2>2. CASE \E m \in Layers \ {l} : List(m)
    BY <2>2 DEF LInv, Typed, List
  <2>3. CASE \E m \in Layers : RemoveAction(m) \/ RemoveObject(m) \/ Rest(m)
    BY <2>3 DEF LInv, Typed, Collection, Collections, RemoveAction, RemoveObject, Rest, Resting
  <2>4. CASE \/ \E p \in Programs :
                  \/ \E a \in Actions : Look(p, a) \/ \E m \in Layers : Put(p, a, m)
                  \/ Serve(p) \/ LookFurther(p) \/ Miss(p) \/ PutAction(p) \/ Leave(p)
             \/ Tick \/ UNCHANGED vars
    BY <2>4 DEF Look, Put, Serve, LookFurther, Miss, PutAction, Leave, Tick, vars
  <2> QED BY <2>1, <2>2, <2>3, <2>4 DEF Next
<1>2. Soft => [Soft]_vars
  OBVIOUS
<1> QED BY <1>1, <1>2, LayersInductive, PTL DEF Spec, BoundIsSoft

================================================================================
