--------------------------- MODULE BuildCacheLayers ---------------------------
(***************************************************************************)
(* The build cache: a base layer the machine keeps and a scratch layer of   *)
(* one run.  A cache program answers the go command from both and stores    *)
(* into one of them; collections drop what was not used for long.           *)
(*                                                                         *)
(* A layer is two sets of files.  An action names an output, and its file   *)
(* time says when it was last put or touched; an object holds an output.    *)
(* Only collections exclude one another: a get, a put and a collection meet *)
(* in every order, and any of them may stop between two of its steps.       *)
(*                                                                         *)
(* File times are kept as ages that stop at Old.                            *)
(***************************************************************************)
EXTENDS Naturals, FiniteSets

CONSTANTS
    Programs,     \* cache programs that serve go commands
    Actions,
    Outputs,      \* of one size
    Compilations, \* what the actions may turn out to compile to
    None,
    Touch,        \* Touch[l]: the touch interval of a layer
    MaxObjects,   \* build_max_bytes, in objects
    TTL,          \* of the base
    MaxCollections \* at one time

Layers == {"scratch", "base"}

MinIdle(l) == 2 * Touch[l]

ASSUME LayersAssumption ==
    /\ Compilations \subseteq [Actions -> Outputs]
    /\ Touch \in [Layers -> Nat \ {0}]
    /\ None \notin Nat /\ None \notin Layers
    /\ MaxObjects \in Nat /\ TTL \in Nat /\ MaxCollections \in Nat

VARIABLES
    output,   \* what every action compiles to
    actions,  \* actions[l][a]: the age of its file
    objects,  \* objects[l][o]: the age of its file
    program,  \* what every cache program is doing
    plan      \* plan[l]: what the collection of l has still to remove

vars == <<output, actions, objects, program, plan>>

\* The age past which nothing tells two files of a layer apart.
Old(l) == IF l = "base" /\ TTL > MinIdle(l) THEN TTL ELSE MinIdle(l)

Has(files, l, x) == files[l][x] # None

Idle == [op |-> "idle", action |-> None, from |-> None, in |-> None, since |-> 0, raced |-> FALSE]

\* A collection that is not running.
Resting == [on |-> FALSE, kept |-> {}, actions |-> {}, objects |-> {}]

\* Where a put into a layer looks for the object: what is to outlive the run
\* must not rest on its scratch.
Holders(target) == IF target = "base" THEN <<"base">> ELSE <<"scratch", "base">>

\* The first of some layers that holds an object, as the layers hold it now.
Holder(layers, o) ==
    IF \E i \in DOMAIN layers : Has(objects, layers[i], o)
    THEN layers[CHOOSE i \in DOMAIN layers :
             Has(objects, layers[i], o) /\ \A j \in 1..(i - 1) : ~Has(objects, layers[j], o)]
    ELSE None

-------------------------------------------------------------------------------
(* Serving. *)

\* A get finds an action, in the scratch layer first, and not yet its object.
Look(p, a) ==
    /\ program[p].op = "idle"
    /\ \E l \in Layers : Has(actions, l, a)
    /\ LET l == IF Has(actions, "scratch", a) THEN "scratch" ELSE "base"
       IN  program' = [program EXCEPT ![p] =
              [Idle EXCEPT !.op = "get", !.action = a, !.from = l, !.raced = plan[l].on]]
    /\ UNCHANGED <<output, actions, objects, plan>>

\* A read renews the file time at most once per touch interval, and not that
\* of a file which is gone.
Touched(l, a) ==
    IF Has(actions, l, a) /\ actions[l][a] >= Touch[l]
    THEN [actions EXCEPT ![l][a] = 0] ELSE actions

\* The path of the object in some layer is the answer; raced says that a
\* collection had listed the layer before the answer and after it was looked at.
Answer(request, l) ==
    [request EXCEPT !.op = "served", !.in = l, !.raced = @ \/ plan[l].on]

\* Its object is there, in either layer, and the path of it is the answer.
Serve(p) ==
    LET l == program[p].from
        a == program[p].action
        holder == Holder(<<"scratch", "base">>, output[a])
    IN  /\ program[p].op = "get" /\ holder # None
        /\ actions' = Touched(l, a)
        /\ program' = [program EXCEPT ![p] = Answer(@, holder)]
        /\ UNCHANGED <<output, objects, plan>>

\* A scratch action without its object: the action of the base is tried.
LookFurther(p) ==
    LET a == program[p].action
    IN  /\ program[p].op = "get" /\ program[p].from = "scratch"
        /\ Holder(<<"scratch", "base">>, output[a]) = None /\ Has(actions, "base", a)
        /\ program' = [program EXCEPT ![p] = [@ EXCEPT !.from = "base", !.raced = plan["base"].on]]
        /\ UNCHANGED <<output, actions, objects, plan>>

\* Its object is in neither, and there is no other action to try.
Miss(p) ==
    /\ program[p].op = "get"
    /\ Holder(<<"scratch", "base">>, output[program[p].action]) = None
    /\ program[p].from = "base" \/ ~Has(actions, "base", program[p].action)
    /\ program' = [program EXCEPT ![p] = Idle]
    /\ UNCHANGED <<output, actions, objects, plan>>

\* The go command stores what it compiled, or a miss is answered from the host's
\* own cache: an object that some holder has is not written again.  A program
\* that persists stores into the base.
Put(p, a, target) ==
    /\ program[p].op = "idle"
    /\ LET holder == Holder(Holders(target), output[a])
           path == IF holder # None THEN holder ELSE target
       IN  /\ objects' = IF holder # None THEN objects
                         ELSE [objects EXCEPT ![path][output[a]] = 0]
           /\ program' = [program EXCEPT ![p] = [Idle EXCEPT
                 !.op = "put", !.action = a, !.from = target, !.in = path,
                 !.raced = plan[path].on]]
    /\ UNCHANGED <<output, actions, plan>>

\* The action is published over what it named before, and the path is the answer.
PutAction(p) ==
    /\ program[p].op = "put"
    /\ actions' = [actions EXCEPT ![program[p].from][program[p].action] = 0]
    /\ program' = [program EXCEPT ![p] = Answer(@, program[p].in)]
    /\ UNCHANGED <<output, objects, plan>>

\* The go command opened the path it was given, or the program ended, with or
\* without an answer.
Leave(p) ==
    /\ program[p].op # "idle"
    /\ program' = [program EXCEPT ![p] = Idle]
    /\ UNCHANGED <<output, actions, objects, plan>>

-------------------------------------------------------------------------------
(* Collecting. *)

Present(files, l) == {x \in DOMAIN files[l] : files[l][x] # None}

Protected(files, l, x) == files[l][x] < MinIdle(l)

Expired(l, a) == l = "base" /\ TTL > 0 /\ actions[l][a] >= TTL

\* A slip: an output is given up with the first action that named it.
FreedByAny(l, kept) ==
    {o \in Present(objects, l) : /\ \/ \E a \in Present(actions, l) \ kept : output[a] = o
                                    \/ ~\E a \in Present(actions, l) : output[a] = o
                                 /\ ~Protected(objects, l, o)}

\* The objects that no kept action names, as far as they are not too young.
Freed(l, kept) ==
    {o \in Present(objects, l) : /\ ~\E a \in kept : output[a] = o
                                 /\ ~Protected(objects, l, o)}

Remaining(l, kept) == Cardinality(Present(objects, l) \ Freed(l, kept))

\* A slip: the objects that are freed as well are counted.
FitsActions(l, kept) == MaxObjects = 0 \/ Cardinality(kept) <= MaxObjects

Fits(l, kept) == MaxObjects = 0 \/ Remaining(l, kept) <= MaxObjects

\* A slip: a collection looks at the age a read may leave behind and forgets
\* that the read may be that much younger.
MayGoEarly(l, a) == actions[l][a] >= Touch[l]

MayGo(l, a) == ~Protected(actions, l, a)

\* What a collection may keep: what expired goes, and then the oldest, one by
\* one, until the objects fit or nothing may go.
Kept(l) ==
    LET young == {a \in Present(actions, l) : ~(Expired(l, a) /\ MayGo(l, a))}
    IN  {kept \in SUBSET young :
            /\ \A a \in young \ kept : /\ MayGo(l, a)
                                       /\ \A b \in kept : MayGo(l, b) => actions[l][b] <= actions[l][a]
            /\ kept # young => \E a \in young \ kept :
                  /\ \A b \in young \ kept : actions[l][b] >= actions[l][a]
                  /\ ~Fits(l, kept \cup {a})
            /\ Fits(l, kept) \/ \A a \in kept : ~MayGo(l, a)}

\* A collection has the lock of the layer, lists it and decides.
List(l) ==
    /\ ~plan[l].on /\ Cardinality({m \in Layers : plan[m].on}) < MaxCollections
    /\ \E kept \in Kept(l) :
          plan' = [plan EXCEPT ![l] =
             [on |-> TRUE, kept |-> kept, actions |-> Present(actions, l) \ kept,
              objects |-> Freed(l, kept)]]
    /\ program' = [p \in Programs |->
          IF program[p].op \in {"get", "put"} /\ l \in {program[p].from, program[p].in}
          THEN [program[p] EXCEPT !.raced = TRUE] ELSE program[p]]
    /\ UNCHANGED <<output, actions, objects>>

\* The actions are removed, then the objects.
RemoveAction(l) ==
    /\ \E a \in plan[l].actions :
          /\ actions' = [actions EXCEPT ![l][a] = None]
          /\ plan' = [plan EXCEPT ![l].actions = @ \ {a}]
    /\ UNCHANGED <<output, objects, program>>

RemoveObject(l) ==
    /\ plan[l].actions = {}
    /\ \E o \in plan[l].objects :
          /\ objects' = [objects EXCEPT ![l][o] = None]
          /\ plan' = [plan EXCEPT ![l].objects = @ \ {o}]
    /\ UNCHANGED <<output, actions, program>>

\* The collection is done, fails or dies; the lock is free.
Rest(l) ==
    /\ plan[l].on
    /\ plan' = [plan EXCEPT ![l] = Resting]
    /\ UNCHANGED <<output, actions, objects, program>>

Older(l, age) == IF age = None THEN None ELSE IF age < Old(l) THEN age + 1 ELSE age

\* A request and a collection take less time than this, and the go command opens
\* what it was given within the touch interval.
Tick ==
    /\ \A p \in Programs : program[p].op \notin {"get", "put"}
    /\ \A l \in Layers : ~plan[l].on
    /\ actions' = [l \in Layers |-> [a \in Actions |-> Older(l, actions[l][a])]]
    /\ objects' = [l \in Layers |-> [o \in Outputs |-> Older(l, objects[l][o])]]
    /\ program' = [p \in Programs |->
          IF program[p].op # "served" THEN program[p]
          ELSE IF program[p].since + 1 = Touch[program[p].in] THEN Idle
          ELSE [program[p] EXCEPT !.since = @ + 1]]
    /\ UNCHANGED <<output, plan>>

Init ==
    /\ output \in Compilations
    /\ actions = [l \in Layers |-> [a \in Actions |-> None]]
    /\ objects = [l \in Layers |-> [o \in Outputs |-> None]]
    /\ program = [p \in Programs |-> Idle]
    /\ plan = [l \in Layers |-> Resting]

Next ==
    \/ \E p \in Programs :
          \/ \E a \in Actions : Look(p, a) \/ \E l \in Layers : Put(p, a, l)
          \/ Serve(p) \/ LookFurther(p) \/ Miss(p) \/ PutAction(p) \/ Leave(p)
    \/ \E l \in Layers : List(l) \/ RemoveAction(l) \/ RemoveObject(l) \/ Rest(l)
    \/ Tick

Spec == Init /\ [][Next]_vars

-------------------------------------------------------------------------------
(* Properties. *)

Aged(files, names) == \A l \in Layers : files[l] \in [names -> 0..Old(l) \cup {None}]

\* Every field has its type; what a collection has still to remove it has not
\* decided to keep.
TypeOK ==
    /\ output \in Compilations
    /\ Aged(actions, Actions) /\ Aged(objects, Outputs)
    /\ \A p \in Programs :
          /\ program[p].op \in {"idle", "get", "put", "served"}
          /\ program[p].op # "idle" => program[p].action \in Actions /\ program[p].from \in Layers
          /\ program[p].op \in {"put", "served"} => program[p].in \in Layers
          /\ program[p].since \in Nat /\ program[p].raced \in BOOLEAN
    /\ \A l \in Layers :
          /\ plan[l].on \in BOOLEAN
          /\ plan[l].kept \subseteq Actions /\ plan[l].actions \subseteq Actions \ plan[l].kept
          /\ plan[l].objects \subseteq Outputs

Served(p) == program[p].op = "served"

IsThere(p) == Has(objects, program[p].in, output[program[p].action])

\* The go command opens a file after the response that named it: for one touch
\* interval no collection that lists the layer after the response removes it, if
\* the layer that has the object is the one that has the action (touch, MinIdle,
\* collectWithHooks).
ServedStays ==
    \A p \in Programs : Served(p) /\ program[p].from = program[p].in /\ ~program[p].raced => IsThere(p)

\* ADR 0005 says of every response that what it named is still there. It does not
\* hold (see the README): a listing made before the touch may remove it.
ServedIsThere == \A p \in Programs : Served(p) => IsThere(p)

\* A collection never takes the object of an action it listed and kept: whoever
\* finds that action is served (references, release).
KeptIsServed ==
    [][\A l \in Layers, a \in Actions :
          /\ plan[l].on /\ a \in plan[l].kept
          /\ Has(objects, l, output[a])
          => objects'[l][output[a]] # None]_vars

\* A collection that has just decided leaves no more objects than the bound, but
\* for those it may not touch yet: young ones, and those of young actions.
BoundIsSoft ==
    [][\A l \in Layers : ~plan[l].on /\ plan'[l].on =>
          \/ Cardinality(Present(objects, l) \ plan'[l].objects) <= MaxObjects
          \/ \A o \in Present(objects, l) \ plan'[l].objects :
                \/ objects[l][o] < MinIdle(l)
                \/ \E a \in Present(actions, l) : output[a] = o /\ actions[l][a] < MinIdle(l)]_vars

===============================================================================
