----------------------------- MODULE LinkedList ------------------------------
(***************************************************************************)
(* The circular doubly linked list of lab1/list.c, in which the shell      *)
(* keeps its search path.  A caller holds lists, each a pointer to the     *)
(* first node or NULL, and calls the functions one after another.          *)
(***************************************************************************)
EXTENDS Naturals, FiniteSets

CONSTANTS
  Node,    \* addresses malloc returns
  NULL,
  List,    \* the variables of type list_t* the caller has
  Datum    \* what data points to

ASSUME NullAssumption == NULL \notin Node /\ NULL \notin List
ASSUME FiniteAssumption == IsFiniteSet(Node)
ASSUME DatumAssumption == Datum # {}

VARIABLES
  first,      \* first[l]: the node l points to, or NULL
  allocated,  \* nodes that new_list made and delete_list has not freed
  succ,       \* succ[n], pred[n], data[n]: the fields of a node
  pred,
  data,
  freeing     \* the list that free_list is freeing, or NULL

vars == <<first, allocated, succ, pred, data, freeing>>

TypeOK ==
  /\ first \in [List -> Node \cup {NULL}]
  /\ allocated \in SUBSET Node
  /\ succ \in [Node -> Node]
  /\ pred \in [Node -> Node]
  /\ data \in [Node -> Datum]
  /\ freeing \in List \cup {NULL}

Init ==
  /\ first = [l \in List |-> NULL]
  /\ allocated = {}
  /\ succ = [n \in Node |-> n]
  /\ pred = [n \in Node |-> n]
  /\ data \in [Node -> {CHOOSE d \in Datum : TRUE}]
  /\ freeing = NULL

-------------------------------------------------------------------------------
(* append joins the ring of node a and the ring of node b, whose pointers are *)
(* s and p: the last node of each gets the first of the other as successor.   *)

JoinedSucc(s, p, a, b) == [s EXCEPT ![p[a]] = b, ![p[b]] = a]
JoinedPred_OneWay(s, p, a, b) == [p EXCEPT ![a] = p[b]]
JoinedPred(s, p, a, b) == [p EXCEPT ![a] = p[b], ![b] = p[a]]

(* a new node n forms a ring of its own and is then joined to that of a *)
Alone(pointer, n) == [pointer EXCEPT ![n] = n]

NewNode(n, d) ==
  /\ freeing = NULL
  /\ n \in Node \ allocated
  /\ allocated' = allocated \cup {n}
  /\ data' = [data EXCEPT ![n] = d]
  /\ UNCHANGED freeing

JoinNew(n, a) ==
  /\ succ' = JoinedSucc(Alone(succ, n), Alone(pred, n), a, n)
  /\ pred' = JoinedPred(Alone(succ, n), Alone(pred, n), a, n)

(* the first item of an empty list, in all three functions *)
InsertFirst(l, n, d) ==
  /\ NewNode(n, d)
  /\ first[l] = NULL
  /\ first' = [first EXCEPT ![l] = n]
  /\ succ' = Alone(succ, n)
  /\ pred' = Alone(pred, n)

(* insert_last; and insert_before too, which leaves *list as it is: before
   the first node of a ring is after its last *)
InsertLast(l, n, d) ==
  /\ NewNode(n, d)
  /\ first[l] # NULL
  /\ JoinNew(n, first[l])
  /\ UNCHANGED first

InsertAfter(l, n, d) ==
  /\ NewNode(n, d)
  /\ first[l] # NULL
  /\ JoinNew(n, succ[first[l]])
  /\ UNCHANGED first

(* the caller has one list afterwards: m's pointer would point into l's ring *)
AppendList(l, m) ==
  /\ freeing = NULL
  /\ l # m /\ first[m] # NULL
  /\ first' = [first EXCEPT ![l] = IF @ = NULL THEN first[m] ELSE @, ![m] = NULL]
  /\ IF first[l] = NULL THEN UNCHANGED <<succ, pred>>
     ELSE /\ succ' = JoinedSucc(succ, pred, first[l], first[m])
          /\ pred' = JoinedPred(succ, pred, first[l], first[m])
  /\ UNCHANGED <<allocated, data, freeing>>

(* delete_list *)
Unlink_OneWay(n) ==
  /\ UNCHANGED <<succ, data>>
  /\ pred' = [pred EXCEPT ![succ[n]] = pred[n]]
  /\ allocated' = allocated \ {n}
Unlink(n) ==
  /\ succ' = [succ EXCEPT ![pred[n]] = succ[n]]
  /\ pred' = [pred EXCEPT ![succ[n]] = pred[n]]
  /\ allocated' = allocated \ {n}
  /\ UNCHANGED data

(* a node the caller reached from l, not the one l points to *)
DeleteNode(l, n) ==
  /\ freeing = NULL
  /\ Unlink(n)
  /\ UNCHANGED <<first, freeing>>

FirstAfter_None(l) == NULL
FirstAfter_Last(l) == IF succ[first[l]] = first[l] THEN NULL ELSE pred[first[l]]
FirstAfter(l) == IF succ[first[l]] = first[l] THEN NULL ELSE succ[first[l]]

RemoveFirst(l) ==
  /\ freeing = NULL
  /\ first[l] # NULL
  /\ first' = [first EXCEPT ![l] = FirstAfter(l)]
  /\ Unlink(first[l])
  /\ UNCHANGED freeing

(* free_list deletes the node behind the first until the first is alone *)
FreeList(l) ==
  /\ freeing = NULL
  /\ first[l] # NULL
  /\ freeing' = l
  /\ UNCHANGED <<first, allocated, succ, pred, data>>

FreeNext(l) ==
  /\ freeing = l
  /\ first[l] # succ[first[l]]
  /\ Unlink(succ[first[l]])
  /\ UNCHANGED <<first, freeing>>

FreeLast(l) ==
  /\ freeing = l
  /\ first[l] = succ[first[l]]
  /\ Unlink(first[l])
  /\ first' = [first EXCEPT ![l] = NULL]
  /\ freeing' = NULL

-------------------------------------------------------------------------------
(* what the caller can reach from l *)
Closed(S) == \A n \in S : succ[n] \in S

Ring(l) ==
  {n \in allocated :
     /\ first[l] # NULL
     /\ \A S \in SUBSET allocated : first[l] \in S /\ Closed(S) => n \in S}

Insert(l) ==
  \E n \in Node, d \in Datum :
    InsertFirst(l, n, d) \/ InsertLast(l, n, d) \/ InsertAfter(l, n, d)

Free(l) == FreeList(l) \/ FreeNext(l) \/ FreeLast(l)

Next ==
  \E l \in List :
    \/ Insert(l)
    \/ \E m \in List : AppendList(l, m)
    \/ \E n \in Ring(l) \ {first[l]} : DeleteNode(l, n)
    \/ RemoveFirst(l)
    \/ Free(l)

Spec == Init /\ [][Next]_vars /\ \A l \in List : WF_vars(Free(l))
-------------------------------------------------------------------------------
(* Properties. *)

(* Going forward and back leads to the same node, from every node in use and
   without leaving those: the two pointers that each function sets in two
   nodes (list.c:39-43,48-49) agree. *)
Linked ==
  \A n \in allocated :
    /\ succ[n] \in allocated /\ pred[succ[n]] = n
    /\ pred[n] \in allocated /\ succ[pred[n]] = n

(* Every node in use is on the ring of exactly one list: none is lost, and
   freeing one list leaves the others alone (list.c:114-122). *)
RingsApart ==
  /\ \A l, m \in List : l # m => Ring(l) \cap Ring(m) = {}
  /\ UNION {Ring(l) : l \in List} = allocated

(* length walks from the first node until it is there again *)
Walk(l) ==
  LET at[i \in 0 .. Cardinality(Node)] == IF i = 0 THEN first[l] ELSE succ[at[i - 1]]
  IN  at

length(l) ==
  IF first[l] = NULL THEN 0
  ELSE CHOOSE n \in 1 .. Cardinality(Node) :
         Walk(l)[n] = first[l] /\ \A m \in 1 .. n - 1 : Walk(l)[m] # first[l]

Seqs ==
  INSTANCE Items WITH
    items <- [l \in List |-> [i \in 1 .. length(l) |-> data[Walk(l)[i - 1]]]]

(* The rings behave as sequences (list.c:16-122). *)
ListsAreSequences == Seqs!Spec

(* free_list ends (list.c:116). *)
FreeEnds == \A l \in List : freeing = l ~> freeing = NULL
===============================================================================
