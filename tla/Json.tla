-------------------------------- MODULE Json --------------------------------
(***************************************************************************)
(* kapi::JSON (kjson.cpp): wrappers around the values of the jansson       *)
(* library, made on demand.  A document is a tree of jansson values, each  *)
(* owned by the container it is in; the wrapper at the root owns the       *)
(* outermost value, the others borrow theirs.  Archive, registry, requests *)
(* and answers are all read and written through such wrappers, so a value  *)
(* that is freed too early, or a wrapper that leads to the wrong value,    *)
(* ends up in a file.                                                      *)
(*                                                                         *)
(* One document at a time: wrappers are not shared between threads.  The   *)
(* move constructor is left out: the compiler elides every use of it.      *)
(***************************************************************************)
EXTENDS Naturals, FiniteSets, Functions

CONSTANTS
  Cells,      (* addresses of jansson values that are counted                  *)
  Null, True, (* values that are not: json_null(), json_true()                 *)
  Wraps,      (* addresses of JSON objects                                     *)
  Root,       (* the one the program declares itself                           *)
  Keys,       (* member names                                                  *)
  MaxLen,     (* elements of an array                                          *)
  None

Singletons == {Null, True}
Values     == Cells \cup Singletons
Counted    == {"object", "array", "string", "integer"}
Indices    == Keys \cup 1 .. MaxLen

(* What a JSON object holds; the root is in no container. *)
WrapType ==
  [json : Values, type : Counted \cup {"null", "true", "fault"}, borrowed : BOOLEAN,
   parent : Wraps \cup {None}, id : Indices \cup {None}]

ASSUME JsonAssumption ==
  /\ Root \in Wraps
  /\ MaxLen \in Nat
  /\ Null # True /\ Cells \cap {Null, True, None} = {}
  /\ None \notin Wraps \cup WrapType /\ Keys \cap (1 .. MaxLen) = {}

VARIABLES
  cell,       (* cell -> [kind, kids]; kids: key or index -> value             *)
  wrap,       (* wrapper -> None or what it holds                              *)
  fault,      (* a value was used after it was freed                           *)
  overwritten (* history: what JSON is not made for has been done with it      *)

jsonVars == <<cell, wrap, fault, overwritten>>

Free       == [kind |-> "free", kids |-> << >>]
FreeCells  == {c \in Cells : cell[c] = Free}
Kind(heap, v) ==
  CASE v = Null -> "null" [] v = True -> "true" [] OTHER -> heap[v].kind
Kids(heap, v) == IF v \in Singletons THEN << >> ELSE heap[v].kids

(* A set of counted values that nothing in them leads out of. *)
Closed(heap, S) ==
  \A c \in S : \A i \in DOMAIN heap[c].kids : heap[c].kids[i] \in S \cup Singletons

(* A counted value and all that is in it. *)
Below(heap, v) ==
  {c \in Cells : \A S \in SUBSET Cells :
                   {v} \ Singletons \subseteq S /\ Closed(heap, S) => c \in S}

(* json_decref() of a value with its one reference (external). *)
Decref(heap, v) ==
  LET gone == Below(heap, v) IN [c \in Cells |-> IF c \in gone THEN Free ELSE heap[c]]
Dangling(heap, v) == v \notin Singletons /\ heap[v] = Free

New(heap, c, kind) == [heap EXCEPT ![c] = [kind |-> kind, kids |-> << >>]]
-----------------------------------------------------------------------------
(* Wrappers *)

Children(w) == {x \in Wraps : wrap[x] # None /\ wrap[x].parent = w}
Child(w, i) == {x \in Children(w) : wrap[x].id = i}

(* All wrappers in S, in their childList_, in the childList_ of these.       *)
Under(S) ==
  {x \in Wraps : \A T \in SUBSET Wraps :
                   S \subseteq T /\ (\A w \in T : Children(w) \subseteq T) => x \in T}

Without(S) == [x \in Wraps |-> IF x \in S THEN None ELSE wrap[x]]

(* Mutant of Cleared: reset() leaves the childList_ as it is. *)
ClearedNot(w) == wrap

(* childList().clear() *)
Cleared(w) == Without(Under(Children(w)))

Wrapper(heap, j, borrowed, p, i) ==
  [json |-> j, type |-> Kind(heap, j), borrowed |-> borrowed, parent |-> p, id |-> i]

(* An element of a container is set; what was there is dropped. *)
Put(heap, v, i, j) ==
  [heap EXCEPT ![v].kids = [k \in DOMAIN @ \cup {i} |-> IF k = i THEN j ELSE @[k]]]

(* reset(j) and updateParent(): j has just been made in heap.  What the       *)
(* wrapper led to is given up, borrowed or not.                              *)
Store(w, heap, j) ==
  LET old == wrap[w].json
      p == wrap[w].parent
      h1 == Decref(heap, old)
      at == IF p = None THEN Null ELSE wrap[p].json
      there == IF p # None /\ wrap[w].id \in DOMAIN Kids(heap, at)
               THEN Kids(heap, at)[wrap[w].id] ELSE Null
  IN  /\ cell' = IF p = None THEN h1
                 ELSE Put(Decref(h1, there), at, wrap[w].id, j)
      /\ wrap' = [Cleared(w) EXCEPT
                    ![w] = Wrapper(heap, j, @.borrowed \/ p # None, p, @.id)]
      /\ fault' = (fault \/ Dangling(heap, old)
                         \/ (p # None /\ (Dangling(h1, at) \/ Dangling(h1, there))))
      /\ overwritten' = (overwritten \/ (p # None /\ old \notin Singletons))
-----------------------------------------------------------------------------
JsonInit ==
  /\ cell = [c \in Cells |-> Free]
  /\ wrap = [w \in Wraps |-> None]
  /\ fault = FALSE /\ overwritten = FALSE

(* The program goes on as long as all is well. *)
Usable(w) == wrap[w] # None /\ ~fault /\ ~overwritten

(* JSON(JSONType), or JSON(const char* ) of a text that holds an empty        *)
(* container; a text that cannot be parsed leaves a fault.                   *)
Open(kind) ==
  /\ wrap[Root] = None
  /\ \/ \E c \in FreeCells :
          /\ cell' = New(cell, c, kind)
          /\ wrap' = [wrap EXCEPT ![Root] = Wrapper(cell', c, FALSE, None, None)]
     \/ /\ wrap' = [wrap EXCEPT ![Root] =
                      [Wrapper(cell, Null, FALSE, None, None) EXCEPT !.type = "fault"]]
        /\ UNCHANGED cell
  /\ UNCHANGED <<fault, overwritten>>

(* ~JSON() of the program's object, and of all below it. *)
Close ==
  /\ Usable(Root)
  /\ cell' = Decref(cell, wrap[Root].json)
  /\ wrap' = [w \in Wraps |-> None]
  /\ fault' = Dangling(cell, wrap[Root].json)
  /\ UNCHANGED overwritten

(* The array v grows to i elements. *)
Padded(heap, v, i) ==
  [heap EXCEPT ![v].kids = [k \in 1 .. i |-> IF k \in DOMAIN @ THEN @[k] ELSE Null]]

(* wrapper(): the element, padded with null when it is not there. *)
MakeWrapper(w, heap, wraps, v, i) ==
  /\ \E x \in Wraps :
       /\ x # Root /\ wraps[x] = None
       /\ IF i \in DOMAIN Kids(heap, v)
          THEN /\ cell' = heap
               /\ wrap' = [wraps EXCEPT ![x] =
                             Wrapper(heap, Kids(heap, v)[i], TRUE, w, i)]
          ELSE /\ cell' = IF i \in Keys THEN Put(heap, v, i, Null) ELSE Padded(heap, v, i)
               /\ wrap' = [wraps EXCEPT ![x] = Wrapper(heap, Null, TRUE, w, i)]
  /\ UNCHANGED <<fault, overwritten>>

(* operator[] finds no wrapper and makes one; of another type it does        *)
(* nothing, or hands out a fault.                                            *)
Index(w, i) ==
  /\ Usable(w) /\ Child(w, i) = {}
  /\ wrap[w].type = IF i \in Keys THEN "object" ELSE "array"
  /\ MakeWrapper(w, cell, wrap, wrap[w].json, i)

(* operator[] with a key makes an object of a null; json_null() takes no     *)
(* reference away.                                                           *)
IndexNull(w, i) ==
  /\ Usable(w) /\ wrap[w].type = "null" /\ i \in Keys
  /\ \E c \in FreeCells :
       LET p == wrap[w].parent
           h == IF p = None THEN New(cell, c, "object")
                ELSE Put(New(cell, c, "object"), wrap[p].json, wrap[w].id, c) IN
       MakeWrapper(w, h, [wrap EXCEPT ![w] =
         Wrapper(h, c, @.borrowed \/ p # None, p, @.id)], c, i)

(* operator=() of a text or a number: in place when the type stays. *)
Assign(w, kind) ==
  /\ Usable(w) /\ wrap[w].type \notin {"fault", kind}
  /\ \E c \in FreeCells : Store(w, New(cell, c, kind), c)

AssignBool(w) ==
  /\ Usable(w) /\ wrap[w].type # "fault"
  /\ Store(w, cell, True)

(* operator=(JSON&&) of a new container; no fault stops it. *)
AssignNew(w, kind) ==
  /\ Usable(w)
  /\ \E c \in FreeCells : Store(w, New(cell, c, kind), c)

(* The copy of a value, and the heap with a copy at f[d] of each d. *)
CopyOf(f, j) == IF j \in Singletons THEN j ELSE f[j]
Copied(heap, f) ==
  [c \in Cells |->
     IF c \in Range(f)
     THEN LET d == CHOOSE x \in DOMAIN f : f[x] = c IN
          [kind |-> heap[d].kind,
           kids |-> [i \in DOMAIN heap[d].kids |-> CopyOf(f, heap[d].kids[i])]]
     ELSE heap[c]]

(* operator=(const JSON&): a deep copy of what v wraps. *)
AssignCopy(w, v) ==
  /\ Usable(w) /\ Usable(v)
  /\ \E f \in [Below(cell, wrap[v].json) -> FreeCells] :
       /\ IsInjective(f)
       /\ Store(w, Copied(cell, f), CopyOf(f, wrap[v].json))

(* Mutant of Removed: the value is dropped and left in the container. *)
RemovedNot(kids, i) == kids

(* The container without the element: those behind it in an array move up. *)
Removed(kids, i) ==
  IF i \in Keys THEN [k \in DOMAIN kids \ {i} |-> kids[k]]
  ELSE [k \in 1 .. Cardinality(DOMAIN kids) - 1 |->
          IF k < i THEN kids[k] ELSE kids[k + 1]]

(* erase(): the wrapper goes with its element; in an array the wrappers of   *)
(* the elements behind keep their index.                                     *)
Erase(w, i) ==
  /\ Usable(w)
  /\ i \in DOMAIN Kids(cell, wrap[w].json)
  /\ cell' = [Decref(cell, Kids(cell, wrap[w].json)[i])
                EXCEPT ![wrap[w].json].kids = Removed(@, i)]
  /\ wrap' = Without(Under(Child(w, i)))
  /\ overwritten' =
       (overwritten \/ (i \notin Keys /\ \E x \in Children(w) : wrap[x].id > i))
  /\ UNCHANGED fault

JsonNext ==
  \/ \E kind \in {"object", "array"} :
       Open(kind) \/ \E w \in Wraps : AssignNew(w, kind)
  \/ Close
  \/ \E w \in Wraps :
       \/ \E i \in Indices : Index(w, i) \/ IndexNull(w, i) \/ Erase(w, i)
       \/ \E kind \in {"string", "integer"} : Assign(w, kind)
       \/ AssignBool(w)
       \/ \E v \in Wraps : AssignCopy(w, v)

JsonSpec == JsonInit /\ [][JsonNext]_jsonVars
-----------------------------------------------------------------------------
(* The containers and wrappers a value is held by for good. *)
Holders(c) ==
  {x \in Cells \X Indices :
     /\ cell[x[1]] # Free
     /\ x[2] \in DOMAIN cell[x[1]].kids
     /\ cell[x[1]].kids[x[2]] = c}
  \cup {w \in Wraps : wrap[w] # None /\ ~wrap[w].borrowed /\ wrap[w].json = c}

(***************************************************************************)
(* reset() gives up a reference whether the wrapper owns it or borrows it, *)
(* and updateParent() then replaces it in the container: that goes well,   *)
(* and every value has exactly one holder, and none once it is freed, as   *)
(* long as only elements that are null, true or of the assigned type are   *)
(* assigned to and an array is erased from its end; when it does not go    *)
(* well, that is why.                                                      *)
(***************************************************************************)
RefsExact ==
  /\ fault => overwritten
  /\ ~overwritten => \A c \in Cells :
       Cardinality(Holders(c)) = IF cell[c] = Free THEN 0 ELSE 1

(***************************************************************************)
(* Under the same conditions every wrapper leads to the element its key or *)
(* index names, knows its type, and is the only one that does: what is     *)
(* assigned through it is what toFile() writes.                            *)
(***************************************************************************)
WrappersTrue ==
  ~overwritten => \A w \in Wraps : wrap[w] # None /\ w # Root =>
    /\ wrap[wrap[w].parent] # None
    /\ LET kids == Kids(cell, wrap[wrap[w].parent].json) IN
       wrap[w].id \in DOMAIN kids /\ kids[wrap[w].id] = wrap[w].json
    /\ wrap[w].type = Kind(cell, wrap[w].json)
    /\ Child(wrap[w].parent, wrap[w].id) = {w}
=============================================================================
