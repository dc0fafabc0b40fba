---------------------------- MODULE DataService ----------------------------
(***************************************************************************)
(* The APS data service: a blocking request/response exchange over an      *)
(* asynchronous radio link (aps_data_service_impl.hpp; its extended twin,  *)
(* aps_data_service_ext_impl.hpp, repeats it line for line).               *)
(*                                                                         *)
(* A caller links an entry <<predicate, callback, SyncInfo>> at the front  *)
(* of the list buffer__, arms the entry's SyncInfo, sends the request,     *)
(* waits for at most one second and unlinks the entry.  A receiver thread  *)
(* hands an incoming message to the callback of the first entry whose      *)
(* predicate accepts it and wakes the entry's caller.                      *)
(*                                                                         *)
(* A call is the number of the request it makes; it names the entry's      *)
(* content (predicate, callback, SyncInfo) wherever the content is moved.  *)
(* A node is a heap address: a freed node may be handed out again.         *)
(***************************************************************************)
EXTENDS Naturals, Sequences, FiniteSets

CONSTANTS
  Callers,    (* threads that run request(): assemblers, local and remote UI  *)
  Rcvrs,      (* threads that run indicate(): the message assemblers          *)
  Nodes,      (* heap addresses of list nodes                                 *)
  SeqMod,     (* values of the 8-bit ZDP counter (256)                        *)
  MaxCalls,   (* bound: requests made in a run                                *)
  MaxCopies   (* bound: copies of one response on the link                    *)

Calls   == 1 .. MaxCalls
None    == 0          (* content of a destroyed node *)
Free    == "free"     (* an unlocked mutex           *)

ASSUME ConstAssumption ==
  /\ IsFiniteSet(Callers)
  /\ Free \notin Callers \cup Rcvrs
  /\ SeqMod \in Nat \ {0}
  /\ MaxCalls \in Nat
  /\ MaxCopies \in Nat

VARIABLES
  up,         (* the process runs                                             *)
  made,       (* number of requests made: apsdb's cntr() before the wrap      *)
  buffer,     (* buffer__: the nodes of the list, front first                 *)
  content,    (* node -> the call whose entry it holds, or None               *)
  bufferLock, (* buffer__Mutex: Free or the receiver that holds it            *)
  sync, rdy,  (* SyncInfo's flags, per call                                   *)
  m,          (* SyncInfo's mutex: Free or the caller that holds it           *)
  cpc,        (* where each caller is in request()                            *)
  call,       (* the call each caller makes                                   *)
  handle,     (* TxHandle's it_: the node each caller registered              *)
  obj,        (* the SyncInfo each caller waits on                            *)
  rpc,        (* where each receiver is in indicate()                         *)
  hit,        (* the entry each receiver serves                               *)
  air,        (* response copies on the link, per call                        *)
  overtaken   (* history: a remove() popped a node another caller's it_ names *)

callVars == <<sync, rdy, m>>
vars == <<up, made, buffer, content, bufferLock, sync, rdy, m, cpc, call,
          handle, obj, rpc, hit, air, overtaken>>

CallerStates == {"idle", "registered", "armed", "sent", "checking", "asleep",
                 "returning"}
RcvrStates   == {"idle", "callback", "flagging", "notifying"}

(* The nodes of buffer__; every other node is free for the allocator. *)
Linked == {buffer[i] : i \in DOMAIN buffer}

Inside(c) == cpc[c] # "idle"
Busy(r)   == rpc[r] # "idle"

(***************************************************************************)
(* zdpPred: the response to call j is accepted by the entry of call k when *)
(* the sequence numbers, and the clusters, agree.  All calls are taken to  *)
(* use one cluster; the source address is not compared.                    *)
(***************************************************************************)
Accepts(k, j) == k % SeqMod = j % SeqMod

(* indicate() stops at the first entry that accepts the response to j. *)
FirstMatch(i, j) ==
  /\ Accepts(content[buffer[i]], j)
  /\ \A x \in 1 .. i - 1 : ~Accepts(content[buffer[x]], j)

Init ==
  /\ up = TRUE
  /\ made = 0
  /\ buffer = << >>
  /\ content = [n \in Nodes |-> None]
  /\ bufferLock = Free
  /\ sync = [k \in Calls |-> FALSE]
  /\ rdy = [k \in Calls |-> FALSE]
  /\ m = [k \in Calls |-> Free]
  /\ cpc = [c \in Callers |-> "idle"]
  /\ call = [c \in Callers |-> None]
  /\ handle = [c \in Callers |-> None]
  /\ obj = [c \in Callers |-> None]
  /\ rpc = [r \in Rcvrs |-> "idle"]
  /\ hit = [r \in Rcvrs |-> None]
  /\ air = [k \in Calls |-> 0]
  /\ overtaken = FALSE
-----------------------------------------------------------------------------
(* request(), run by a caller *)

GoCaller(c, from, to) ==
  /\ up
  /\ cpc[c] = from
  /\ cpc' = [cpc EXCEPT ![c] = to]

(* Mutant of NewEntry: the iterator is buffer__.begin() from before the entry. *)
NewEntryStaleIterator(c, n) ==
  /\ buffer' = <<n>> \o buffer
  /\ content' = [content EXCEPT ![n] = made + 1]
  /\ handle' = [handle EXCEPT ![c] = IF buffer = << >> THEN n ELSE Head(buffer)]

(* emplace_after(before_begin()): the entry of c's call, in node n, in front. *)
NewEntry(c, n) ==
  /\ buffer' = <<n>> \o buffer
  /\ content' = [content EXCEPT ![n] = made + 1]
  /\ handle' = [handle EXCEPT ![c] = n]

(* TxHandle's constructor: link a new entry in front, under buffer__Mutex. *)
Register(c) ==
  /\ GoCaller(c, "idle", "registered")
  /\ made < MaxCalls
  /\ bufferLock = Free
  /\ \E n \in Nodes \ Linked : NewEntry(c, n)
  /\ made' = made + 1
  /\ call' = [call EXCEPT ![c] = made + 1]
  /\ UNCHANGED <<up, bufferLock, callVars, obj, rpc, hit, air, overtaken>>

(* SyncInfo::arm() on whatever the handle's node holds, without a lock.  A *)
(* write through a freed entry changes no live SyncInfo.                   *)
Arm(c) ==
  LET k == content[handle[c]] IN
  /\ GoCaller(c, "registered", "armed")
  /\ IF k = None
     THEN UNCHANGED <<sync, rdy>>
     ELSE /\ sync' = [sync EXCEPT ![k] = TRUE]
          /\ rdy' = [rdy EXCEPT ![k] = FALSE]
  /\ UNCHANGED <<up, made, buffer, content, bufferLock, m, call, handle, obj,
                 rpc, hit, air, overtaken>>

(* sendAPSMessageStruct(): the response is lost, answered once, or repeated. *)
Send(c) ==
  /\ GoCaller(c, "armed", "sent")
  /\ \E n \in 0 .. MaxCopies : air' = [air EXCEPT ![call[c]] = n]
  /\ UNCHANGED <<up, made, buffer, content, bufferLock, callVars, call, handle,
                 obj, rpc, hit, overtaken>>

(* wait_for(): returns at once when sync is off, else locks m and tests    *)
(* rdy.  What a freed entry says of sync is arbitrary; waiting on it can   *)
(* only end by the timeout.                                                *)
WaitFor(c) ==
  LET k == content[handle[c]] IN
  /\ cpc[c] = "sent"
  /\ \/ /\ k # None => ~sync[k] \/ (m[k] = Free /\ rdy[k])
        /\ GoCaller(c, "sent", "returning")
        /\ UNCHANGED <<m, obj>>
     \/ /\ k # None
        /\ sync[k] /\ m[k] = Free /\ ~rdy[k]
        /\ GoCaller(c, "sent", "checking")
        /\ m' = [m EXCEPT ![k] = c]
        /\ obj' = [obj EXCEPT ![c] = k]
  /\ UNCHANGED <<up, made, buffer, content, bufferLock, sync, rdy, call, handle,
                 rpc, hit, air, overtaken>>

(* cv.wait_for() releases m and blocks in one step. *)
Sleep(c) ==
  /\ GoCaller(c, "checking", "asleep")
  /\ m' = [m EXCEPT ![obj[c]] = Free]
  /\ UNCHANGED <<up, made, buffer, content, bufferLock, sync, rdy, call, handle,
                 obj, rpc, hit, air, overtaken>>

(* The second is over: the caller takes m back and leaves wait_for(). *)
Timeout(c) ==
  /\ GoCaller(c, "asleep", "returning")
  /\ m[obj[c]] = Free
  /\ UNCHANGED <<up, made, buffer, content, bufferLock, callVars, call, handle,
                 obj, rpc, hit, air, overtaken>>

(* Swap the contents of the handle's node h and of the front node f, and   *)
(* pop the front node with what it now holds.                              *)
Unlink(h, f) ==
  /\ content' = [content EXCEPT ![h] = content[f], ![f] = None]
  /\ buffer' = Tail(buffer)
  /\ overtaken' = (overtaken \/ h # f)

(* request() returns, and its TxHandle is gone. *)
Return(c) ==
  /\ GoCaller(c, "returning", "idle")
  /\ call' = [call EXCEPT ![c] = None]
  /\ handle' = [handle EXCEPT ![c] = None]
  /\ obj' = [obj EXCEPT ![c] = None]
  /\ UNCHANGED <<up, made, bufferLock, callVars, rpc, hit, air>>

(* Mutant of Remove: buffer__Mutex is not taken. *)
RemoveUnlocked(c) ==
  /\ Return(c)
  /\ Unlink(handle[c], Head(buffer))

(* TxHandle::remove(), under buffer__Mutex. *)
Remove(c) ==
  /\ Return(c)
  /\ bufferLock = Free
  /\ Unlink(handle[c], Head(buffer))
-----------------------------------------------------------------------------
(* indicate(), run by a receiver *)

GoRcvr(r, from, to) ==
  /\ up
  /\ rpc[r] = from
  /\ rpc' = [rpc EXCEPT ![r] = to]

(* Take buffer__Mutex with a message in hand, find the first entry that    *)
(* accepts it and enter its callback; with no such entry the message goes  *)
(* to the endpoint's own handler and the mutex is free again.              *)
Indicate(r) ==
  /\ bufferLock = Free
  /\ \E j \in Calls :
       /\ air[j] > 0
       /\ air' = [air EXCEPT ![j] = @ - 1]
       /\ \/ /\ \A i \in DOMAIN buffer : ~FirstMatch(i, j)
             /\ GoRcvr(r, "idle", "idle")
             /\ UNCHANGED <<bufferLock, hit>>
          \/ \E i \in DOMAIN buffer :
               /\ FirstMatch(i, j)
               /\ GoRcvr(r, "idle", "callback")
               /\ bufferLock' = r
               /\ hit' = [hit EXCEPT ![r] = content[buffer[i]]]
  /\ UNCHANGED <<up, made, buffer, content, callVars, cpc, call, handle, obj,
                 overtaken>>

(* Mutant of Leave: indicate() returns with buffer__Mutex locked. *)
LeaveLocked(r) ==
  /\ hit' = [hit EXCEPT ![r] = None]
  /\ UNCHANGED bufferLock

(* A receiver that has served an entry frees buffer__Mutex. *)
Leave(r) ==
  /\ bufferLock' = Free
  /\ hit' = [hit EXCEPT ![r] = None]

(* The callback has returned; disarm() clears sync, or finds it clear. *)
Disarm(r) ==
  LET k == hit[r] IN
  /\ rpc[r] = "callback"
  /\ \/ /\ sync[k]
        /\ GoRcvr(r, "callback", "flagging")
        /\ sync' = [sync EXCEPT ![k] = FALSE]
        /\ UNCHANGED <<bufferLock, hit>>
     \/ /\ ~sync[k]
        /\ GoRcvr(r, "callback", "idle")
        /\ Leave(r)
        /\ UNCHANGED sync
  /\ UNCHANGED <<up, made, buffer, content, rdy, m, cpc, call, handle, obj, air,
                 overtaken>>

(* disarm() sets rdy before it locks m. *)
SetReady(r) ==
  /\ GoRcvr(r, "flagging", "notifying")
  /\ rdy' = [rdy EXCEPT ![hit[r]] = TRUE]
  /\ UNCHANGED <<up, made, buffer, content, bufferLock, sync, m, cpc, call,
                 handle, obj, hit, air, overtaken>>

(* notify_one() for the SyncInfo of k, as the receiver leaves. *)
Wake(r, k) ==
  LET sleepers == {c \in Callers : cpc[c] = "asleep" /\ obj[c] = k} IN
  /\ GoRcvr(r, "notifying", "idle")
  /\ Leave(r)
  /\ \/ /\ sleepers = {}
        /\ UNCHANGED cpc
     \/ \E c \in sleepers : cpc' = [cpc EXCEPT ![c] = "returning"]
  /\ UNCHANGED <<up, made, buffer, content, callVars, call, handle, obj, air,
                 overtaken>>

(* Mutant of Notify: the notification does not lock m. *)
NotifyUnlocked(r) == Wake(r, hit[r])

(* disarm() locks m and wakes one sleeper; then buffer__Mutex is freed. *)
Notify(r) ==
  /\ rpc[r] = "notifying"
  /\ m[hit[r]] = Free
  /\ Wake(r, hit[r])
-----------------------------------------------------------------------------
(* A caller is about to use memory that was freed: the node its handle     *)
(* names, or the SyncInfo it waits on.                                     *)
Dangling(c) ==
  /\ Inside(c)
  /\ \/ handle[c] \notin Linked
     \/ cpc[c] \in {"checking", "asleep"} /\ \A n \in Nodes : content[n] # obj[c]

(* One outcome of using freed memory is the end of the process: kappaio's  *)
(* SIGSEGV handler exits, as does the allocator when it finds a double     *)
(* free.  The other outcomes are in the caller's own actions.              *)
Crash ==
  /\ up
  /\ \E c \in Callers : Dangling(c)
  /\ up' = FALSE
  /\ UNCHANGED <<made, buffer, content, bufferLock, callVars, cpc, call, handle,
                 obj, rpc, hit, air, overtaken>>

CallerStep(c) ==
  \/ Register(c) \/ Arm(c) \/ Send(c) \/ WaitFor(c) \/ Sleep(c) \/ Timeout(c)
  \/ Remove(c)

RcvrStep(r) == Indicate(r) \/ Disarm(r) \/ SetReady(r) \/ Notify(r)

Next ==
  \/ \E c \in Callers : CallerStep(c)
  \/ \E r \in Rcvrs : RcvrStep(r)
  \/ Crash

Spec == Init /\ [][Next]_vars

(***************************************************************************)
(* The scheduler runs every thread that can run, and the wait is bounded   *)
(* by its timeout.  No fairness for Register: a thread need not make       *)
(* requests, and none for Indicate: the link owes no response.             *)
(***************************************************************************)
Fairness ==
  /\ \A c \in Callers :
       WF_vars(Arm(c) \/ Send(c) \/ WaitFor(c) \/ Sleep(c) \/ Timeout(c) \/ Remove(c))
  /\ \A r \in Rcvrs : WF_vars(Disarm(r) \/ SetReady(r) \/ Notify(r))

FairSpec == Spec /\ Fairness

-----------------------------------------------------------------------------
(* Every variable of request() and indicate() keeps its type, and a linked *)
(* node always holds a live entry: remove() destroys only what it pops.    *)
TypeOK ==
  /\ up \in BOOLEAN
  /\ made \in 0 .. MaxCalls
  /\ buffer \in Seq(Nodes)
  /\ content \in [Nodes -> Calls \cup {None}]
  /\ \A n \in Linked : content[n] \in Calls
  /\ bufferLock \in Rcvrs \cup {Free}
  /\ sync \in [Calls -> BOOLEAN]
  /\ rdy \in [Calls -> BOOLEAN]
  /\ m \in [Calls -> Callers \cup {Free}]
  /\ cpc \in [Callers -> CallerStates]
  /\ call \in [Callers -> Calls \cup {None}]
  /\ handle \in [Callers -> Nodes \cup {None}]
  /\ obj \in [Callers -> Calls \cup {None}]
  /\ rpc \in [Rcvrs -> RcvrStates]
  /\ hit \in [Rcvrs -> Calls \cup {None}]
  /\ air \in [Calls -> Nat]
  /\ overtaken \in BOOLEAN

(* buffer__ has as many entries as there are callers inside request(), so  *)
(* the pop_front() of remove() never meets an empty list, however removals *)
(* overtake each other and whatever freed memory they swap.                *)
CountExact ==
  /\ Len(buffer) = Cardinality({c \in Callers : Inside(c)})
  /\ \A i, j \in DOMAIN buffer : buffer[i] = buffer[j] => i = j

(* As long as no remove() has popped a node that another caller's it_      *)
(* names, every caller inside request() finds its own entry at its it_,    *)
(* linked in buffer__: arm() and wait_for() act on its own SyncInfo.       *)
RegistryExact ==
  ~overtaken =>
    \A c \in Callers : Inside(c) =>
      /\ handle[c] \in Linked
      /\ content[handle[c]] = call[c]

(* As long as no removal overtook another, a callback, which refers to its *)
(* caller's stack, runs (and its SyncInfo is disarmed) only while that     *)
(* caller is still inside request(): remove() waits for buffer__Mutex.     *)
CallbackInsideRequest ==
  ~overtaken =>
    \A r \in Rcvrs : Busy(r) =>
      \E c \in Callers : Inside(c) /\ call[c] = hit[r]

(* disarm() sets rdy before it locks m, and a caller tests rdy with m      *)
(* locked until it sleeps: a caller asleep on a SyncInfo that is ready has *)
(* the notification still to come.                                         *)
NoLostWakeup ==
  ~overtaken =>
    \A c \in Callers :
      cpc[c] = "asleep" /\ rdy[obj[c]] =>
        \E r \in Rcvrs : rpc[r] = "notifying" /\ hit[r] = obj[c]

(* Every request() returns, unless the process ends: the wait is bounded,  *)
(* and indicate() gives buffer__Mutex back on every path.                  *)
EveryRequestReturns ==
  \A c \in Callers : (Inside(c) /\ up) ~> (~Inside(c) \/ ~up)
-----------------------------------------------------------------------------
(* As long as no removal overtakes another the data service implements     *)
(* PendingCalls: request() is open while its caller is inside, and a       *)
(* callback is running while its receiver is.                              *)
Promise ==
  INSTANCE PendingCalls WITH
    open    <- {call[c] : c \in {d \in Callers : Inside(d)}},
    used    <- 1 .. made,
    running <- {hit[r] : r \in {q \in Rcvrs : Busy(q)}}

PromiseSpec ==
  Promise!Init /\ [][Promise!Next \/ overtaken']_(Promise!vars)
=============================================================================
