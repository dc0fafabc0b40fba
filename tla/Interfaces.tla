----------------------------- MODULE Interfaces -----------------------------
(***************************************************************************)
(* The two threads that serve requests: the local interface on its UNIX    *)
(* socket (localintf.cpp) and the remote link with its message indications *)
(* and its TLS connections (remoteif.cpp, connections.cpp).                *)
(* Both call handleRESTful() (restful.cpp), which keeps one Context for    *)
(* each URI and shares it without a lock, and the handlers of the widget   *)
(* registry (widget_manager.hpp), of the sign-in and of the devices, which *)
(* share files without a lock.                                             *)
(***************************************************************************)
EXTENDS Lists

CONSTANTS
  Mixes,                 (* sets of requests; a behaviour keeps to one      *)
  MaxFds                 (* descriptors the process may still open          *)

Threads == {"local", "remote"}
URIs    == {"show", "registry", "sign_in"}

ASSUME InterfacesAssumption ==
  /\ MaxFds \in Nat \ {0}
  /\ \A m \in Mixes : \A r \in m : r.uri \in URIs

Idle(t)  == IF t = "local" THEN "select" ELSE "listen"
Other(t) == IF t = "local" THEN "remote" ELSE "local"

(* A request has a URI, a method, and a parameter from keys to values. *)
Empty == [k \in {} |-> 0]
Get(u)       == [uri |-> u, method |-> "GET", par |-> Empty]
Post(u, p)   == [uri |-> u, method |-> "POST", par |-> p]
Delete(u, p) == [uri |-> u, method |-> "DELETE", par |-> p]

VARIABLES
  mix,        (* the requests that clients make                             *)
  pc,         (* where each thread is                                       *)
  req,        (* the request it serves                                      *)
  job,        (* what its handler read from the Context: [by, r]            *)
  copy,       (* the registry as its handler read it                        *)
  known,      (* the URIs that have a Context in __Contexts                 *)
  put,        (* each Context's parameter and request: [by, r]              *)
  ans,        (* the thread whose request its response answers, or "old"    *)
  dangling,   (* the threads whose Context was freed                        *)
  mixed,      (* history: threads whose Context was shared meanwhile        *)
  registry,   (* widget_registry.json: [good, list]                         *)
  wanted,     (* history: the registrations, by the requests that were made *)
  torn,       (* history: registry requests overlapped, or an entry that    *)
              (* should have gone was skipped                               *)
  devData,    (* device_data: "none", "torn" or "on"                        *)
  fds,        (* descriptors lost                                           *)
  alive       (* the process has not ended                                  *)

context == <<known, put, ans, dangling, mixed>>
files   == <<registry, wanted, torn, devData>>
vars == <<mix, pc, req, job, copy, context, files, fds, alive>>

NoJob == [by |-> "old", r |-> Get("show")]

Init ==
  /\ mix \in Mixes
  /\ pc = [t \in Threads |-> Idle(t)]
  /\ req = [t \in Threads |-> NoJob.r]
  /\ job = [t \in Threads |-> NoJob]
  /\ copy = [t \in Threads |-> <<>>]
  /\ known = {} /\ dangling = {} /\ mixed = {}
  /\ put = [u \in URIs |-> NoJob]
  /\ ans = [u \in URIs |-> "old"]
  /\ registry = [good |-> TRUE, list |-> <<>>]
  /\ wanted = {} /\ torn = FALSE
  /\ devData \in {"none", "on"}
  /\ fds = 0
  /\ alive = TRUE

Go(t, from, to) ==
  /\ alive
  /\ pc[t] = from
  /\ pc' = [pc EXCEPT ![t] = to]
  /\ UNCHANGED mix

End ==
  /\ alive' = FALSE
  /\ UNCHANGED <<mix, pc, req, job, copy, context, files, fds>>
-----------------------------------------------------------------------------
(* The local interface *)

(* select(), accept(), which needs a descriptor, recvStr() and the tests of *)
(* the request: what is no request is not answered.  On an error recv()'s   *)
(* -1 is taken for a length.                                                *)
Receive ==
  /\ fds < MaxFds
  /\ \/ \E r \in mix :
          /\ Go("local", "select", "get")
          /\ req' = [req EXCEPT !["local"] = r]
          /\ UNCHANGED <<job, copy, context, files, fds, alive>>
     \/ /\ alive /\ pc["local"] = "select"
        /\ End
-----------------------------------------------------------------------------
(* handleRESTful() *)

Uri(t) == req[t].uri
Holds(t) ==
  pc[t] \in {"set", "handle", "write", "rewrite", "dial", "sign", "resign", "send"}

Shares(t) == Holds(Other(t)) /\ Uri(Other(t)) = Uri(t)

(* Mutant of GetContext: a missing Context is looked for again and again. *)
GetContextForEver(t) ==
  /\ Uri(t) \in known
  /\ Go(t, "get", "set")
  /\ UNCHANGED <<req, job, copy, context, files, fds, alive>>

(* getContext(): a new Context moves the others, and the references to them *)
(* dangle, when the vector is as large as its capacity.                     *)
GetContext(t) ==
  /\ Go(t, "get", "set")
  /\ known' = known \cup {Uri(t)}
  /\ dangling' =
       IF known' # known /\ Cardinality(known) \in {1, 2} /\ Holds(Other(t))
       THEN dangling \cup {Other(t)}
       ELSE dangling
  /\ UNCHANGED <<req, job, copy, put, ans, mixed, files, fds, alive>>

(* The use of a freed Context may end the process, or be without effect. *)
Misuse(t) ==
  /\ alive
  /\ t \in dangling
  /\ pc[t] \in {"set", "handle", "rewrite", "sign", "resign", "send"}
  /\ End

(* Mutant of SetContext: the handler is triggered before the request is put. *)
SetContextLate(t) ==
  /\ Go(t, "set", "handle")
  /\ UNCHANGED <<req, job, copy, context, files, fds, alive>>

SetContext(t) ==
  /\ Go(t, "set", "handle")
  /\ put' = IF t \in dangling
            THEN put ELSE [put EXCEPT ![Uri(t)] = [by |-> t, r |-> req[t]]]
  /\ mixed' = IF Shares(t) THEN Threads ELSE mixed
  /\ UNCHANGED <<req, job, copy, known, ans, dangling, files, fds, alive>>

(* C.response() *)
Respond(t, by) ==
  ans' = IF t \in dangling THEN ans ELSE [ans EXCEPT ![Uri(t)] = by]

(* The handlers that only read: a device, its endpoints, the devices; and   *)
(* widgetLoad().                                                            *)
Show(t) ==
  /\ Uri(t) = "show"
  /\ Go(t, "handle", "send")
  /\ Respond(t, put[Uri(t)].by)
  /\ UNCHANGED <<req, job, copy, known, put, dangling, mixed, files, fds, alive>>

(* rsp = c.response() and its way to the client.  What is left in a Context *)
(* that nobody uses is old.                                                 *)
Send(t) ==
  /\ Go(t, "send", Idle(t))
  /\ req' = [req EXCEPT ![t] = NoJob.r]
  /\ job' = [job EXCEPT ![t] = NoJob]
  /\ copy' = [copy EXCEPT ![t] = <<>>]
  /\ dangling' = dangling \ {t} /\ mixed' = mixed \ {t}
  /\ ans' = [ans EXCEPT ![Uri(t)] = IF @ = t THEN "old" ELSE @]
  /\ put' = [put EXCEPT ![Uri(t)] = IF Shares(t) THEN @ ELSE NoJob]
  /\ UNCHANGED <<known, files, fds, alive>>
-----------------------------------------------------------------------------
(* widgetRegistry() *)

(* pred: a key that the other lacks counts as equal. *)
Match(p, e) == \A k \in DOMAIN p \cap DOMAIN e : p[k] = e[k]

AsSet(list) == {list[i] : i \in DOMAIN list}
Hits(p, list) == {i \in DOMAIN list : Match(p, list[i])}

(* The loop steps past the entry that takes the place of an erased one. *)
Erased(p, list) ==
  LET gone[i \in 0 .. Len(list)] ==
        IF i = 0 THEN FALSE ELSE i \in Hits(p, list) /\ ~gone[i - 1]
  IN  {i \in DOMAIN list : gone[i]}

(* Mutant of Applied: a POST does not look for the registration. *)
AppliedAlways(r, list) ==
  CASE r.method = "DELETE" ->
         IF DOMAIN r.par = {} THEN <<>>
         ELSE Keep(list, DOMAIN list \ Erased(r.par, list))
    [] r.method = "POST" -> Append(list, r.par)
    [] OTHER -> list

Applied(r, list) ==
  CASE r.method = "DELETE" ->
         IF DOMAIN r.par = {} THEN <<>>
         ELSE Keep(list, DOMAIN list \ Erased(r.par, list))
    [] r.method = "POST" /\ Hits(r.par, list) = {} -> Append(list, r.par)
    [] OTHER -> list

(* What the request asks for. *)
Asks(r, S) ==
  CASE r.method = "DELETE" -> {e \in S : ~Match(r.par, e)}
    [] r.method = "POST" /\ (\A e \in S : ~Match(r.par, e)) -> S \cup {r.par}
    [] OTHER -> S

InRegistry(t) == pc[t] \in {"write", "rewrite"}

(* Mutant of ReadRegistry: every handler starts from an empty registry. *)
ReadRegistryAnew(t) ==
  /\ Uri(t) = "registry"
  /\ Go(t, "handle", "write")
  /\ job' = [job EXCEPT ![t] = put[Uri(t)]]
  /\ torn' = (torn \/ InRegistry(Other(t)))
  /\ wanted' = IF torn' THEN {} ELSE wanted
  /\ UNCHANGED <<req, copy, context, registry, devData, fds, alive>>

(* A file that does not parse is an empty registry. *)
ReadRegistry(t) ==
  /\ Uri(t) = "registry"
  /\ Go(t, "handle", "write")
  /\ job' = [job EXCEPT ![t] = put[Uri(t)]]
  /\ copy' = [copy EXCEPT ![t] = IF registry.good THEN registry.list ELSE <<>>]
  /\ torn' = (torn \/ InRegistry(Other(t)))
  /\ wanted' = IF torn' THEN {} ELSE wanted
  /\ UNCHANGED <<req, context, registry, devData, fds, alive>>

(* toFile(): the file is emptied and then written, after a GET too.  Two    *)
(* writers at a time may leave a file that does not parse.                  *)
EmptyRegistry(t) ==
  /\ Go(t, "write", "rewrite")
  /\ registry' = [good |-> FALSE, list |-> <<>>]
  /\ UNCHANGED <<req, job, copy, context, wanted, torn, devData, fds, alive>>

WriteRegistry(t) ==
  /\ Go(t, "rewrite", "send")
  /\ \/ registry' = [good |-> TRUE, list |-> Applied(job[t].r, copy[t])]
     \/ t \in mixed /\ registry' = [good |-> FALSE, list |-> <<>>]
  /\ torn' = (torn \/ AsSet(registry'.list) # Asks(job[t].r, AsSet(copy[t])))
  /\ wanted' = IF torn' THEN {} ELSE Asks(job[t].r, wanted)
  /\ Respond(t, job[t].by)
  /\ UNCHANGED <<req, job, copy, known, put, dangling, mixed, devData, fds, alive>>
-----------------------------------------------------------------------------
(* sslCliConn, and sign_in_handle() *)

Dialling(t) == pc[t] \in {"dial", "fetch"}

(* The constructor returns once there is a connection. *)
Connect(t) ==
  /\ fds < MaxFds
  /\ Go(t, "dial", "sign")
  /\ UNCHANGED <<req, job, copy, context, files, fds, alive>>

(* It tries again, every 5 seconds: after a refusal, which changes nothing, *)
(* and after a time-out, whose socket nobody closes.                        *)
Retry(t) ==
  /\ alive /\ Dialling(t)
  /\ fds < MaxFds /\ fds' = fds + 1
  /\ UNCHANGED <<mix, pc, req, job, copy, context, files, alive>>

(* When the name is not resolved, a pointer that was never set is freed. *)
NoName(t) ==
  /\ alive /\ Dialling(t)
  /\ End

(* The connection is made before the method is looked at. *)
SignIn(t) ==
  /\ Uri(t) = "sign_in"
  /\ Go(t, "handle", "dial")
  /\ job' = [job EXCEPT ![t] = put[Uri(t)]]
  /\ UNCHANGED <<req, copy, context, files, fds, alive>>

(* POST: the server's consent comes within two seconds or not; its data is  *)
(* written as the registry is.                                              *)
SignInPost(t) ==
  /\ job[t].r.method = "POST"
  /\ \/ /\ Go(t, "sign", "resign")
        /\ devData' = "torn"
        /\ UNCHANGED ans
     \/ /\ Go(t, "sign", "send")
        /\ Respond(t, job[t].by)
        /\ UNCHANGED devData
  /\ UNCHANGED <<req, job, copy, known, put, dangling, mixed, registry, wanted,
                 torn, fds, alive>>

SignInSaved(t) ==
  /\ Go(t, "resign", "send")
  /\ \/ devData' = "on"
     \/ t \in mixed /\ devData' = "torn"
  /\ Respond(t, job[t].by)
  /\ UNCHANGED <<req, job, copy, known, put, dangling, mixed, registry, wanted,
                 torn, fds, alive>>

(* DELETE, and GET. *)
SignInElse(t) ==
  /\ job[t].r.method # "POST"
  /\ Go(t, "sign", "send")
  /\ devData' = IF job[t].r.method = "DELETE" THEN "none" ELSE devData
  /\ Respond(t, job[t].by)
  /\ UNCHANGED <<req, job, copy, known, put, dangling, mixed, registry, wanted,
                 torn, fds, alive>>
-----------------------------------------------------------------------------
(* startUDPServer000() *)

(* A message indication, while remoteAccessIsEnabled(). *)
Indicated ==
  /\ devData = "on"
  /\ Go("remote", "listen", "fetch")
  /\ UNCHANGED <<req, job, copy, context, files, fds, alive>>

(* getMsg() opens a connection to fetch the message: restful/req, or        *)
(* widget/req, which is answered from the endpoint; or none in two seconds. *)
GetMsg ==
  /\ fds < MaxFds
  /\ \/ \E r \in mix :
          /\ Go("remote", "fetch", "get")
          /\ req' = [req EXCEPT !["remote"] = r]
     \/ /\ Go("remote", "fetch", "listen")
        /\ UNCHANGED req
  /\ UNCHANGED <<job, copy, context, files, fds, alive>>
-----------------------------------------------------------------------------
Serve(t) ==
  \/ GetContext(t) \/ SetContext(t) \/ Show(t) \/ Send(t)
  \/ ReadRegistry(t) \/ EmptyRegistry(t) \/ WriteRegistry(t)
  \/ SignIn(t) \/ SignInPost(t) \/ SignInSaved(t) \/ SignInElse(t)

Next ==
  \/ Receive \/ Indicated \/ GetMsg
  \/ \E t \in Threads :
       Serve(t) \/ Connect(t) \/ Retry(t) \/ NoName(t) \/ Misuse(t)

Spec == Init /\ [][Next]_vars

(* Threads run, and a connection that is tried for ever is made: the server *)
(* can be reached time and again.                                           *)
FairSpec ==
  /\ Spec
  /\ SF_vars(GetMsg)
  /\ \A t \in Threads : WF_vars(Serve(t)) /\ SF_vars(Connect(t))
-----------------------------------------------------------------------------
(* The response a client gets answers its own request, unless another       *)
(* request for the same URI was served at the same time or the Context was  *)
(* moved: Contexts outlive their requests, and are shared without a lock.   *)
AnswerOwn ==
  \A t \in Threads \ (mixed \cup dangling) : pc[t] = "send" => ans[Uri(t)] = t

(* No two registrations match each other, in whatever order the two threads *)
(* read and wrote the file: each writes a list it tested itself.            *)
NoTwins ==
  \A i, j \in DOMAIN registry.list :
    Match(registry.list[i], registry.list[j]) => i = j

(* The file holds the registrations that were asked for, as long as no two  *)
(* registry requests overlapped and no DELETE had two neighbours to erase.  *)
RegistryTrue ==
  ~torn /\ registry.good => AsSet(registry.list) = wanted

(* Whoever is served gets an answer, whatever the other thread waits for,   *)
(* if the server can be reached time and again and the descriptors last.    *)
EveryoneAnswered ==
  \A t \in Threads :
    (pc[t] = "get") ~> (pc[t] = Idle(t) \/ ~alive \/ fds = MaxFds)
=============================================================================
