-------------------------- MODULE InterfacesProofs --------------------------
(***************************************************************************)
(* The two interfaces and the devices they show.  First the answers and    *)
(* the registry of the interfaces, for every set of requests and any       *)
(* interleaving of the two threads (module Interfaces).  Then the pairing  *)
(* of devices with applications, and the snapshot the interfaces make of a *)
(* paired device, for every set of devices, addresses, descriptors and     *)
(* applications and any archive (module Peers).                            *)
(***************************************************************************)
EXTENDS Interfaces, Peers, WellFoundedInduction, SequenceTheorems,
        FiniteSetTheorems, TLAPS

AllRequests == (UNION Mixes) \cup {NoJob.r}
Pars     == {r.par : r \in AllRequests}
Makers   == Threads \cup {"old"}
Jobs     == [by : Makers, r : AllRequests]
Working  == {"write", "rewrite", "dial", "sign", "resign"}
Waiting  == {"select", "listen", "fetch", "get"}
Stages   == Working \cup Waiting \cup {"set", "handle", "send"}

(* Every variable that the answers and the registry depend on has its type. *)
TalkTypes ==
  /\ mix \in Mixes
  /\ pc \in [Threads -> Stages]
  /\ req \in [Threads -> AllRequests]
  /\ job \in [Threads -> Jobs]
  /\ put \in [URIs -> Jobs]
  /\ ans \in [URIs -> Makers]
  /\ mixed \in SUBSET Threads
  /\ dangling \in SUBSET Threads
ListTypes == copy \in [Threads -> Seq(Pars)] /\ registry.list \in Seq(Pars)

(***************************************************************************)
(* Every action is one of these, as far as requests and answers go; "to"   *)
(* is where the thread t comes.                                            *)
(***************************************************************************)
Moves(t, to) == pc' = [pc EXCEPT ![t] = to] /\ UNCHANGED mix

Waits(t, to) ==
  /\ pc[t] \in Waiting /\ to \in Waiting
  /\ req' = req \/ \E r \in mix : req' = [req EXCEPT ![t] = r]
  /\ UNCHANGED <<job, copy, put, ans, dangling, mixed, registry, torn, wanted>>

Finds(t, to) ==
  /\ pc[t] = "get" /\ to = "set"
  /\ dangling' \in {dangling, dangling \cup {Other(t)}}
  /\ UNCHANGED <<req, job, copy, put, ans, mixed, registry, torn, wanted>>

Takes(t, to) ==
  /\ pc[t] = "handle" /\ to \in Working
  /\ job' = [job EXCEPT ![t] = put[Uri(t)]]
  /\ UNCHANGED <<req, put, ans, dangling, mixed, registry>>

Works(t, to) ==
  /\ pc[t] \in Working /\ to \in Working
  /\ UNCHANGED <<req, job, copy, put, ans, dangling, mixed, torn, wanted>>

Answers(t, to, by) ==
  /\ to = "send"
  /\ \/ pc[t] = "handle" /\ by = put[Uri(t)].by
     \/ pc[t] \in Working /\ by = job[t].by
  /\ Respond(t, by)
  /\ UNCHANGED <<req, job, copy, put, dangling, mixed>>

Step(t, to) ==
  /\ Moves(t, to)
  /\ \/ Waits(t, to)
     \/ Finds(t, to)
     \/ SetContext(t) /\ to = "handle"
     \/ Takes(t, to)
     \/ Works(t, to)
     \/ \E by : Answers(t, to, by)
     \/ Send(t) /\ to = Idle(t)

(* A step that none of this is seen of. *)
Idles == UNCHANGED <<mix, pc, req, job, copy, put, ans, dangling, mixed, registry, torn, wanted>>

(* A thread that has put its request into its Context. *)
Past(t) == Holds(t) /\ pc[t] # "set"

(* Where two have put theirs into one Context, both are known to be mixed; *)
(* a thread that is alone with a Context that stays finds its own request  *)
(* in it, then in what its handler read, then in the response.             *)
OwnInv ==
  /\ \A t, u \in Threads :
       t # u /\ Past(t) /\ Past(u) /\ Uri(t) = Uri(u) => mixed = Threads
  /\ \A t \in Threads \ (mixed \cup dangling) :
       /\ pc[t] = "handle" => put[Uri(t)].by = t
       /\ pc[t] \in Working => job[t].by = t
       /\ pc[t] = "send" => ans[Uri(t)] = t

(* The list a handler would read. *)
Stored == IF registry.good THEN registry.list ELSE <<>>

NoTwinsIn(list) == \A i, j \in DOMAIN list : Match(list[i], list[j]) => i = j

(* No list in a file or in a handler's hands has twins. *)
TwinInv == NoTwinsIn(registry.list) /\ \A t \in Threads : NoTwinsIn(copy[t])

(* While requests have not overlapped, the file, and the copy of the one   *)
(* handler at work, hold what was asked for; between the emptying and the  *)
(* writing only the copy does.                                             *)
FileInv == ~torn =>
  /\ \A t, u \in Threads : InRegistry(t) /\ InRegistry(u) => t = u
  /\ \A t \in Threads : InRegistry(t) => AsSet(copy[t]) = wanted
  /\ \A t \in Threads : pc[t] = "rewrite" => ~registry.good
  /\ (\A t \in Threads : pc[t] # "rewrite") => AsSet(Stored) = wanted
-----------------------------------------------------------------------------
(* Lists *)

(* The requests, and the one that stands for none. *)
LEMMA RequestTypes ==
  /\ NoJob \in Jobs /\ NoJob.r \in AllRequests
  /\ \A r \in AllRequests : r.uri \in URIs /\ r.par \in Pars
<1>1. NoJob.r = [uri |-> "show", method |-> "GET", par |-> Empty] /\ NoJob.by = "old"
      /\ NoJob = [by |-> "old", r |-> NoJob.r]
  BY DEF NoJob, Get
<1>2. NoJob.r.uri \in URIs
  BY <1>1 DEF URIs
<1>3. NoJob.r \in AllRequests
  <2>1. NoJob.r \in {NoJob.r}
    OBVIOUS
  <2>2. QED
    BY <2>1 DEF AllRequests
<1>4. NoJob \in Jobs
  BY <1>1, <1>3 DEF Jobs, Makers
<1>5. \A r \in AllRequests : r.uri \in URIs
  <2> SUFFICES ASSUME NEW r \in AllRequests  PROVE r.uri \in URIs
    OBVIOUS
  <2>1. CASE r \in UNION Mixes
    BY <2>1, InterfacesAssumption
  <2>2. CASE r = NoJob.r
    BY <1>2, <2>2
  <2>3. QED
    BY <2>1, <2>2 DEF AllRequests
<1>6. \A r \in AllRequests : r.par \in Pars
  BY DEF Pars
<1>7. QED
  BY <1>3, <1>4, <1>5, <1>6

(* Each entry that is kept has its place, and no two have the same. *)
LEMMA Ranks ==
  ASSUME NEW n \in Nat, NEW keep \in SUBSET (1 .. n)
  PROVE  /\ Cardinality(keep) \in Nat
         /\ \A m \in 1 .. Cardinality(keep) :
              \E i \in keep : Cardinality({j \in keep : j <= i}) = m
<1> DEFINE K == Cardinality(keep)
           f == [i \in keep |-> Cardinality({j \in keep : j <= i})]
<1>1. IsFiniteSet(keep) /\ K \in Nat
  <2>1. IsFiniteSet(1 .. n)
    BY FS_Interval
  <2>2. IsFiniteSet(keep)
    BY <2>1, FS_Subset
  <2>3. QED
    BY <2>2, FS_CardinalityType
<1>2. ASSUME NEW i \in keep
      PROVE  /\ f[i] \in 1 .. K
             /\ IsFiniteSet({j \in keep : j <= i})
  <2>1. {j \in keep : j <= i} \in SUBSET keep
    OBVIOUS
  <2>2. /\ IsFiniteSet({j \in keep : j <= i})
        /\ Cardinality({j \in keep : j <= i}) <= K
    BY <1>1, <2>1, FS_Subset
  <2>3. i \in {j \in keep : j <= i}
    OBVIOUS
  <2>4. /\ Cardinality({j \in keep : j <= i}) \in Nat
        /\ Cardinality({j \in keep : j <= i}) # 0
    BY <2>2, <2>3, FS_CardinalityType, FS_EmptySet
  <2>5. QED
    BY <1>1, <2>2, <2>4
<1>3. ASSUME NEW i \in keep, NEW k \in keep, i < k
      PROVE  f[i] # f[k]
  <2>1. {j \in keep : j <= i} \in SUBSET {j \in keep : j <= k}
    <3> HIDE DEF f, K
    <3> SUFFICES ASSUME NEW j \in keep, j <= i  PROVE j <= k
      OBVIOUS
    <3>1. i \in Nat /\ j \in Nat /\ k \in Nat
      OBVIOUS
    <3>2. QED
      BY <1>3, <3>1
  <2>2. k \in {j \in keep : j <= k} /\ k \notin {j \in keep : j <= i}
    BY <1>3
  <2>3. Cardinality({j \in keep : j <= i}) # Cardinality({j \in keep : j <= k})
    BY <1>2, <2>1, <2>2, FS_Subset
  <2>4. QED
    BY <2>3
<1>4. f \in Injection(keep, 1 .. K)
  <2>1. f \in [keep -> 1 .. K]
    BY <1>2
  <2>2. \A i, k \in keep : f[i] = f[k] => i = k
    <3> HIDE DEF f
    <3> SUFFICES ASSUME NEW i \in keep, NEW k \in keep, f[i] = f[k]  PROVE i = k
      OBVIOUS
    <3>1. ~(i < k) /\ ~(k < i)
      BY <1>3
    <3>2. QED
      BY <3>1
  <2>3. QED
    BY <2>1, <2>2 DEF Injection, IsInjective
<1>5. IsFiniteSet(1 .. K) /\ Cardinality(1 .. K) = K
  BY <1>1, FS_Interval
<1>6. f \in Surjection(keep, 1 .. K)
  BY <1>4, <1>5, FS_Injection
<1>7. \A m \in 1 .. K : \E i \in keep : f[i] = m
  BY <1>6 DEF Surjection
<1>8. QED
  BY <1>1, <1>7

(* What is kept of a list is its entries, each once. *)
LEMMA Kept ==
  ASSUME NEW S, NEW list \in Seq(S), NEW keep \in SUBSET DOMAIN list
  PROVE  /\ Keep(list, keep) \in Seq(S)
         /\ \A m \in DOMAIN Keep(list, keep) : \E i \in keep : Keep(list, keep)[m] = list[i]
         /\ NoTwinsIn(list) => NoTwinsIn(Keep(list, keep))
<1> DEFINE K == Cardinality(keep)
           at(m) == CHOOSE i \in keep : Cardinality({j \in keep : j <= i}) = m
<1>1. Len(list) \in Nat /\ DOMAIN list = 1 .. Len(list)
  OBVIOUS
<1>2. K \in Nat /\ \A m \in 1 .. K : \E i \in keep : Cardinality({j \in keep : j <= i}) = m
  BY <1>1, Ranks
<1>3. \A m \in 1 .. K : at(m) \in keep /\ Cardinality({j \in keep : j <= at(m)}) = m
  BY <1>2
<1>4. Keep(list, keep) = [m \in 1 .. K |-> list[at(m)]]
  BY DEF Keep
<1> HIDE DEF at
<1>5. \A m \in 1 .. K : list[at(m)] \in S
  <2>1. \A i \in DOMAIN list : list[i] \in S
    BY <1>1
  <2>2. QED
    BY <1>3, <2>1
<1>6. Keep(list, keep) \in Seq(S)
  <2>1. Keep(list, keep) \in [1 .. K -> S]
    BY <1>4, <1>5
  <2>2. QED
    BY <1>2, <2>1
<1>7. ASSUME NoTwinsIn(list)  PROVE NoTwinsIn(Keep(list, keep))
  <2> SUFFICES ASSUME NEW m \in 1 .. K, NEW n \in 1 .. K, Match(list[at(m)], list[at(n)])
               PROVE  m = n
    BY <1>4 DEF NoTwinsIn
  <2>1. at(m) = at(n)
    BY <1>3, <1>7 DEF NoTwinsIn
  <2>2. QED
    BY <1>3, <2>1
<1>8. QED
  BY <1>3, <1>4, <1>6, <1>7

(* What a handler makes of a list without twins. *)
LEMMA AppliedKeeps ==
  ASSUME NEW r \in AllRequests, NEW list \in Seq(Pars)
  PROVE  /\ Applied(r, list) \in Seq(Pars)
         /\ NoTwinsIn(list) => NoTwinsIn(Applied(r, list))
<1>1. r.par \in Pars
  BY RequestTypes
<1>2. CASE r.method = "DELETE" /\ DOMAIN r.par = {}
  <2>1. Applied(r, list) = <<>>
    <3>1. DOMAIN r.par = {} /\ r.method = "DELETE"
      BY <1>2
    <3>2. QED
      BY <3>1 DEF Applied
  <2>2. <<>> \in Seq(Pars) /\ DOMAIN <<>> = {}
    OBVIOUS
  <2>3. NoTwinsIn(<<>>)
    BY <2>2 DEF NoTwinsIn
  <2>4. QED
    BY <2>1, <2>2, <2>3
<1>3. CASE r.method = "DELETE" /\ DOMAIN r.par # {}
  <2> DEFINE keep == DOMAIN list \ Erased(r.par, list)
  <2>1. Applied(r, list) = Keep(list, keep)
    BY <1>3 DEF Applied
  <2>2. keep \in SUBSET DOMAIN list
    OBVIOUS
  <2> HIDE DEF keep
  <2>3. QED
    BY <2>1, <2>2, Kept
<1>4. CASE r.method = "POST" /\ Hits(r.par, list) = {}
  <2>1. Applied(r, list) = Append(list, r.par)
    BY <1>4 DEF Applied
  <2>2. \A i \in DOMAIN list : ~Match(r.par, list[i]) /\ ~Match(list[i], r.par)
    BY <1>4 DEF Hits, Match
  <2>3. PICK p \in Pars : p = r.par
    BY <1>1
  <2>4. Append(list, p) \in Seq(Pars) /\ DOMAIN Append(list, p) = 1 .. Len(list) + 1
        /\ DOMAIN list = 1 .. Len(list) /\ Len(list) \in Nat
    OBVIOUS
  <2>5. \A i \in 1 .. Len(list) + 1 :
          Append(list, p)[i] = IF i \in DOMAIN list THEN list[i] ELSE p
    BY <2>4
  <2>6. ASSUME NoTwinsIn(list)  PROVE NoTwinsIn(Append(list, p))
    <3> SUFFICES ASSUME NEW i \in 1 .. Len(list) + 1, NEW j \in 1 .. Len(list) + 1,
                        Match(Append(list, p)[i], Append(list, p)[j])
                 PROVE  i = j
      BY <2>4 DEF NoTwinsIn
    <3>1. CASE i \in DOMAIN list /\ j \in DOMAIN list
      BY <2>5, <2>6, <3>1 DEF NoTwinsIn
    <3>2. CASE i \notin DOMAIN list /\ j \notin DOMAIN list
      BY <2>4, <3>2
    <3>3. CASE ~(i \in DOMAIN list <=> j \in DOMAIN list)
      BY <2>2, <2>3, <2>5, <3>3
    <3>4. QED
      BY <3>1, <3>2, <3>3
  <2>7. QED
    BY <2>1, <2>3, <2>4, <2>6
<1>5. CASE r.method # "DELETE" /\ ~(r.method = "POST" /\ Hits(r.par, list) = {})
  <2>1. Applied(r, list) = list
    BY <1>5 DEF Applied
  <2>2. QED
    BY <2>1
<1>6. QED
  BY <1>2, <1>3, <1>4, <1>5
-----------------------------------------------------------------------------
(* AllRequests and answers *)

(* The threads are two. *)
LEMMA Pair ==
  ASSUME NEW t \in Threads
  PROVE  /\ Other(t) \in Threads /\ Other(t) # t
         /\ \A u \in Threads : u = t \/ u = Other(t)
BY DEF Threads, Other

(* What the actions are as seen by requests and answers. *)
LEMMA Kinds ==
  ASSUME [Next]_vars
  PROVE  Idles \/ \E t \in Threads, to \in Stages : Step(t, to)
<1> USE DEF Stages, Working, Waiting, Idle, Threads
<1>1. CASE UNCHANGED vars
  BY <1>1 DEF vars, context, files, Idles
<1>2. CASE Receive
  <2>1. CASE alive /\ pc["local"] = "select" /\ End
    BY <2>1 DEF End, Idles, context, files
  <2>2. CASE \E r \in mix : /\ Go("local", "select", "get")
                            /\ req' = [req EXCEPT !["local"] = r]
                            /\ UNCHANGED <<job, copy, context, files, fds, alive>>
    <3>1. Moves("local", "get") /\ Waits("local", "get")
      BY <2>2 DEF Go, Moves, Waits, context, files
    <3>2. QED
      BY <3>1 DEF Step
  <2>3. QED
    BY <1>2, <2>1, <2>2 DEF Receive
<1>3. CASE Indicated
  <2>1. Moves("remote", "fetch") /\ Waits("remote", "fetch")
    BY <1>3 DEF Indicated, Go, Moves, Waits, context, files
  <2>2. QED
    BY <2>1 DEF Step
<1>4. CASE GetMsg
  <2>1. PICK to \in {"get", "listen"} : Moves("remote", to) /\ pc["remote"] = "fetch"
          /\ (req' = req \/ \E r \in mix : req' = [req EXCEPT !["remote"] = r])
    BY <1>4 DEF GetMsg, Go, Moves
  <2>2. Waits("remote", to)
    BY <1>4, <2>1 DEF GetMsg, Waits, context, files
  <2>3. QED
    BY <2>1, <2>2 DEF Step
<1>5. ASSUME NEW t \in Threads, Retry(t) \/ NoName(t) \/ Misuse(t)  PROVE Idles
  BY <1>5 DEF Retry, NoName, Misuse, End, Idles, context, files
<1>6. ASSUME NEW t \in Threads, GetContext(t)  PROVE Step(t, "set")
  BY <1>6 DEF GetContext, Go, Moves, Finds, files, Step
<1>7. ASSUME NEW t \in Threads, SetContext(t)  PROVE Step(t, "handle")
  BY <1>7 DEF SetContext, Go, Moves, Step
<1>8. ASSUME NEW t \in Threads, Send(t)  PROVE Step(t, Idle(t)) /\ Idle(t) \in Stages
  BY <1>8 DEF Send, Go, Moves, Step
<1>9. ASSUME NEW t \in Threads, ReadRegistry(t)  PROVE Step(t, "write")
  BY <1>9 DEF ReadRegistry, Go, Moves, Takes, context, Step
<1>10. ASSUME NEW t \in Threads, SignIn(t)  PROVE Step(t, "dial")
  BY <1>10 DEF SignIn, Go, Moves, Takes, context, files, Step
<1>11. ASSUME NEW t \in Threads, EmptyRegistry(t)
       PROVE  Step(t, "rewrite")
  BY <1>11 DEF EmptyRegistry, Go, Moves, Works, context, Step
<1>12. ASSUME NEW t \in Threads, Connect(t)  PROVE Step(t, "sign")
  BY <1>12 DEF Connect, Go, Moves, Works, context, files, Step
<1>13. ASSUME NEW t \in Threads, Show(t)
       PROVE  Step(t, "send")
  BY <1>13 DEF Show, Go, Moves, Answers, Step
<1>14. ASSUME NEW t \in Threads, WriteRegistry(t) \/ SignInSaved(t) \/ SignInElse(t)
       PROVE  Step(t, "send")
  BY <1>14 DEF WriteRegistry, SignInSaved, SignInElse, Go, Moves, Answers, Step
<1>15. ASSUME NEW t \in Threads, SignInPost(t)
       PROVE  Step(t, "send") \/ Step(t, "resign")
  BY <1>15 DEF SignInPost, Go, Moves, Answers, Works, Step
<1>16. QED
  BY <1>1, <1>2, <1>3, <1>4, <1>5, <1>6, <1>7, <1>8, <1>9, <1>10, <1>11, <1>12, <1>13, <1>14,
     <1>15 DEF Next, Serve

(* A request has a Context's URI. *)
LEMMA UriType ==
  ASSUME TalkTypes, NEW t \in Threads
  PROVE  Uri(t) \in URIs
BY RequestTypes DEF TalkTypes, Uri

(* AllRequests stay requests. *)
LEMMA TalkStep ==
  ASSUME TalkTypes, NEW t \in Threads, NEW to \in Stages, Step(t, to)
  PROVE  TalkTypes'
<1>1. Uri(t) \in URIs /\ Other(t) \in Threads
  BY UriType, Pair
<1>2. mix' \in Mixes /\ pc' \in [Threads -> Stages]
  BY DEF TalkTypes, Step, Moves
<1>3. CASE Waits(t, to)
  <2>1. \A r \in mix : r \in AllRequests
    BY DEF TalkTypes, AllRequests
  <2>2. req' \in [Threads -> AllRequests]
    BY <1>3, <2>1 DEF TalkTypes, Waits
  <2>3. QED
    BY <1>2, <1>3, <2>2 DEF TalkTypes, Waits
<1>4. CASE Finds(t, to)
  BY <1>1, <1>2, <1>4 DEF TalkTypes, Finds
<1>5. CASE SetContext(t)
  <2>1. put' \in [URIs -> Jobs]
    <3>1. [by |-> t, r |-> req[t]] \in Jobs
      BY DEF TalkTypes, Jobs, Makers
    <3>2. QED
      BY <1>5, <3>1 DEF TalkTypes, SetContext
  <2>2. QED
    BY <1>2, <1>5, <2>1 DEF TalkTypes, SetContext
<1>6. CASE Takes(t, to)
  BY <1>1, <1>2, <1>6 DEF TalkTypes, Takes
<1>7. CASE Works(t, to)
  BY <1>2, <1>7 DEF TalkTypes, Works
<1>8. CASE \E by : Answers(t, to, by)
  <2>1. PICK by : Answers(t, to, by)
    BY <1>8
  <2>2. by \in Makers
    BY <1>1, <2>1 DEF Answers, TalkTypes, Jobs
  <2>3. ans' \in [URIs -> Makers]
    BY <2>1, <2>2 DEF Answers, Respond, TalkTypes
  <2>4. QED
    BY <1>2, <2>1, <2>3 DEF TalkTypes, Answers
<1>9. CASE Send(t)
  <2>1. req' \in [Threads -> AllRequests] /\ job' \in [Threads -> Jobs] /\ put' \in [URIs -> Jobs]
    BY <1>9, RequestTypes DEF TalkTypes, Send
  <2>2. ans' \in [URIs -> Makers]
    BY <1>9 DEF TalkTypes, Send, Makers
  <2>3. QED
    BY <1>2, <1>9, <2>1, <2>2 DEF TalkTypes, Send
<1>10. QED
  BY <1>3, <1>4, <1>5, <1>6, <1>7, <1>8, <1>9 DEF Step

(* No step of the other thread puts its request, or its answer, where this *)
(* one looks for its own, unless both are known to be mixed.               *)
LEMMA OwnStep ==
  ASSUME TalkTypes, OwnInv, NEW t \in Threads, NEW to \in Stages, Step(t, to)
  PROVE  OwnInv'
<1> DEFINE o == Other(t)
           P(u) == pc[u] \in Working \cup {"handle", "send"}
           Q(u) == pc'[u] \in Working \cup {"handle", "send"}
           Own(u) == /\ pc[u] = "handle" => put[Uri(u)].by = u
                     /\ pc[u] \in Working => job[u].by = u
                     /\ pc[u] = "send" => ans[Uri(u)] = u
<1>1. o \in Threads /\ o # t /\ \A u \in Threads : u = t \/ u = o
  BY Pair
<1>2. Uri(t) \in URIs /\ Uri(o) \in URIs
  BY <1>1, UriType
<1>3. pc'[t] = to /\ pc'[o] = pc[o] /\ pc[t] \in Stages
  BY <1>1 DEF Step, Moves, TalkTypes
<1>4. \A u \in Threads : (Past(u) <=> P(u)) /\ (Past(u)' <=> Q(u))
  BY DEF Past, Holds, Working
<1> HIDE DEF o
<1>5. P(t) /\ P(o) /\ Uri(t) = Uri(o) => mixed = Threads
  BY <1>1, <1>4 DEF OwnInv
<1>6. \A u \in Threads \ (mixed \cup dangling) : Own(u)
  BY DEF OwnInv
<1>7. SUFFICES /\ Q(t) /\ Q(o) /\ Uri(t)' = Uri(o)' => mixed' = Threads
               /\ t \notin mixed' \cup dangling' => Own(t)'
               /\ o \notin mixed' \cup dangling' => Own(o)'
  <2>1. \A u, v \in Threads : u # v /\ Past(u)' /\ Past(v)' /\ Uri(u)' = Uri(v)'
                               => mixed' = Threads
    BY <1>1, <1>4, <1>7
  <2>2. \A u \in Threads \ (mixed' \cup dangling') : Own(u)'
    BY <1>1, <1>7
  <2>3. QED
    BY <2>1, <2>2 DEF OwnInv
<1>8. CASE Waits(t, to)
  <2>1. ~Q(t) /\ to \notin Working /\ to # "handle" /\ to # "send"
    BY <1>3, <1>8 DEF Waits, Waiting, Working
  <2>2. Uri(o)' = Uri(o) /\ UNCHANGED <<job, put, ans, mixed, dangling>>
    BY <1>1, <1>8 DEF Waits, Uri, TalkTypes
  <2>3. QED
    BY <1>1, <1>3, <1>6, <2>1, <2>2
<1>9. CASE Finds(t, to)
  <2>1. ~Q(t) /\ to \notin Working /\ to # "handle" /\ to # "send"
    BY <1>3, <1>9 DEF Finds, Working
  <2>2. Uri(o)' = Uri(o) /\ UNCHANGED <<job, put, ans, mixed>> /\ dangling \subseteq dangling'
    BY <1>9 DEF Finds, Uri
  <2>3. QED
    BY <1>1, <1>3, <1>6, <2>1, <2>2
<1>10. CASE SetContext(t) /\ to = "handle"
  <2>1. Uri(t)' = Uri(t) /\ Uri(o)' = Uri(o) /\ UNCHANGED <<job, ans, dangling>>
    BY <1>10 DEF SetContext, Uri
  <2>2. P(o) /\ Uri(o) = Uri(t) => mixed' = Threads
    <3>1. P(o) => Holds(o)
      BY <1>1, <1>4 DEF Past
    <3>2. QED
      BY <1>10, <3>1 DEF SetContext, Shares, o
  <2>3. mixed \subseteq mixed'
    BY <1>10 DEF SetContext, TalkTypes
  <2>4. t \notin dangling => put'[Uri(t)].by = t
    BY <1>2, <1>10 DEF SetContext, TalkTypes
  <2>5. Uri(o) # Uri(t) => put'[Uri(o)] = put[Uri(o)]
    BY <1>2, <1>10 DEF SetContext, TalkTypes
  <2>6. o \notin mixed' \cup dangling' => Own(o)'
    BY <1>1, <1>3, <1>6, <2>1, <2>2, <2>3, <2>5
  <2>7. to \notin Working
    BY <1>10 DEF Working
  <2>8. QED
    BY <1>1, <1>3, <1>10, <2>1, <2>2, <2>4, <2>6, <2>7
<1>11. CASE Takes(t, to)
  <2>1. /\ Uri(t)' = Uri(t) /\ Uri(o)' = Uri(o) /\ UNCHANGED <<put, ans, dangling, mixed>>
        /\ pc[t] = "handle" /\ to \in Working
    BY <1>11 DEF Takes, Uri
  <2>2. job'[t] = put[Uri(t)] /\ job'[o] = job[o]
    BY <1>1, <1>11 DEF Takes, TalkTypes
  <2>3. to # "handle" /\ to # "send"
    BY <2>1 DEF Working
  <2>4. QED
    BY <1>1, <1>3, <1>5, <1>6, <2>1, <2>2, <2>3
<1>12. CASE Works(t, to)
  <2>1. /\ Uri(t)' = Uri(t) /\ Uri(o)' = Uri(o) /\ UNCHANGED <<job, put, ans, dangling, mixed>>
        /\ pc[t] \in Working /\ to \in Working
    BY <1>12 DEF Works, Uri
  <2>2. to # "handle" /\ to # "send"
    BY <2>1 DEF Working
  <2>3. QED
    BY <1>1, <1>3, <1>5, <1>6, <2>1, <2>2
<1>13. CASE \E by : Answers(t, to, by)
  <2>1. PICK by : Answers(t, to, by)
    BY <1>13
  <2>2. /\ Uri(t)' = Uri(t) /\ Uri(o)' = Uri(o) /\ UNCHANGED <<job, put, dangling, mixed>>
        /\ to = "send" /\ P(t)
    BY <2>1 DEF Answers, Uri
  <2>3. to \notin Working
    BY <2>2 DEF Working
  <2>4. t \notin mixed \cup dangling => by = t
    BY <1>6, <2>1 DEF Answers
  <2>5. t \notin dangling => ans'[Uri(t)] = by
    BY <1>2, <2>1 DEF Answers, Respond, TalkTypes
  <2>6. Uri(o) # Uri(t) => ans'[Uri(o)] = ans[Uri(o)]
    BY <1>2, <2>1 DEF Answers, Respond, TalkTypes
  <2>7. o \notin mixed' \cup dangling' => Own(o)'
    <3> SUFFICES ASSUME o \notin mixed, o \notin dangling  PROVE Own(o)'
      BY <2>2
    <3>1. Own(o)
      BY <1>1, <1>6
    <3>2. pc[o] = "send" => Uri(o) # Uri(t)
      BY <1>1, <1>5, <2>2
    <3>3. QED
      BY <1>3, <2>2, <2>6, <3>1, <3>2
  <2>8. QED
    BY <1>1, <1>3, <1>5, <2>2, <2>3, <2>4, <2>5, <2>7
<1>14. CASE Send(t) /\ to = Idle(t)
  <2>1. ~Q(t) /\ to \notin Working /\ to # "handle" /\ to # "send"
    BY <1>3, <1>14 DEF Idle, Working
  <2>2. /\ Uri(o)' = Uri(o) /\ job'[o] = job[o]
        /\ dangling' = dangling \ {t} /\ mixed' = mixed \ {t}
    BY <1>1, <1>14 DEF Send, Uri, TalkTypes
  <2>3. pc[o] = "handle" => put'[Uri(o)].by = put[Uri(o)].by
    <3>1. pc[o] = "handle" /\ Uri(o) = Uri(t) => Shares(t)
      BY DEF Shares, Holds, o
    <3>2. QED
      BY <1>2, <1>14, <3>1 DEF Send, TalkTypes
  <2>4. ans[Uri(o)] = o => ans'[Uri(o)] = o
    BY <1>1, <1>2, <1>14 DEF Send, TalkTypes
  <2>5. QED
    BY <1>1, <1>3, <1>6, <2>1, <2>2, <2>3, <2>4
<1>15. QED
  BY <1>8, <1>9, <1>10, <1>11, <1>12, <1>13, <1>14 DEF Step
-----------------------------------------------------------------------------
(* The registry *)

(* Only these actions touch a list, or come to the file or leave it. *)
LEMMA RegistryKinds ==
  ASSUME TalkTypes, [Next]_vars
  PROVE  \/ /\ UNCHANGED <<registry, copy, torn, wanted>>
            /\ \A u \in Threads : /\ pc'[u] = "write" <=> pc[u] = "write"
                                  /\ pc'[u] = "rewrite" <=> pc[u] = "rewrite"
         \/ \E t \in Threads :
              ReadRegistry(t) \/ EmptyRegistry(t) \/ WriteRegistry(t) \/ Send(t)
<1> DEFINE Away == /\ UNCHANGED <<registry, copy, torn, wanted>>
                   /\ \A u \in Threads : /\ pc'[u] = "write" <=> pc[u] = "write"
                                         /\ pc'[u] = "rewrite" <=> pc[u] = "rewrite"
           Still == UNCHANGED <<pc, registry, copy, torn, wanted>>
           Along(t, from, to) == /\ pc[t] = from /\ pc' = [pc EXCEPT ![t] = to]
                                  /\ UNCHANGED <<registry, copy, torn, wanted>>
           Far == Stages \ {"write", "rewrite"}
<1>1. Still => Away
  OBVIOUS
<1>2. ASSUME NEW t \in Threads, NEW from \in Far, NEW to \in Far, Along(t, from, to)
      PROVE  Away
  BY <1>2 DEF TalkTypes
<1> HIDE DEF Away
<1>3. CASE UNCHANGED vars
  BY <1>1, <1>3 DEF vars, files
<1>4. CASE Receive
  <2>1. CASE End
    BY <1>1, <2>1 DEF End, files
  <2>2. CASE Go("local", "select", "get") /\ UNCHANGED <<copy, files>>
    <3>1. Along("local", "select", "get")
      BY <2>2 DEF Go, files
    <3>2. QED
      BY <1>2, <3>1 DEF Threads, Stages, Working, Waiting
  <2>3. QED
    BY <1>4, <2>1, <2>2 DEF Receive
<1>5. CASE Indicated
  <2>1. Along("remote", "listen", "fetch")
    BY <1>5 DEF Indicated, Go, files
  <2>2. QED
    BY <1>2, <2>1 DEF Threads, Stages, Working, Waiting
<1>6. CASE GetMsg
  <2>1. Along("remote", "fetch", "get") \/ Along("remote", "fetch", "listen")
    BY <1>6 DEF GetMsg, Go, files
  <2>2. CASE Along("remote", "fetch", "get")
    BY <1>2, <2>2 DEF Threads, Stages, Working, Waiting
  <2>3. CASE Along("remote", "fetch", "listen")
    BY <1>2, <2>3 DEF Threads, Stages, Working, Waiting
  <2>4. QED
    BY <2>1, <2>2, <2>3
<1>7. ASSUME NEW t \in Threads, Retry(t) \/ NoName(t) \/ Misuse(t)  PROVE Away
  BY <1>1, <1>7 DEF Retry, NoName, Misuse, End, files
<1>8. ASSUME NEW t \in Threads,
             GetContext(t) \/ SetContext(t) \/ Show(t) \/ SignIn(t) \/ Connect(t)
             \/ SignInPost(t) \/ SignInSaved(t) \/ SignInElse(t)
      PROVE  Away
  <2>1. PICK from \in Far, to \in Far : Along(t, from, to)
    BY <1>8 DEF GetContext, SetContext, Show, SignIn, Connect, SignInPost, SignInSaved, SignInElse,
                Go, files, Stages, Working, Waiting
  <2>2. QED
    BY <1>2, <2>1
<1>9. QED
  BY <1>3, <1>4, <1>5, <1>6, <1>7, <1>8 DEF Next, Serve, Away

(* Lists stay lists of parameters, without twins. *)
LEMMA ListStep ==
  ASSUME TalkTypes, ListTypes, TwinInv, [Next]_vars
  PROVE  ListTypes' /\ TwinInv'
<1>1. <<>> \in Seq(Pars) /\ NoTwinsIn(<<>>)
  BY DEF NoTwinsIn
<1>2. CASE UNCHANGED <<registry, copy>>
  BY <1>2 DEF ListTypes, TwinInv
<1>3. ASSUME NEW t \in Threads, ReadRegistry(t)  PROVE ListTypes' /\ TwinInv'
  <2> DEFINE read == IF registry.good THEN registry.list ELSE <<>>
  <2>1. copy' = [copy EXCEPT ![t] = read] /\ registry' = registry
    BY <1>3 DEF ReadRegistry
  <2>2. read \in Seq(Pars) /\ NoTwinsIn(read)
    BY <1>1 DEF ListTypes, TwinInv
  <2> HIDE DEF read
  <2>3. \A u \in Threads : copy'[u] = IF u = t THEN read ELSE copy[u]
    BY <2>1 DEF ListTypes
  <2>4. QED
    BY <2>1, <2>2, <2>3 DEF ListTypes, TwinInv
<1>4. ASSUME NEW t \in Threads, EmptyRegistry(t)  PROVE ListTypes' /\ TwinInv'
  BY <1>1, <1>4 DEF EmptyRegistry, ListTypes, TwinInv
<1>5. ASSUME NEW t \in Threads, WriteRegistry(t)  PROVE ListTypes' /\ TwinInv'
  <2>1. /\ copy' = copy
        /\ registry'.list = Applied(job[t].r, copy[t]) \/ registry'.list = <<>>
    BY <1>5 DEF WriteRegistry
  <2>2. PICK r \in AllRequests : r = job[t].r
    BY DEF TalkTypes, Jobs
  <2>3. PICK list \in Seq(Pars) : list = copy[t] /\ NoTwinsIn(list)
    BY DEF ListTypes, TwinInv
  <2>4. registry'.list \in Seq(Pars) /\ NoTwinsIn(registry'.list)
    BY <1>1, <2>1, <2>2, <2>3, AppliedKeeps
  <2>5. QED
    BY <2>1, <2>4 DEF ListTypes, TwinInv
<1>6. ASSUME NEW t \in Threads, Send(t)  PROVE ListTypes' /\ TwinInv'
  <2>1. copy' = [copy EXCEPT ![t] = <<>>] /\ registry' = registry
    BY <1>6 DEF Send, files
  <2>2. \A u \in Threads : copy'[u] = IF u = t THEN <<>> ELSE copy[u]
    BY <2>1 DEF ListTypes
  <2>3. QED
    BY <1>1, <2>1, <2>2 DEF ListTypes, TwinInv
<1>7. QED
  BY <1>2, <1>3, <1>4, <1>5, <1>6, RegistryKinds

(* One handler at a time reads, empties and writes the file. *)
LEMMA FileStep ==
  ASSUME TalkTypes, ListTypes, FileInv, [Next]_vars
  PROVE  FileInv'
<1> SUFFICES ASSUME ~torn'  PROVE FileInv'
  BY DEF FileInv
<1>1. CASE /\ UNCHANGED <<registry, copy, torn, wanted>>
           /\ \A u \in Threads : /\ pc'[u] = "write" <=> pc[u] = "write"
                                 /\ pc'[u] = "rewrite" <=> pc[u] = "rewrite"
  BY <1>1 DEF FileInv, InRegistry, Stored
<1>2. ASSUME NEW t \in Threads,
             ReadRegistry(t) \/ EmptyRegistry(t) \/ WriteRegistry(t) \/ Send(t)
      PROVE  /\ \A u \in Threads : u # t => pc'[u] = pc[u]
             /\ Other(t) \in Threads /\ \A u \in Threads : u = t \/ u = Other(t)
             /\ ~torn
  <2>1. ~torn
    BY <1>2 DEF ReadRegistry, EmptyRegistry, WriteRegistry, Send, files
  <2>2. PICK to : pc' = [pc EXCEPT ![t] = to]
    BY <1>2 DEF ReadRegistry, EmptyRegistry, WriteRegistry, Send, Go
  <2>3. QED
    BY <2>1, <2>2, Pair DEF TalkTypes
<1>3. ASSUME NEW t \in Threads, ReadRegistry(t)  PROVE FileInv'
  <2>1. /\ pc[t] = "handle" /\ pc'[t] = "write" /\ ~InRegistry(Other(t))
        /\ registry' = registry /\ wanted' = wanted
        /\ copy' = [copy EXCEPT ![t] = Stored]
    BY <1>3 DEF ReadRegistry, Go, Stored, TalkTypes
  <2>2. copy'[t] = Stored
    BY <2>1 DEF ListTypes
  <2>3. \A u \in Threads : u # t => ~InRegistry(u) /\ ~InRegistry(u)'
    BY <1>2, <1>3, <2>1 DEF InRegistry
  <2>4. AsSet(Stored) = wanted
    BY <1>2, <1>3, <2>1, <2>3 DEF FileInv, InRegistry
  <2>5. \A u \in Threads : pc'[u] # "rewrite"
    BY <2>1, <2>3 DEF InRegistry
  <2>6. Stored' = Stored
    BY <2>1 DEF Stored
  <2>7. QED
    BY <2>1, <2>2, <2>3, <2>4, <2>5, <2>6 DEF FileInv, AsSet
<1>4. ASSUME NEW t \in Threads, EmptyRegistry(t)  PROVE FileInv'
  <2>1. /\ pc[t] = "write" /\ pc'[t] = "rewrite" /\ ~registry'.good
        /\ copy' = copy /\ wanted' = wanted
    BY <1>4 DEF EmptyRegistry, Go, TalkTypes
  <2>2. \A u \in Threads : InRegistry(u)' <=> InRegistry(u)
    BY <1>2, <1>4, <2>1 DEF InRegistry
  <2>3. QED
    BY <1>2, <1>4, <2>1, <2>2 DEF FileInv
<1>5. ASSUME NEW t \in Threads, WriteRegistry(t)  PROVE FileInv'
  <2>1. /\ pc[t] = "rewrite" /\ pc'[t] = "send"
        /\ AsSet(registry'.list) = Asks(job[t].r, AsSet(copy[t]))
        /\ wanted' = Asks(job[t].r, wanted)
        /\ copy' = copy
        /\ registry'.good \/ registry'.list = <<>>
    <3>1. /\ pc[t] = "rewrite" /\ pc'[t] = "send" /\ copy' = copy
          /\ torn' = (torn \/ AsSet(registry'.list) # Asks(job[t].r, AsSet(copy[t])))
          /\ wanted' = IF torn' THEN {} ELSE Asks(job[t].r, wanted)
      BY <1>5 DEF WriteRegistry, Go, TalkTypes
    <3>2. registry'.good \/ registry'.list = <<>>
      BY <1>5 DEF WriteRegistry
    <3>3. QED
      BY <3>1, <3>2
  <2>2. \A u \in Threads : ~InRegistry(u)'
    BY <1>2, <1>5, <2>1 DEF FileInv, InRegistry
  <2>3. AsSet(copy[t]) = wanted
    BY <1>2, <1>5, <2>1 DEF FileInv, InRegistry
  <2>4. Stored' = registry'.list
    BY <2>1 DEF Stored
  <2>5. AsSet(Stored)' = wanted'
    BY <2>1, <2>3, <2>4 DEF AsSet
  <2>6. \A u \in Threads : pc'[u] # "rewrite"
    BY <2>2 DEF InRegistry
  <2>7. QED
    BY <2>2, <2>5, <2>6 DEF FileInv
<1>6. ASSUME NEW t \in Threads, Send(t)  PROVE FileInv'
  <2>1. /\ pc[t] = "send" /\ pc'[t] \notin {"write", "rewrite"}
        /\ UNCHANGED <<registry, wanted>>
        /\ copy' = [copy EXCEPT ![t] = <<>>]
    BY <1>6 DEF Send, Go, Idle, files, TalkTypes
  <2>2. \A u \in Threads : InRegistry(u)' <=> InRegistry(u)
    BY <1>2, <1>6, <2>1 DEF InRegistry
  <2>3. ~InRegistry(t) /\ \A u \in Threads : u # t => copy'[u] = copy[u]
    BY <2>1 DEF InRegistry, ListTypes
  <2>4. \A u \in Threads : pc'[u] = "rewrite" <=> pc[u] = "rewrite"
    BY <1>2, <1>6, <2>1
  <2>5. Stored' = Stored
    BY <2>1 DEF Stored
  <2>6. QED
    BY <1>2, <1>6, <2>1, <2>2, <2>3, <2>4, <2>5 DEF FileInv, AsSet
<1>7. QED
  BY <1>1, <1>3, <1>4, <1>5, <1>6, RegistryKinds
-----------------------------------------------------------------------------
IInv == TalkTypes /\ ListTypes /\ OwnInv /\ TwinInv /\ FileInv

(* Nobody is served, and nothing is registered. *)
LEMMA InitInv == Init => IInv
<1> SUFFICES ASSUME Init  PROVE IInv
  OBVIOUS
<1>1. TalkTypes
  BY RequestTypes DEF Init, TalkTypes, Makers, Idle, Threads, Stages, Waiting
<1>2. ListTypes
  BY DEF Init, ListTypes
<1>3. OwnInv
  BY DEF Init, OwnInv, Past, Holds, Idle, Working, Threads
<1>4. TwinInv
  BY DEF Init, TwinInv, NoTwinsIn
<1>5. FileInv
  BY DEF Init, FileInv, InRegistry, Idle, Stored, AsSet, Threads
<1>6. QED
  BY <1>1, <1>2, <1>3, <1>4, <1>5 DEF IInv

(* Every step keeps the invariant. *)
LEMMA NextInv == IInv /\ [Next]_vars => IInv'
<1> SUFFICES ASSUME IInv, [Next]_vars  PROVE IInv'
  OBVIOUS
<1>1. TalkTypes' /\ OwnInv'
  <2>1. CASE Idles
    BY <2>1 DEF Idles, IInv, TalkTypes, OwnInv, Past, Holds, Uri
  <2>2. CASE \E t \in Threads, to \in Stages : Step(t, to)
    BY <2>2, TalkStep, OwnStep DEF IInv
  <2>3. QED
    BY <2>1, <2>2, Kinds
<1>2. ListTypes' /\ TwinInv' /\ FileInv'
  BY ListStep, FileStep DEF IInv
<1>3. QED
  BY <1>1, <1>2 DEF IInv

(* handleRESTful(), restful.cpp: the response that a thread sends was made  *)
(* for its own request, unless the Context was shared meanwhile or moved.   *)
THEOREM AnswerCorrect == Spec => []AnswerOwn
<1>1. IInv => AnswerOwn
  BY DEF IInv, OwnInv, AnswerOwn
<1>2. QED
  BY InitInv, NextInv, <1>1, PTL DEF Spec

(* widgetRegistry(), widget_manager.hpp: whatever the two threads read and  *)
(* wrote, and however the writes overlapped, no registration is there twice.*)
THEOREM TwinsCorrect == Spec => []NoTwins
<1>1. IInv => NoTwins
  BY DEF IInv, TwinInv, NoTwinsIn, NoTwins
<1>2. QED
  BY InitInv, NextInv, <1>1, PTL DEF Spec

(* widgetRegistry(): a file that can be read holds what was asked for, as   *)
(* long as the requests did not overlap and no DELETE stepped past an entry.*)
THEOREM RegistryCorrect == Spec => []RegistryTrue
<1>1. IInv => RegistryTrue
  BY DEF IInv, FileInv, Stored, RegistryTrue
<1>2. QED
  BY InitInv, NextInv, <1>1, PTL DEF Spec
-----------------------------------------------------------------------------
(* Devices and applications *)

(* What an endpoint of this device holds once its application described it. *)
AppEntry(a) ==
  [id |-> got[a], profile |-> AppDesc[a].profile, out |-> AppDesc[a].out]

LocalEps == [id : Nat, profile : {0} \cup {AppDesc[a].profile : a \in Apps},
             out : {{}} \cup {AppDesc[a].out : a \in Apps}]
Entries  == [dev : Devs, addr : Addrs, desc : Described]

(* A Device object is free, or stands for a device. *)
Device(r) ==
  \/ r = Freed
  \/ /\ r = [ieee |-> r.ieee, addr |-> r.addr, eps |-> r.eps]
     /\ r.ieee \in Devs /\ r.addr \in Addrs

PeerTypes ==
  /\ loaded \in SUBSET Apps
  /\ got \in [Apps -> Nat \cup {None}]
  /\ zdo \in BOOLEAN
  /\ locals \in Seq(LocalEps)
  /\ archive \in Seq(Entries)
  /\ assocs \in Seq(Objs)
  /\ object = [o \in Objs |-> object[o]] /\ \A o \in Objs : Device(object[o])
  /\ uri \in [Addrs -> Objs \cup {None}]
  /\ told = [o \in Objs |-> told[o]]

(* Each of this device's endpoints is blank or described by an application;*)
(* each id that was given has an endpoint, and each application is, or     *)
(* shares the id of one that is, in the list.                              *)
LocalsInv ==
  /\ \A a \in loaded : got[a] # None
  /\ zdo => loaded = Apps
  /\ \A l \in ToSet(locals) :
       l = Blank(l.id) \/ \E a \in loaded : l = AppEntry(a)
  /\ \A a \in Apps : got[a] # None => EndpointExist(got[a])
  /\ \A a \in loaded : \E b \in loaded :
       got[b] = got[a] /\ AppEntry(b) \in ToSet(locals)

(* The list of devices holds devices, and endpoint 0 takes messages then. *)
DevicesInv ==
  /\ \A o \in ToSet(assocs) : object[o] # Freed
  /\ assocs # << >> => zdo

(* What AppHears and ShownTrue say of an endpoint. *)
HeardOf(o, e) ==
  IF told[o][e] = None
  THEN \A a \in Apps : Fits(a, object[o].eps[e].desc) =>
         \E b \in Apps \ {a} : got[b] = got[a]
  ELSE /\ \E a \in Apps :
            got[a] = told[o][e] /\ Fits(a, object[o].eps[e].desc)
       /\ uri[object[o].addr] = o
       /\ object[o].eps[e].peer = told[o][e]

(* The news are of endpoints that are there, and true. *)
NewsInv ==
  \A o \in Objs : \A e \in DOMAIN told[o] :
    e \in DOMAIN object[o].eps /\ zdo /\ HeardOf(o, e)

PeerInv == PeerTypes /\ LocalsInv /\ DevicesInv /\ NewsInv
-----------------------------------------------------------------------------
(* Lists of endpoints and devices *)

(* A nonempty set of naturals has a least element, and Min is it. *)
LEMMA MinIn ==
  ASSUME NEW S \in SUBSET Nat, S # {}
  PROVE  Min(S) \in S /\ \A y \in S : Min(S) <= y
<1> DEFINE R == {ss \in Nat \X Nat : ss[1] < ss[2]}
<1>1. IsWellFoundedOn(R, Nat)
  BY NatLessThanWellFounded DEF OpToRel
<1>2. \E x \in S : \A y \in S : ~ (<<y, x>> \in R)
  BY <1>1, WFMin
<1>3. \A x, y \in Nat : <<y, x>> \in R <=> y < x
  OBVIOUS
<1> HIDE DEF R
<1>4. \E x \in S : \A y \in S : x <= y
  <2>1. PICK x \in S : \A y \in S : ~ (<<y, x>> \in R)
    BY <1>2
  <2>2. ASSUME NEW y \in S  PROVE x <= y
    <3>1. x \in Nat /\ y \in Nat
      OBVIOUS
    <3>2. ~ (<<y, x>> \in R)
      BY <2>1
    <3>3. ~ (y < x)
      BY <1>3, <3>1, <3>2
    <3>4. QED
      BY <3>1, <3>3
  <2>3. QED
    BY <2>2
<1>5. QED
  BY <1>4 DEF Min

(* An element put in front of a list is one more element of it. *)
LEMMA InFront ==
  ASSUME NEW S, NEW list \in Seq(S), NEW x \in S
  PROVE  /\ <<x>> \o list \in Seq(S)
         /\ <<x>> \o list # << >>
         /\ ToSet(<<x>> \o list) = {x} \cup ToSet(list)
<1> DEFINE s == <<x>> \o list
<1>1. /\ s \in Seq(S) /\ Len(s) = Len(list) + 1 /\ Len(list) \in Nat
      /\ DOMAIN s = 1 .. Len(list) + 1 /\ DOMAIN list = 1 .. Len(list)
      /\ s[1] = x /\ \A i \in 1 .. Len(list) : s[i + 1] = list[i]
  OBVIOUS
<1> HIDE DEF s
<1>2. ToSet(s) \subseteq {x} \cup ToSet(list)
  <2> SUFFICES ASSUME NEW i \in 1 .. Len(list) + 1, i # 1  PROVE s[i] \in ToSet(list)
    BY <1>1 DEF ToSet
  <2>1. PICK k \in 1 .. Len(list) : i = k + 1
    <3>1. i - 1 \in 1 .. Len(list) /\ i = (i - 1) + 1
      BY <1>1
    <3>2. QED
      BY <3>1
  <2>2. QED
    BY <1>1, <2>1 DEF ToSet
<1>3. {x} \cup ToSet(list) \subseteq ToSet(s)
  <2>1. 1 \in DOMAIN s
    BY <1>1
  <2>2. \A i \in DOMAIN list : i + 1 \in DOMAIN s /\ s[i + 1] = list[i]
    BY <1>1
  <2>3. QED
    BY <1>1, <2>1, <2>2 DEF ToSet
<1>4. s # << >>
  BY <1>1
<1>5. QED
  BY <1>1, <1>2, <1>3, <1>4 DEF s

(* What is in a list. *)
LEMMA InList ==
  ASSUME NEW S, NEW list \in Seq(S)
  PROVE  /\ ToSet(list) \subseteq S
         /\ (list = << >>) <=> (ToSet(list) = {})
         /\ DOMAIN list \in SUBSET Nat /\ 0 \notin DOMAIN list
<1>1. DOMAIN list = 1 .. Len(list) /\ Len(list) \in Nat /\ \A i \in DOMAIN list : list[i] \in S
  OBVIOUS
<1>2. (list = << >>) <=> (ToSet(list) = {})
  <2>1. ASSUME list # << >>  PROVE ToSet(list) # {}
    <3>1. 1 \in DOMAIN list
      BY <1>1, <2>1
    <3>2. QED
      BY <3>1 DEF ToSet
  <2>2. ASSUME list = << >>  PROVE ToSet(list) = {}
    BY <2>2 DEF ToSet
  <2>3. QED
    BY <2>1, <2>2
<1>3. QED
  BY <1>1, <1>2 DEF ToSet
-----------------------------------------------------------------------------
(* What the archive keeps of a list of endpoints, and the pairing *)

(* A byte is made of its two digits. *)
LEMMA NibblesOfByte ==
  ASSUME NEW e \in 0 .. 255
  PROVE  /\ e \div 16 \in 0 .. 15 /\ e % 16 \in 0 .. 15
         /\ 16 * (e \div 16) + (e % 16) = e
<1>1. PICK n \in Int : n = e
  OBVIOUS
<1>2. n \div 16 \in Int /\ n % 16 \in 0 .. 15 /\ 16 * (n \div 16) + (n % 16) = n
  OBVIOUS
<1>3. ASSUME NEW h \in Int, NEW l \in 0 .. 15, 16 * h + l = n, n \in 0 .. 255
      PROVE  h \in 0 .. 15
  BY <1>3
<1>4. QED
  BY <1>1, <1>2, <1>3

(* A digit that is written is read. *)
LEMMA DigitKept ==
  \A n \in 0 .. 15 : kCharToInt(HexChar(n)) = n
<1> SUFFICES ASSUME NEW n \in 0 .. 15  PROVE kCharToInt(HexChar(n)) = n
  OBVIOUS
<1>1. CASE n < 10
  <2>1. HexChar(n) = 48 + n /\ HexChar(n) \in 48 .. 57
    BY <1>1 DEF HexChar
  <2>2. HexChar(n) \notin 65 .. 70 /\ HexChar(n) \notin 97 .. 102
    BY <2>1
  <2>3. kCharToInt(HexChar(n)) = HexChar(n) - 48
    BY <2>1, <2>2 DEF kCharToInt
  <2>4. QED
    BY <2>1, <2>3
<1>2. CASE ~ (n < 10)
  <2>1. HexChar(n) = 87 + n /\ HexChar(n) \in 97 .. 102
    BY <1>2 DEF HexChar
  <2>2. HexChar(n) \notin 48 .. 57 /\ HexChar(n) \notin 65 .. 70
    BY <2>1
  <2>3. kCharToInt(HexChar(n)) = HexChar(n) - 87
    BY <2>1, <2>2 DEF kCharToInt
  <2>4. QED
    BY <2>1, <2>3
<1>3. QED
  BY <1>1, <1>2

(* kByteToHexString() and hexStrToByteVec(), kutil: what is archived as      *)
(* hexadecimal text comes back, byte by byte and however many there are;     *)
(* what follows them is what lies behind the string.                         *)
THEOREM HexKept ==
  ASSUME HighFirst, NEW b \in Seq(0 .. 255)
  PROVE  LET v == hexStrToByteVec(kByteToHexString(b)) IN
         Len(v) = 2 * Len(b) /\ \A i \in 1 .. Len(b) : v[i] = b[i]
<1> DEFINE s == kByteToHexString(b)
           v == hexStrToByteVec(s)
           n == Len(b)
<1>1. n \in Nat /\ \A i \in 1 .. n : b[i] \in 0 .. 255
  <2>1. PICK S : S = 0 .. 255
    OBVIOUS
  <2>2. b \in Seq(S)
    BY <2>1
  <2>3. Len(b) \in Nat /\ \A i \in 1 .. Len(b) : b[i] \in S
    BY <2>2
  <2>4. QED
    BY <2>1, <2>3
<1>2. s = [i \in 1 .. 2 * n |->
             LET byte == b[(i + 1) \div 2]
             IN  HexChar(IF i % 2 = 1 THEN byte \div 16 ELSE byte % 16)]
  BY DEF kByteToHexString
<1> HIDE DEF s, n
<1>3. ASSUME NEW i \in 1 .. n
      PROVE  /\ s[2 * i - 1] = HexChar(b[i] \div 16)
             /\ s[2 * i] = HexChar(b[i] % 16)
  <2>1. /\ 2 * i - 1 \in 1 .. 2 * n /\ ((2 * i - 1) + 1) \div 2 = i /\ (2 * i - 1) % 2 = 1
        /\ 2 * i \in 1 .. 2 * n /\ ((2 * i) + 1) \div 2 = i /\ (2 * i) % 2 # 1
    BY <1>1
  <2>2. QED
    BY <1>2, <2>1
<1>4. Len(s) = 2 * n /\ (2 * n) % 2 # 1
  <2>1. 2 * n \in Nat
    BY <1>1
  <2>2. QED
    BY <1>1, <1>2, <2>1
<1>5. v = [i \in 1 .. 2 * n |->
             IF 2 * i > 2 * n THEN Junk
             ELSE Byte(16 * kCharToInt(s[2 * i - 1]) + kCharToInt(s[2 * i]))]
  BY <1>4 DEF hexStrToByteVec
<1> HIDE DEF v
<1>6. ASSUME NEW i \in 1 .. n  PROVE v[i] = b[i]
  <2> DEFINE h == b[i] \div 16
             l == b[i] % 16
  <2>1. h \in 0 .. 15 /\ l \in 0 .. 15 /\ 16 * h + l = b[i] /\ b[i] \in 0 .. 255
    BY <1>1, NibblesOfByte
  <2>2. s[2 * i - 1] = HexChar(h) /\ s[2 * i] = HexChar(l)
    BY <1>3
  <2> HIDE DEF h, l
  <2>3. i \in 1 .. 2 * n /\ ~ (2 * i > 2 * n)
    BY <1>1
  <2>4. v[i] = Byte(16 * h + l)
    <3>1. v[i] = Byte(16 * kCharToInt(s[2 * i - 1]) + kCharToInt(s[2 * i]))
      BY ONLY <1>5, <2>3
    <3>2. h \in 0 .. 15 /\ l \in 0 .. 15
      BY ONLY <2>1
    <3>3. kCharToInt(HexChar(h)) = h
      BY ONLY <3>2, DigitKept, Zenon
    <3>4. kCharToInt(HexChar(l)) = l
      BY ONLY <3>2, DigitKept, Zenon
    <3>5. QED
      BY ONLY <2>2, <3>1, <3>3, <3>4
  <2>5. QED
    BY <2>1, <2>4 DEF Byte
<1>7. Len(v) = 2 * n
  BY <1>1, <1>5
<1>8. QED
  BY <1>6, <1>7 DEF v, s, n
-----------------------------------------------------------------------------
(* Induction and recursion: a set of numbers that has 0 and with every       *)
(* number the next has them all.                                             *)
LEMMA AllNumbers ==
  ASSUME NEW S \in SUBSET Nat, 0 \in S, \A n \in S : n + 1 \in S
  PROVE  S = Nat
<1> SUFFICES ASSUME Nat \ S # {}  PROVE FALSE
  OBVIOUS
<1>1. PICK m \in Nat \ S : \A y \in Nat \ S : m <= y
  BY MinIn
<1>2. m # 0
  OBVIOUS
<1>3. m - 1 \in Nat /\ ~ (m <= m - 1) /\ (m - 1) + 1 = m
  BY <1>2
<1>4. m - 1 \in S
  BY <1>1, <1>3
<1>5. QED
  BY <1>3, <1>4

(* Some g begins with a and makes each value of the one before. *)
Recursive(V, a, F, n) ==
  \E g \in [0 .. n -> V] : g[0] = a /\ \A k \in 1 .. n : g[k] = F[<<k, g[k - 1]>>]

(* Such a function there is, whatever F makes of the index and the value. *)
LEMMA Recursion ==
  ASSUME NEW V, NEW a \in V, NEW F \in [Nat \X V -> V], NEW n \in Nat
  PROVE  Recursive(V, a, F, n)
<1> DEFINE Made(m, g) == g[0] = a /\ \A k \in 1 .. m : g[k] = F[<<k, g[k - 1]>>]
           S == {m \in Nat : \E g \in [0 .. m -> V] : Made(m, g)}
<1>1. 0 \in S
  <2>1. Made(0, [k \in 0 .. 0 |-> a])
    OBVIOUS
  <2>2. [k \in 0 .. 0 |-> a] \in [0 .. 0 -> V]
    OBVIOUS
  <2>3. QED
    BY <2>1, <2>2
<1>2. ASSUME NEW m \in S  PROVE m + 1 \in S
  <2>1. PICK g \in [0 .. m -> V] : Made(m, g)
    OBVIOUS
  <2> DEFINE h == [k \in 0 .. m + 1 |-> IF k = m + 1 THEN F[<<m + 1, g[m]>>] ELSE g[k]]
  <2>2. h \in [0 .. m + 1 -> V]
    OBVIOUS
  <2>3. h[0] = a
    BY <2>1
  <2>4. ASSUME NEW k \in 1 .. m + 1  PROVE h[k] = F[<<k, h[k - 1]>>]
    <3>1. CASE k = m + 1
      <4>1. k - 1 = m /\ m \in 0 .. m + 1 /\ m # m + 1
        BY <3>1
      <4>2. h[k] = F[<<m + 1, g[m]>>] /\ h[m] = g[m]
        BY <3>1, <4>1
      <4>3. QED
        BY <3>1, <4>1, <4>2
    <3>2. CASE k # m + 1
      <4>1. k \in 1 .. m /\ k - 1 \in 0 .. m /\ k - 1 # m + 1
        BY <3>2
      <4>2. h[k] = g[k] /\ h[k - 1] = g[k - 1]
        BY <3>2, <4>1
      <4>3. QED
        BY <2>1, <4>1, <4>2
    <3>3. QED
      BY <3>1, <3>2
  <2> HIDE DEF h
  <2>5. Made(m + 1, h)
    BY <2>3, <2>4
  <2> HIDE DEF Made
  <2>6. QED
    BY <2>2, <2>5
<1> HIDE DEF S
<1>3. S = Nat
  <2>1. S \in SUBSET Nat
    BY DEF S
  <2>2. QED
    BY <1>1, <1>2, <2>1, AllNumbers
<1>4. QED
  BY <1>3 DEF S, Recursive

(* What is left of x when ToBytes() has taken one byte after the other off.  *)
Left(x, n, h) ==
  /\ h[0] = x /\ \A k \in 1 .. n : h[k] = h[k - 1] \div 256
  /\ ToBytes(x, n) = [i \in 1 .. n |-> Byte(h[i - 1])]

(* That much is left. *)
LEMMA HighPart ==
  ASSUME NEW x \in Nat, NEW n \in Nat
  PROVE  \E h \in [0 .. n -> Nat] : Left(x, n, h)
<1> DEFINE high[k \in 0 .. n] == IF k = 0 THEN x ELSE high[k - 1] \div 256
           F == [p \in Nat \X Nat |-> p[2] \div 256]
<1>1. F \in [Nat \X Nat -> Nat]
  BY \A y \in Nat : y \div 256 \in Nat
<1>2. PICK g \in [0 .. n -> Nat] : g[0] = x /\ \A k \in 1 .. n : g[k] = F[<<k, g[k - 1]>>]
  <2> HIDE DEF F
  <2>1. Recursive(Nat, x, F, n)
    BY <1>1, Recursion
  <2>2. QED
    BY <2>1 DEF Recursive
<1>3. g = [k \in 0 .. n |-> IF k = 0 THEN x ELSE g[k - 1] \div 256]
  <2>1. ASSUME NEW k \in 1 .. n  PROVE g[k] = g[k - 1] \div 256
    <3>1. <<k, g[k - 1]>> \in Nat \X Nat
      OBVIOUS
    <3>2. QED
      BY <1>2, <3>1
  <2>2. QED
    BY <1>2, <2>1
<1>4. high = [k \in 0 .. n |-> IF k = 0 THEN x ELSE high[k - 1] \div 256]
  <2>1. \E h : h = [k \in 0 .. n |-> IF k = 0 THEN x ELSE h[k - 1] \div 256]
    BY <1>3
  <2>2. QED
    BY <2>1
<1>5. ToBytes(x, n) = [i \in 1 .. n |-> Byte(high[i - 1])]
  BY DEF ToBytes
<1> HIDE DEF high, F
<1> DEFINE S == {k \in Nat : k <= n => high[k] = g[k]}
<1>6. S = Nat
  <2>1. 0 \in S
    BY <1>2, <1>4
  <2>2. ASSUME NEW k \in S  PROVE k + 1 \in S
    <3> SUFFICES ASSUME k + 1 <= n  PROVE high[k + 1] = g[k + 1]
      OBVIOUS
    <3>1. k + 1 \in 0 .. n /\ k + 1 # 0 /\ (k + 1) - 1 = k /\ k <= n
      OBVIOUS
    <3>2. high[k + 1] = high[k] \div 256 /\ g[k + 1] = g[k] \div 256
      BY <1>3, <1>4, <3>1
    <3>3. QED
      BY <3>1, <3>2
  <2> HIDE DEF S
  <2>3. S \in SUBSET Nat
    BY DEF S
  <2>4. QED
    BY <2>1, <2>2, <2>3, AllNumbers
<1>7. high = g
  <2>1. \A k \in 0 .. n : high[k] = g[k]
    BY <1>6
  <2>2. high = [k \in 0 .. n |-> high[k]] /\ g = [k \in 0 .. n |-> g[k]]
    BY <1>4
  <2>3. QED
    BY <2>1, <2>2
<1>8. \A k \in 1 .. n : g[k] = g[k - 1] \div 256
  BY <1>3
<1>9. QED
  BY <1>2, <1>5, <1>7, <1>8 DEF Left

(* What a fold that adds up bytes has at each set of indices. *)
Adding(b, n, it) ==
  \A s \in SUBSET (1 .. n) :
    it[s] = IF s = {} THEN 0 ELSE b[Min(s)] + 256 * it[s \ {Min(s)}]

(* There is a function that adds one byte after the other from the last. *)
LEMMA Folded ==
  ASSUME NEW b, NEW n \in Nat, b \in [1 .. n -> Nat]
  PROVE  \E it \in [SUBSET (1 .. n) -> Nat] : Adding(b, n, it)
<1> DEFINE Folds(m, it) == \A s \in SUBSET (m .. n) :
             it[s] = IF s = {} THEN 0 ELSE b[Min(s)] + 256 * it[s \ {Min(s)}]
           There(j) == \E it \in [SUBSET (n + 1 - j .. n) -> Nat] : Folds(n + 1 - j, it)
           S == {j \in Nat : j <= n => There(j)}
<1>1. 0 \in S
  <2> DEFINE it == [s \in SUBSET (n + 1 - 0 .. n) |-> 0]
  <2>1. n + 1 - 0 .. n = {}
    OBVIOUS
  <2>2. it \in [SUBSET (n + 1 - 0 .. n) -> Nat] /\ it[{}] = 0
    OBVIOUS
  <2> HIDE DEF it
  <2>3. Folds(n + 1 - 0, it)
    BY <2>1, <2>2
  <2> HIDE DEF Folds
  <2>4. There(0)
    BY <2>2, <2>3
  <2> HIDE DEF There
  <2>5. QED
    BY <2>4
<1>2. ASSUME NEW j \in S  PROVE j + 1 \in S
  <2> HIDE DEF Folds, There
  <2>0. j \in Nat /\ (j <= n => There(j))
    OBVIOUS
  <2> SUFFICES ASSUME j + 1 <= n  PROVE There(j + 1)
    BY <2>0
  <2> DEFINE m == n - j
  <2>1. m \in 1 .. n /\ n + 1 - (j + 1) = m /\ n + 1 - j = m + 1 /\ j <= n
    BY <2>0
  <2> HIDE DEF m
  <2>2. PICK f \in [SUBSET (m + 1 .. n) -> Nat] : Folds(m + 1, f)
    BY <2>0, <2>1 DEF There
  <2> DEFINE g == [s \in SUBSET (m .. n) |-> IF m \in s THEN b[m] + 256 * f[s \ {m}] ELSE f[s]]
  <2>3. \A s \in SUBSET (m .. n) : s \ {m} \in SUBSET (m + 1 .. n) /\ (m \notin s => s \in SUBSET (m + 1 .. n))
    BY <2>1
  <2>4. b[m] \in Nat
    BY <2>1
  <2>5. g \in [SUBSET (m .. n) -> Nat]
    <3>1. ASSUME NEW s \in SUBSET (m .. n)  PROVE g[s] \in Nat
      <4>1. CASE m \in s
        <5>1. f[s \ {m}] \in Nat
          BY <2>3
        <5>2. QED
          BY <4>1, <5>1, <2>4
      <4>2. CASE m \notin s
        BY <2>3, <4>2
      <4>3. QED
        BY <4>1, <4>2
    <3>2. QED
      BY <3>1
  <2>6. ASSUME NEW s \in SUBSET (m .. n)
        PROVE  g[s] = IF s = {} THEN 0 ELSE b[Min(s)] + 256 * g[s \ {Min(s)}]
    <3>1. CASE m \in s
      <4>1. Min(s) \in s /\ \A y \in s : Min(s) <= y
        <5>1. s \in SUBSET Nat /\ s # {}
          BY <2>1, <3>1
        <5>2. QED
          BY <5>1, MinIn
      <4>2. Min(s) = m
        <5>1. Min(s) \in m .. n /\ Min(s) <= m
          BY <3>1, <4>1
        <5>2. QED
          BY <2>1, <5>1
      <4>3. s \ {m} \in SUBSET (m .. n) /\ m \notin s \ {m}
        OBVIOUS
      <4>4. g[s] = b[m] + 256 * f[s \ {m}] /\ g[s \ {m}] = f[s \ {m}]
        BY <3>1, <4>3
      <4>5. QED
        BY <3>1, <4>2, <4>4
    <3>2. CASE m \notin s
      <4>1. s \in SUBSET (m + 1 .. n) /\ g[s] = f[s]
        BY <2>3, <3>2
      <4>2. s \ {Min(s)} \in SUBSET (m .. n) /\ m \notin s \ {Min(s)}
        BY <3>2
      <4>3. g[s \ {Min(s)}] = f[s \ {Min(s)}]
        BY <4>2
      <4>4. f[s] = IF s = {} THEN 0 ELSE b[Min(s)] + 256 * f[s \ {Min(s)}]
        BY <2>2, <4>1 DEF Folds
      <4>5. QED
        BY <4>1, <4>3, <4>4
    <3>3. QED
      BY <3>1, <3>2
  <2> HIDE DEF g
  <2>7. Folds(m, g)
    BY <2>6 DEF Folds
  <2> HIDE DEF Folds
  <2>8. QED
    BY <2>1, <2>5, <2>7 DEF There
<1> HIDE DEF S
<1>3. n \in S
  <2>1. S \in SUBSET Nat
    BY DEF S
  <2>2. S = Nat
    BY <1>1, <1>2, <2>1, AllNumbers
  <2>3. QED
    BY <2>2
<1> HIDE DEF Folds, There
<1>4. PICK it \in [SUBSET (n + 1 - n .. n) -> Nat] : Folds(n + 1 - n, it)
  <2>1. There(n)
    BY <1>3 DEF S
  <2>2. QED
    BY <2>1 DEF There
<1>5. n + 1 - n = 1
  OBVIOUS
<1>6. it \in [SUBSET (1 .. n) -> Nat] /\ Folds(1, it)
  BY <1>4, <1>5
<1>7. QED
  BY <1>6 DEF Folds, Adding

(* What FromBytes() has added up from each byte to the last. *)
Added(b, n, v) ==
  /\ v[n + 1] = 0 /\ \A k \in 1 .. n : v[k] = b[k] + 256 * v[k + 1]
  /\ FromBytes(b) = v[1]

(* That much it has. *)
LEMMA AddedUp ==
  ASSUME NEW n \in Nat, NEW b \in [1 .. n -> Nat]
  PROVE  \E v \in [1 .. n + 1 -> Nat] : Added(b, n, v)
<1> DEFINE iter[s \in SUBSET (DOMAIN b)] ==
             IF s = {} THEN 0 ELSE LET x == Min(s) IN b[x] + 256 * iter[s \ {x}]
           Rule(it, s) == IF s = {} THEN 0 ELSE b[Min(s)] + 256 * it[s \ {Min(s)}]
<1>1. FromBytes(b) = iter[DOMAIN b]
  BY DEF FromBytes, FoldRight, MapThenFoldSet
<1>2. PICK it \in [SUBSET (1 .. n) -> Nat] : \A s \in SUBSET (1 .. n) : it[s] = Rule(it, s)
  <2>1. \E it \in [SUBSET (1 .. n) -> Nat] : Adding(b, n, it)
    BY Folded
  <2>2. QED
    BY <2>1 DEF Adding
<1>3. DOMAIN b = 1 .. n
  OBVIOUS
<1>4. iter = [s \in SUBSET (DOMAIN b) |-> Rule(iter, s)]
  <2>1. it = [s \in SUBSET (DOMAIN b) |-> Rule(it, s)]
    <3> HIDE DEF Rule
    <3>1. QED
      BY <1>2, <1>3
  <2>2. \E f : f = [s \in SUBSET (DOMAIN b) |-> Rule(f, s)]
    BY <2>1
  <2>3. QED
    BY <2>2
<1> HIDE DEF iter
<1> DEFINE v == [k \in 1 .. n + 1 |-> iter[k .. n]]
<1>5. \A s \in SUBSET (1 .. n) : iter[s] = Rule(iter, s)
  <2> HIDE DEF Rule
  <2>1. QED
    BY <1>3, <1>4
<1>6. v[n + 1] = 0
  <2>1. n + 1 .. n = {} /\ n + 1 \in 1 .. n + 1
    OBVIOUS
  <2>2. {} \in SUBSET (1 .. n)
    OBVIOUS
  <2>3. iter[{}] = 0
    BY <1>5, <2>2
  <2>4. QED
    BY <2>1, <2>3
<1>7. ASSUME NEW k \in 1 .. n  PROVE v[k] = b[k] + 256 * v[k + 1]
  <2>0. k .. n # {}
    <3>1. k \in k .. n
      OBVIOUS
    <3>2. QED
      BY <3>1
  <2>1. k .. n \in SUBSET (1 .. n) /\ (k .. n) \ {k} = k + 1 .. n
    OBVIOUS
  <2>2. Min(k .. n) = k
    <3>1. PICK m : m = Min(k .. n)
      OBVIOUS
    <3>2. m \in k .. n /\ \A y \in k .. n : m <= y
      <4>1. k .. n \in SUBSET Nat
        OBVIOUS
      <4>2. QED
        BY <2>0, <3>1, <4>1, MinIn
    <3>3. m <= k
      BY <3>2
    <3>4. QED
      BY <3>1, <3>2, <3>3
  <2>3. iter[k .. n] = b[k] + 256 * iter[k + 1 .. n]
    <3>1. iter[k .. n] = Rule(iter, k .. n)
      BY <1>5, <2>1
    <3>2. QED
      BY ONLY <2>0, <2>1, <2>2, <3>1
  <2>4. k \in 1 .. n + 1 /\ k + 1 \in 1 .. n + 1
    OBVIOUS
  <2>5. QED
    BY <2>3, <2>4
<1>8. v[1] = FromBytes(b)
  BY <1>1, <1>3
<1>9. v \in [1 .. n + 1 -> Nat]
  <2> HIDE DEF v
  <2> DEFINE S == {j \in Nat : j <= n => v[n + 1 - j] \in Nat}
  <2>1. 0 \in S
    BY <1>6
  <2>2. ASSUME NEW j \in S  PROVE j + 1 \in S
    <3> SUFFICES ASSUME j + 1 <= n  PROVE v[n + 1 - (j + 1)] \in Nat
      OBVIOUS
    <3> DEFINE k == n - j
    <3>1. k \in 1 .. n /\ n + 1 - (j + 1) = k /\ n + 1 - j = k + 1 /\ j <= n
      OBVIOUS
    <3>2. v[k + 1] \in Nat
      BY <3>1
    <3> HIDE DEF k
    <3>3. b[k] \in Nat
      BY <3>1
    <3>4. QED
      <4>1. v[k] = b[k] + 256 * v[k + 1]
        BY <1>7, <3>1
      <4>2. QED
        BY <3>1, <3>2, <3>3, <4>1
  <2> HIDE DEF S
  <2>3. S = Nat
    <3>1. S \in SUBSET Nat
      BY DEF S
    <3>2. QED
      BY <2>1, <2>2, <3>1, AllNumbers
  <2>4. ASSUME NEW k \in 1 .. n + 1  PROVE v[k] \in Nat
    <3>1. CASE k = n + 1
      BY <1>6, <3>1
    <3>2. CASE k # n + 1
      <4>1. n + 1 - k \in Nat /\ n + 1 - k <= n /\ n + 1 - (n + 1 - k) = k
        BY <3>2
      <4>2. QED
        <5>1. PICK j \in Nat : j = n + 1 - k
          BY <4>1
        <5>2. v[n + 1 - j] \in Nat
          <6>1. j \in S /\ j <= n
            BY <2>3, <4>1, <5>1
          <6>2. QED
            BY ONLY <6>1 DEF S
        <5>3. QED
          BY <4>1, <5>1, <5>2
    <3>3. QED
      BY <3>1, <3>2
  <2>5. v = [k \in 1 .. n + 1 |-> v[k]]
    BY DEF v
  <2>6. QED
    BY <2>4, <2>5
<1> HIDE DEF v
<1>10. QED
  BY <1>6, <1>7, <1>8, <1>9 DEF Added

(* The number fits into n bytes: the powers of 256 that fields have. *)
Fitting(x, n) ==
  \/ n >= 1 /\ x < 256
  \/ n >= 2 /\ x < 65536
  \/ n >= 4 /\ x < 4294967296

(* hostIntToANSI(), kIntToMem() and the getters: a number that fits is read  *)
(* as it was written, whatever the width.                                    *)
THEOREM IntKept ==
  ASSUME NEW n \in Nat, NEW x \in Nat, Fitting(x, n)
  PROVE  FromBytes(ToBytes(x, n)) = x
<1>1. PICK h \in [0 .. n -> Nat] :
        /\ h[0] = x /\ \A k \in 1 .. n : h[k] = h[k - 1] \div 256
        /\ ToBytes(x, n) = [i \in 1 .. n |-> Byte(h[i - 1])]
  <2>1. \E h \in [0 .. n -> Nat] : Left(x, n, h)
    BY HighPart
  <2>2. QED
    BY <2>1 DEF Left
<1> DEFINE b == [i \in 1 .. n |-> Byte(h[i - 1])]
<1>2. b \in [1 .. n -> Nat] /\ \A i \in 1 .. n : b[i] = h[i - 1] % 256
  <2>1. ASSUME NEW i \in 1 .. n  PROVE b[i] = h[i - 1] % 256 /\ b[i] \in Nat
    <3>1. h[i - 1] \in Nat
      OBVIOUS
    <3>2. h[i - 1] % 256 \in Nat
      BY <3>1
    <3>3. QED
      BY <3>2 DEF Byte
  <2>2. QED
    BY <2>1
<1> HIDE DEF b
<1>3. PICK v \in [1 .. n + 1 -> Nat] :
        /\ v[n + 1] = 0 /\ \A k \in 1 .. n : v[k] = b[k] + 256 * v[k + 1]
        /\ FromBytes(b) = v[1]
  <2>1. \E v \in [1 .. n + 1 -> Nat] : Added(b, n, v)
    BY <1>2, AddedUp
  <2>2. QED
    BY <2>1 DEF Added
<1>4. h[n] = 0
  <2>1. ASSUME NEW k \in 1 .. n, NEW y \in Nat, h[k - 1] < 256 * y  PROVE h[k] < y
    <3>1. PICK z \in Nat : z = h[k - 1]
      OBVIOUS
    <3>2. z \div 256 < y
      BY <2>1, <3>1
    <3>3. QED
      BY <1>1, <3>1, <3>2
  <2>2. ASSUME NEW m \in 0 .. n, h[m] < 1  PROVE h[n] = 0
    <3> DEFINE S == {j \in Nat : m + j <= n => h[m + j] < 1}
    <3>1. 0 \in S
      BY <2>2
    <3>2. ASSUME NEW j \in S  PROVE j + 1 \in S
      <4> SUFFICES ASSUME m + (j + 1) <= n  PROVE h[m + (j + 1)] < 1
        OBVIOUS
      <4>1. PICK k \in 1 .. n : k = m + (j + 1)
        OBVIOUS
      <4>2. m + j = k - 1 /\ m + j <= n
        BY <4>1
      <4>3. h[k - 1] < 256 * 1
        <5>1. h[m + j] < 1 /\ h[m + j] \in Nat
          BY <4>2
        <5>2. h[k - 1] = h[m + j]
          BY <4>2
        <5>3. QED
          BY ONLY <5>1, <5>2
      <4>4. QED
        BY <2>1, <4>1, <4>3
    <3>3. S = Nat
      <4> HIDE DEF S
      <4>1. S \in SUBSET Nat
        BY DEF S
      <4>2. QED
        BY <3>1, <3>2, <4>1, AllNumbers
    <3>4. n - m \in Nat /\ m + (n - m) = n
      OBVIOUS
    <3> HIDE DEF S
    <3>5. h[n] < 1 /\ h[n] \in Nat
      <4>1. PICK j \in Nat : j = n - m
        BY <3>4
      <4>2. j \in S /\ m + j = n
        BY <3>3, <3>4, <4>1
      <4>3. m + j <= n => h[m + j] < 1
        BY ONLY <4>2 DEF S
      <4>4. h[n] < 1
        <5>1. m + j <= n
          BY <4>2
        <5>2. QED
          BY ONLY <4>2, <4>3, <5>1
      <4>5. QED
        BY <4>4
    <3>6. QED
      BY <3>5
  <2>3. CASE n >= 1 /\ x < 256
    BY <1>1, <2>1, <2>2, <2>3
  <2>4. CASE n >= 2 /\ x < 65536
    <3>1. h[1] < 256
      BY <1>1, <2>1, <2>4
    <3>2. h[2] < 1
      BY <2>1, <2>4, <3>1
    <3>3. QED
      BY <2>2, <2>4, <3>2
  <2>5. CASE n >= 4 /\ x < 4294967296
    <3>1. h[1] < 16777216
      BY <1>1, <2>1, <2>5
    <3>2. h[2] < 65536
      BY <2>1, <2>5, <3>1
    <3>3. h[3] < 256
      BY <2>1, <2>5, <3>2
    <3>4. h[4] < 1
      BY <2>1, <2>5, <3>3
    <3>5. QED
      BY <2>2, <2>5, <3>4
  <2>6. QED
    BY <2>3, <2>4, <2>5 DEF Fitting
<1> DEFINE S == {j \in Nat : j <= n => v[n + 1 - j] = h[n - j]}
<1>5. 0 \in S
  BY <1>3, <1>4
<1>6. ASSUME NEW j \in S  PROVE j + 1 \in S
  <2> SUFFICES ASSUME j + 1 <= n  PROVE v[n + 1 - (j + 1)] = h[n - (j + 1)]
    OBVIOUS
  <2>1. PICK k \in 1 .. n : k = n - j
    OBVIOUS
  <2>2. /\ n + 1 - (j + 1) = k /\ n - (j + 1) = k - 1
        /\ n + 1 - j = k + 1 /\ n - j = k /\ j <= n
    BY <2>1
  <2>3. v[k + 1] = h[k]
    BY <2>2
  <2>4. PICK y \in Nat : y = h[k - 1]
    OBVIOUS
  <2>5. v[k] = (y % 256) + 256 * (y \div 256)
    BY <1>1, <1>2, <1>3, <2>3, <2>4
  <2>6. (y % 256) + 256 * (y \div 256) = y
    OBVIOUS
  <2>7. QED
    BY <2>2, <2>4, <2>5, <2>6
<1> HIDE DEF S
<1>7. S = Nat
  <2>1. S \in SUBSET Nat
    BY DEF S
  <2>2. QED
    BY <1>5, <1>6, <2>1, AllNumbers
<1>8. v[1] = h[0]
  <2>1. n \in S
    BY <1>7
  <2>2. v[n + 1 - n] = h[n - n] /\ n + 1 - n = 1 /\ n - n = 0
    BY <2>1 DEF S
  <2>3. QED
    BY <2>2
<1>9. QED
  BY <1>1, <1>3, <1>8 DEF b

(* They are bytes, and as many as asked for. *)
LEMMA BytesOf ==
  ASSUME NEW x \in Nat, NEW n \in Nat
  PROVE  ToBytes(x, n) \in Seq(Octet) /\ Len(ToBytes(x, n)) = n
<1>1. PICK h \in [0 .. n -> Nat] : Left(x, n, h)
  BY HighPart
<1>2. ToBytes(x, n) = [i \in 1 .. n |-> Byte(h[i - 1])]
  BY <1>1 DEF Left
<1>3. ASSUME NEW i \in 1 .. n  PROVE Byte(h[i - 1]) \in Octet
  <2>1. PICK y \in Nat : y = h[i - 1]
    OBVIOUS
  <2>2. y % 256 \in Octet
    BY DEF Octet
  <2>3. QED
    BY <2>1, <2>2 DEF Byte
<1>4. ToBytes(x, n) \in [1 .. n -> Octet]
  BY ONLY <1>2, <1>3
<1>5. QED
  BY ONLY <1>4, n \in Nat

(* One byte is itself. *)
LEMMA OneByte ==
  ASSUME NEW x \in 0 .. 255
  PROVE  ToBytes(x, 1) = <<x>>
<1>1. PICK h \in [0 .. 1 -> Nat] : Left(x, 1, h)
  <2>1. x \in Nat /\ 1 \in Nat
    OBVIOUS
  <2>2. QED
    BY ONLY <2>1, HighPart
<1>2. ToBytes(x, 1) = [i \in 1 .. 1 |-> Byte(h[i - 1])] /\ h[0] = x
  BY <1>1 DEF Left
<1>3. Byte(h[0]) = x
  BY <1>2 DEF Byte
<1>4. QED
  BY <1>2, <1>3

(* The bytes s stand in b behind the first p. *)
Has(b, p, s) == p + Len(s) <= Len(b) /\ \A i \in 1 .. Len(s) : b[p + i] = s[i]

(* A sequence has itself, and what it has it has where a part of it starts. *)
LEMMA HasSelf ==
  ASSUME NEW b \in Seq(Octet)
  PROVE  Has(b, 0, b)
<1>1. Len(b) \in Nat
  OBVIOUS
<1>2. \A i \in 1 .. Len(b) : b[0 + i] = b[i]
  BY <1>1
<1>3. QED
  BY <1>1, <1>2 DEF Has

(* What has two parts one behind the other has each of them. *)
LEMMA HasParts ==
  ASSUME NEW b \in Seq(Octet), NEW p \in Nat, NEW s \in Seq(Octet), NEW t \in Seq(Octet),
         Has(b, p, s \o t)
  PROVE  Has(b, p, s) /\ Has(b, p + Len(s), t)
<1>1. /\ Len(s \o t) = Len(s) + Len(t) /\ Len(s) \in Nat /\ Len(t) \in Nat /\ Len(b) \in Nat
      /\ \A i \in 1 .. Len(s) : (s \o t)[i] = s[i]
      /\ \A i \in 1 .. Len(t) : (s \o t)[Len(s) + i] = t[i]
  OBVIOUS
<1>2. p + (Len(s) + Len(t)) <= Len(b) /\ \A i \in 1 .. Len(s) + Len(t) : b[p + i] = (s \o t)[i]
  BY <1>1 DEF Has
<1>3. ASSUME NEW i \in 1 .. Len(s)  PROVE b[p + i] = s[i]
  <2>1. i \in 1 .. Len(s) + Len(t)
    BY <1>1
  <2>2. QED
    BY <1>1, <1>2, <2>1
<1>4. ASSUME NEW i \in 1 .. Len(t)  PROVE b[p + Len(s) + i] = t[i]
  <2>1. Len(s) + i \in 1 .. Len(s) + Len(t) /\ p + (Len(s) + i) = p + Len(s) + i
    BY <1>1
  <2>2. b[p + (Len(s) + i)] = (s \o t)[Len(s) + i]
    BY <1>2, <2>1
  <2>3. QED
    BY <1>1, <2>1, <2>2
<1>5. p + Len(s) <= Len(b) /\ (p + Len(s)) + Len(t) <= Len(b)
  BY <1>1, <1>2
<1>6. QED
  BY <1>3, <1>4, <1>5 DEF Has

(* What a sequence has it has when something follows, and that behind it. *)
LEMMA HasMore ==
  ASSUME NEW b \in Seq(Octet), NEW t \in Seq(Octet)
  PROVE  /\ b \o t \in Seq(Octet) /\ Len(b \o t) = Len(b) + Len(t)
         /\ Has(b \o t, Len(b), t)
         /\ \A p \in Nat : \A s \in Seq(Octet) : Has(b, p, s) => Has(b \o t, p, s)
<1>1. /\ b \o t \in Seq(Octet) /\ Len(b \o t) = Len(b) + Len(t)
      /\ Len(b) \in Nat /\ Len(t) \in Nat
      /\ \A i \in 1 .. Len(b) : (b \o t)[i] = b[i]
      /\ \A i \in 1 .. Len(t) : (b \o t)[Len(b) + i] = t[i]
  OBVIOUS
<1>2. Has(b \o t, Len(b), t)
  BY <1>1 DEF Has
<1>3. ASSUME NEW p \in Nat, NEW s \in Seq(Octet), Has(b, p, s)  PROVE Has(b \o t, p, s)
  <2>1. Len(s) \in Nat /\ p + Len(s) <= Len(b) /\ \A i \in 1 .. Len(s) : b[p + i] = s[i]
    BY <1>3 DEF Has
  <2>2. \A i \in 1 .. Len(s) : p + i \in 1 .. Len(b)
    BY <1>1, <2>1
  <2>3. \A i \in 1 .. Len(s) : (b \o t)[p + i] = s[i]
    BY <1>1, <2>1, <2>2
  <2>4. p + Len(s) <= Len(b \o t)
    BY <1>1, <2>1
  <2>5. QED
    BY <2>3, <2>4 DEF Has
<1>4. QED
  BY <1>1, <1>2, <1>3

(* Where s stands it is found. *)
LEMMA HasFound ==
  ASSUME NEW b \in Seq(Octet), NEW p \in Nat, NEW s \in Seq(Octet), Has(b, p, s)
  PROVE  SubSeq(b, p + 1, p + Len(s)) = s
<1>1. PICK n \in Nat : n = Len(s)
  OBVIOUS
<1>2. Len(b) \in Nat /\ p + n <= Len(b) /\ \A i \in 1 .. n : b[p + i] = s[i]
  BY <1>1 DEF Has
<1>3. \A i \in p + 1 .. p + n : b[i] \in Octet
  <2>1. \A i \in p + 1 .. p + n : i \in 1 .. Len(b)
    BY <1>2
  <2>2. \A i \in 1 .. Len(b) : b[i] \in Octet
    OBVIOUS
  <2>3. QED
    BY <2>1, <2>2
<1>4. p + 1 \in Int /\ p + n \in Int /\ (p + n) - (p + 1) + 1 = n
  OBVIOUS
<1> DEFINE t == SubSeq(b, p + 1, p + n)
<1>5. t \in Seq(Octet) /\ Len(t) = n
      /\ \A i \in 1 .. n : t[i] = b[(p + 1) + i - 1]
  <2>1. /\ t \in Seq(Octet) /\ Len(t) = IF p + 1 <= p + n THEN (p + n) - (p + 1) + 1 ELSE 0
        /\ \A i \in 1 .. (p + n) - (p + 1) + 1 : t[i] = b[(p + 1) + i - 1]
    BY <1>3, <1>4, SubSeqProperties
  <2> HIDE DEF t
  <2>2. QED
    BY <1>4, <2>1
<1> HIDE DEF t
<1>6. ASSUME NEW i \in 1 .. n  PROVE t[i] = s[i]
  <2>1. (p + 1) + i - 1 = p + i
    OBVIOUS
  <2>2. QED
    BY <1>2, <1>5, <2>1
<1>7. t = s
  BY <1>1, <1>5, <1>6, SeqEqual
<1>8. QED
  BY <1>1, <1>7 DEF t

(* Where a number was written it is read. *)
LEMMA FieldKept ==
  ASSUME NEW b \in Seq(Octet), NEW p \in Nat, NEW n \in Nat, NEW x \in Nat, Fitting(x, n),
         Has(b, p, ToBytes(x, n))
  PROVE  FromBytes(SubSeq(b, p + 1, p + n)) = x
<1>1. ToBytes(x, n) \in Seq(Octet) /\ Len(ToBytes(x, n)) = n
  BY BytesOf
<1>2. SubSeq(b, p + 1, p + n) = ToBytes(x, n)
  BY <1>1, HasFound
<1>3. QED
  BY <1>2, IntKept

(* The parts of Join() stand one behind the other, each behind the sum of    *)
(* the widths before it.                                                     *)
Placed(widths, at) ==
  at[0] = 0 /\ \A k \in 1 .. Len(widths) : at[k] = at[k - 1] + widths[k]
Joined(widths, xs, at) ==
  /\ Placed(widths, at)
  /\ Join(widths, xs) \in Seq(Octet) /\ Len(Join(widths, xs)) = at[Len(widths)]
  /\ \A k \in 1 .. Len(widths) :
       Has(Join(widths, xs), at[k - 1], ToBytes(xs[k], widths[k]))

(* There are such sums. *)
LEMMA Sums ==
  ASSUME NEW widths \in Seq(Nat)
  PROVE  \E at \in [0 .. Len(widths) -> Nat] : Placed(widths, at)
<1> DEFINE n == Len(widths)
           F == [p \in Nat \X Nat |-> IF p[1] \in 1 .. n THEN p[2] + widths[p[1]] ELSE 0]
<1>1. n \in Nat /\ \A k \in 1 .. n : widths[k] \in Nat
  OBVIOUS
<1> HIDE DEF n
<1>2. F \in [Nat \X Nat -> Nat]
  BY <1>1
<1>3. \A k \in 1 .. n : \A y \in Nat : F[<<k, y>>] = y + widths[k]
  BY <1>1
<1> HIDE DEF F
<1>4. Recursive(Nat, 0, F, n)
  BY <1>1, <1>2, Recursion
<1>5. PICK at \in [0 .. n -> Nat] : at[0] = 0 /\ \A k \in 1 .. n : at[k] = F[<<k, at[k - 1]>>]
  BY <1>4 DEF Recursive
<1>6. ASSUME NEW k \in 1 .. n  PROVE at[k] = at[k - 1] + widths[k]
  <2>1. at[k - 1] \in Nat
    BY <1>1
  <2>2. QED
    BY <1>3, <1>5, <2>1
<1>7. Placed(widths, at)
  BY <1>5, <1>6 DEF Placed, n
<1>8. QED
  BY <1>7 DEF n

(* And the parts stand there. *)
LEMMA JoinParts ==
  ASSUME NEW widths \in Seq(Nat), NEW xs, \A k \in 1 .. Len(widths) : xs[k] \in Nat
  PROVE  \E at \in [0 .. Len(widths) -> Nat] : Joined(widths, xs, at)
<1> DEFINE n == Len(widths)
           part(k) == ToBytes(xs[k], widths[k])
           seqs == [k \in 1 .. n |-> part(k)]
           flatten[i \in 1 .. Len(seqs)] == IF i = 1 THEN seqs[i] ELSE flatten[i - 1] \o seqs[i]
           F == [p \in Nat \X Seq(Octet) |->
                   IF p[1] \in 1 .. n THEN p[2] \o part(p[1]) ELSE p[2]]
<1>1. PICK at \in [0 .. n -> Nat] : Placed(widths, at)
  BY Sums
<1>2. n \in Nat /\ \A k \in 1 .. n : widths[k] \in Nat
  OBVIOUS
<1>3. \A k \in 1 .. n : part(k) \in Seq(Octet) /\ Len(part(k)) = widths[k]
  BY <1>2, BytesOf
<1>4. Len(seqs) = n /\ \A k \in 1 .. n : seqs[k] = part(k)
  BY <1>2
<1>5. Join(widths, xs) = IF Len(seqs) = 0 THEN seqs ELSE flatten[Len(seqs)]
  BY DEF Join, FlattenSeq
<1>6. flatten = [i \in 1 .. Len(seqs) |-> IF i = 1 THEN seqs[i] ELSE flatten[i - 1] \o seqs[i]]
  <2> HIDE DEF n, part, seqs
  <2>1. F \in [Nat \X Seq(Octet) -> Seq(Octet)]
    <3>1. ASSUME NEW k \in Nat, NEW y \in Seq(Octet)
          PROVE  (IF k \in 1 .. n THEN y \o part(k) ELSE y) \in Seq(Octet)
      BY <1>3
    <3>2. QED
      BY <3>1
  <2>2. ASSUME NEW k \in 1 .. n, NEW y \in Seq(Octet)  PROVE F[<<k, y>>] = y \o part(k)
    <3>1. <<k, y>> \in Nat \X Seq(Octet)
      BY <1>2
    <3>2. QED
      BY <3>1
  <2> HIDE DEF F
  <2>3. Recursive(Seq(Octet), << >>, F, n)
    <3>1. << >> \in Seq(Octet) /\ n \in Nat
      BY <1>2
    <3>2. QED
      BY ONLY <2>1, <3>1, Recursion
  <2>4. PICK g \in [0 .. n -> Seq(Octet)] : g[0] = << >> /\ \A k \in 1 .. n : g[k] = F[<<k, g[k - 1]>>]
    BY <2>3 DEF Recursive
  <2>5. ASSUME NEW k \in 1 .. n  PROVE g[k] = g[k - 1] \o part(k)
    <3>1. g[k - 1] \in Seq(Octet)
      BY <1>2
    <3>2. QED
      BY <2>2, <2>4, <3>1
  <2> DEFINE f == [i \in 1 .. n |-> g[i]]
  <2>6. ASSUME NEW i \in 1 .. n
        PROVE  f[i] = IF i = 1 THEN seqs[i] ELSE f[i - 1] \o seqs[i]
    <3>1. CASE i = 1
      <4>1. g[1] = << >> \o part(1)
        <5>1. g[1] = g[1 - 1] \o part(1) /\ 1 - 1 = 0
          BY <2>5, <3>1
        <5>2. QED
          BY <2>4, <5>1
      <4>2. seqs[1] = part(1) /\ part(1) \in Seq(Octet)
        BY <1>3, <1>4, <3>1
      <4>3. << >> \o part(1) = part(1)
        BY ONLY <4>2
      <4>4. QED
        BY <3>1, <4>1, <4>2, <4>3
    <3>2. CASE i # 1
      <4>1. i - 1 \in 1 .. n
        BY <1>2, <3>2
      <4>2. g[i] = g[i - 1] \o part(i) /\ seqs[i] = part(i)
        BY <1>4, <2>5
      <4>3. QED
        BY <3>2, <4>1, <4>2
    <3>3. QED
      BY <3>1, <3>2
  <2>7. f = [i \in 1 .. Len(seqs) |-> IF i = 1 THEN seqs[i] ELSE f[i - 1] \o seqs[i]]
    <3>1. \A i \in 1 .. n : f[i] = g[i]
      OBVIOUS
    <3>2. QED
      BY <1>4, <2>6
  <2>8. \E h : h = [i \in 1 .. Len(seqs) |-> IF i = 1 THEN seqs[i] ELSE h[i - 1] \o seqs[i]]
    <3> HIDE DEF f
    <3>1. QED
      BY <2>7
  <2>9. QED
    BY <2>8
<1> HIDE DEF seqs, flatten, part, n, F
<1>7. flatten = [i \in 1 .. n |-> IF i = 1 THEN part(i) ELSE flatten[i - 1] \o part(i)]
  BY <1>4, <1>6
<1> DEFINE Good(k) == /\ flatten[k] \in Seq(Octet) /\ Len(flatten[k]) = at[k]
                      /\ \A j \in 1 .. k : Has(flatten[k], at[j - 1], part(j))
           S == {k \in Nat : k \in 1 .. n => Good(k)}
<1>8. 0 \in S
  OBVIOUS
<1>9. ASSUME NEW k \in S  PROVE k + 1 \in S
  <2> HIDE DEF Good
  <2>0. k \in Nat /\ (k \in 1 .. n => Good(k))
    OBVIOUS
  <2> SUFFICES ASSUME k + 1 \in 1 .. n  PROVE Good(k + 1)
    BY <2>0
  <2>1. /\ part(k + 1) \in Seq(Octet) /\ Len(part(k + 1)) = widths[k + 1]
        /\ at[k + 1] = at[k] + widths[k + 1] /\ widths[k + 1] \in Nat
    <3>1. at[k + 1] = at[(k + 1) - 1] + widths[k + 1] /\ (k + 1) - 1 = k
      BY <1>1, <2>0 DEF Placed, n
    <3>2. QED
      BY <1>2, <1>3, <3>1
  <2>2. CASE k = 0
    <3>1. flatten[1] = part(1) /\ at[0] = 0
      BY <1>1, <1>7, <2>2 DEF Placed
    <3>2. Has(part(1), 0, part(1)) /\ Len(part(1)) = at[1] /\ part(1) \in Seq(Octet)
      BY <2>1, <2>2, <3>1, HasSelf
    <3>3. \A j \in 1 .. 1 : j = 1 /\ j - 1 = 0
      OBVIOUS
    <3>4. Good(1)
      BY <3>1, <3>2, <3>3 DEF Good
    <3>5. QED
      BY <2>2, <3>4
  <2>3. CASE k # 0
    <3>1. k \in 1 .. n /\ (k + 1) - 1 = k /\ k + 1 # 1
      BY ONLY <1>2, <2>0, <2>3, k + 1 \in 1 .. n
    <3>2. /\ flatten[k] \in Seq(Octet) /\ Len(flatten[k]) = at[k]
          /\ \A j \in 1 .. k : Has(flatten[k], at[j - 1], part(j))
      BY <2>0, <3>1 DEF Good
    <3>3. flatten[k + 1] = flatten[k] \o part(k + 1)
      BY <1>7, <3>1
    <3>4. /\ flatten[k + 1] \in Seq(Octet) /\ Len(flatten[k + 1]) = at[k] + widths[k + 1]
          /\ Has(flatten[k + 1], at[k], part(k + 1))
          /\ \A p \in Nat : \A s \in Seq(Octet) : Has(flatten[k], p, s) => Has(flatten[k + 1], p, s)
      <4>1. PICK f, t : f = flatten[k] /\ t = part(k + 1)
        OBVIOUS
      <4>2. f \in Seq(Octet) /\ t \in Seq(Octet) /\ Len(t) = widths[k + 1] /\ Len(f) = at[k]
        BY ONLY <2>1, <3>2, <4>1
      <4>3. /\ f \o t \in Seq(Octet) /\ Len(f \o t) = at[k] + widths[k + 1]
            /\ Has(f \o t, at[k], t)
            /\ \A p \in Nat : \A s \in Seq(Octet) : Has(f, p, s) => Has(f \o t, p, s)
        BY ONLY <4>2, HasMore
      <4>4. QED
        BY ONLY <3>3, <4>1, <4>3
    <3>5. ASSUME NEW j \in 1 .. k + 1  PROVE Has(flatten[k + 1], at[j - 1], part(j))
      <4>1. CASE j = k + 1
        BY <3>1, <3>4, <4>1
      <4>2. CASE j # k + 1
        <5>1. j \in 1 .. k /\ j \in 1 .. n /\ j - 1 \in 0 .. n
          BY ONLY <1>2, <2>0, <3>1, <4>2, j \in 1 .. k + 1
        <5>2. Has(flatten[k], at[j - 1], part(j)) /\ at[j - 1] \in Nat /\ part(j) \in Seq(Octet)
          BY <1>3, <3>2, <5>1
        <5>3. QED
          BY <3>4, <5>2
      <4>3. QED
        BY <4>1, <4>2
    <3>6. QED
      BY <2>1, <3>4, <3>5 DEF Good
  <2>4. QED
    BY <2>2, <2>3
<1>10. S = Nat
  <2> HIDE DEF S
  <2>1. S \in SUBSET Nat
    BY DEF S
  <2>2. QED
    BY <1>8, <1>9, <2>1, AllNumbers
<1>11. CASE n = 0
  <2>1. Join(widths, xs) = << >>
    <3>1. Join(widths, xs) = seqs
      BY <1>4, <1>5, <1>11
    <3>2. seqs = << >>
      BY <1>11 DEF seqs
    <3>3. QED
      BY <3>1, <3>2
  <2>2. at[n] = 0 /\ << >> \in Seq(Octet) /\ Len(<< >>) = 0
    BY <1>1, <1>11 DEF Placed
  <2>3. Joined(widths, xs, at)
    BY <1>1, <1>11, <2>1, <2>2 DEF Joined, n
  <2>4. QED
    BY <2>3 DEF n
<1>12. CASE n # 0
  <2>1. n \in 1 .. n /\ Join(widths, xs) = flatten[n]
    BY <1>2, <1>4, <1>5, <1>12
  <2>2. Good(n)
    <3> HIDE DEF Good
    <3>1. QED
      BY <1>2, <1>10, <2>1
  <2>3. /\ Join(widths, xs) \in Seq(Octet) /\ Len(Join(widths, xs)) = at[n]
        /\ \A k \in 1 .. n : Has(Join(widths, xs), at[k - 1], part(k))
    BY <2>1, <2>2
  <2>4. Joined(widths, xs, at)
    BY <1>1, <2>3 DEF Joined, n, part
  <2>5. QED
    BY <2>4 DEF n
<1>13. QED
  BY <1>11, <1>12

(* What has a sequence has what that has. *)
LEMMA HasInside ==
  ASSUME NEW b \in Seq(Octet), NEW q \in Nat, NEW t \in Seq(Octet), NEW p \in Nat,
         NEW s \in Seq(Octet), Has(b, q, t), Has(t, p, s)
  PROVE  Has(b, q + p, s)
<1>1. /\ Len(s) \in Nat /\ Len(t) \in Nat /\ Len(b) \in Nat
      /\ q + Len(t) <= Len(b) /\ p + Len(s) <= Len(t)
  BY DEF Has
<1>2. \A i \in 1 .. Len(t) : b[q + i] = t[i]
  BY DEF Has
<1>3. \A i \in 1 .. Len(s) : t[p + i] = s[i]
  BY DEF Has
<1>4. ASSUME NEW i \in 1 .. Len(s)  PROVE b[(q + p) + i] = s[i]
  <2>1. p + i \in 1 .. Len(t) /\ (q + p) + i = q + (p + i)
    BY <1>1
  <2>2. QED
    BY ONLY <1>2, <1>3, <2>1, i \in 1 .. Len(s)
<1>5. (q + p) + Len(s) <= Len(b)
  BY <1>1
<1>6. QED
  BY <1>4, <1>5 DEF Has

(* A byte that stands in a sequence. *)
LEMMA HasByte ==
  ASSUME NEW b \in Seq(Octet), NEW p \in Nat, NEW x \in Octet
  PROVE  Has(b, p, <<x>>) <=> (p + 1 <= Len(b) /\ b[p + 1] = x)
<1>1. <<x>> \in Seq(Octet) /\ Len(<<x>>) = 1 /\ <<x>>[1] = x
  OBVIOUS
<1>2. \A i \in 1 .. 1 : i = 1
  OBVIOUS
<1>3. QED
  BY <1>1, <1>2 DEF Has

(* getAssocInfo(), GetNvInfo(), device_annce_proc(): what was joined is      *)
(* split into the same numbers, whatever the widths and whatever follows.    *)
THEOREM SplitKept ==
  ASSUME NEW widths \in Seq(Nat), NEW xs,
         \A k \in 1 .. Len(widths) : xs[k] \in Nat /\ Fitting(xs[k], widths[k]),
         NEW b \in Seq(Octet), Has(b, 0, Join(widths, xs))
  PROVE  Split(widths, b) = [k \in 1 .. Len(widths) |-> xs[k]]
<1> DEFINE n == Len(widths)
           start[k \in 1 .. n] == IF k = 1 THEN 1 ELSE start[k - 1] + widths[k - 1]
<1>1. PICK at \in [0 .. n -> Nat] : Joined(widths, xs, at)
  BY JoinParts
<1>2. /\ n \in Nat /\ \A k \in 1 .. n : widths[k] \in Nat
      /\ at[0] = 0 /\ \A k \in 1 .. n : at[k] = at[k - 1] + widths[k]
  BY <1>1 DEF Joined, Placed
<1>3. Split(widths, b) =
        [k \in 1 .. n |-> FromBytes(SubSeq(b, start[k], start[k] + widths[k] - 1))]
  BY DEF Split
<1> HIDE DEF n
<1>4. start = [k \in 1 .. n |-> at[k - 1] + 1]
  <2> DEFINE f == [k \in 1 .. n |-> at[k - 1] + 1]
  <2>1. ASSUME NEW k \in 1 .. n
        PROVE  f[k] = IF k = 1 THEN 1 ELSE f[k - 1] + widths[k - 1]
    <3>1. CASE k = 1
      BY <1>2, <3>1
    <3>2. CASE k # 1
      <4>1. k - 1 \in 1 .. n /\ (k - 1) - 1 \in 0 .. n
        BY <1>2, <3>2
      <4>2. at[k - 1] = at[(k - 1) - 1] + widths[k - 1] /\ widths[k - 1] \in Nat
        BY <1>2, <4>1
      <4>3. f[k] = at[k - 1] + 1 /\ f[k - 1] = at[(k - 1) - 1] + 1
        BY <4>1
      <4>4. at[(k - 1) - 1] \in Nat
        BY <4>1
      <4>5. PICK y, w \in Nat : y = at[(k - 1) - 1] /\ w = widths[k - 1]
        BY ONLY <4>2, <4>4
      <4>6. f[k] = (y + w) + 1 /\ f[k - 1] + w = (y + 1) + w
        BY ONLY <4>2, <4>3, <4>5
      <4>7. (y + w) + 1 = (y + 1) + w
        OBVIOUS
      <4>8. QED
        BY ONLY <3>2, <4>5, <4>6, <4>7
    <3>3. QED
      BY <3>1, <3>2
  <2>2. f = [k \in 1 .. n |-> IF k = 1 THEN 1 ELSE f[k - 1] + widths[k - 1]]
    <3> DEFINE r(k) == IF k = 1 THEN 1 ELSE f[k - 1] + widths[k - 1]
    <3>1. \A k \in 1 .. n : f[k] = r(k)
      BY <2>1
    <3>2. f = [k \in 1 .. n |-> f[k]]
      OBVIOUS
    <3> HIDE DEF f, r
    <3>3. f = [k \in 1 .. n |-> r(k)]
      BY ONLY <3>1, <3>2
    <3>4. QED
      BY <3>3 DEF r
  <2>3. start = [k \in 1 .. n |-> IF k = 1 THEN 1 ELSE start[k - 1] + widths[k - 1]]
    <3> HIDE DEF f
    <3>1. \E h : h = [k \in 1 .. n |-> IF k = 1 THEN 1 ELSE h[k - 1] + widths[k - 1]]
      BY <2>2
    <3>2. QED
      BY <3>1
  <2> HIDE DEF start, f
  <2> DEFINE S == {j \in Nat : j \in 1 .. n => start[j] = f[j]}
  <2>4. 0 \in S
    OBVIOUS
  <2>5. ASSUME NEW j \in S  PROVE j + 1 \in S
    <3> SUFFICES ASSUME j + 1 \in 1 .. n  PROVE start[j + 1] = f[j + 1]
      OBVIOUS
    <3>1. start[j + 1] = IF j + 1 = 1 THEN 1 ELSE start[(j + 1) - 1] + widths[(j + 1) - 1]
      BY ONLY <2>3, j + 1 \in 1 .. n
    <3>2. f[j + 1] = IF j + 1 = 1 THEN 1 ELSE f[(j + 1) - 1] + widths[(j + 1) - 1]
      BY ONLY <2>2, j + 1 \in 1 .. n
    <3>3. (j + 1) - 1 = j /\ (j + 1 # 1 => j \in 1 .. n)
      BY <1>2
    <3>4. QED
      BY <3>1, <3>2, <3>3
  <2> HIDE DEF S
  <2>6. S = Nat
    <3>1. S \in SUBSET Nat
      BY DEF S
    <3>2. QED
      BY <2>4, <2>5, <3>1, AllNumbers
  <2>7. \A k \in 1 .. n : start[k] = f[k]
    BY <2>6 DEF S
  <2>8. start = [k \in 1 .. n |-> start[k]] /\ f = [k \in 1 .. n |-> f[k]]
    <3>1. start = [k \in 1 .. n |-> start[k]]
      BY ONLY <2>3
    <3>2. f = [k \in 1 .. n |-> f[k]]
      BY DEF f
    <3>3. QED
      BY <3>1, <3>2
  <2>9. start = f
    BY ONLY <2>7, <2>8
  <2>10. QED
    BY <2>9 DEF f
<1> HIDE DEF start
<1>5. ASSUME NEW k \in 1 .. n
      PROVE  FromBytes(SubSeq(b, start[k], start[k] + widths[k] - 1)) = xs[k]
  <2>1. /\ k - 1 \in 0 .. n /\ xs[k] \in Nat /\ Fitting(xs[k], widths[k])
        /\ widths[k] \in Nat
    BY <1>2 DEF n
  <2>2. PICK p \in Nat : p = at[k - 1]
    BY <2>1
  <2>3. Has(b, p, ToBytes(xs[k], widths[k]))
    <3>1. Has(Join(widths, xs), p, ToBytes(xs[k], widths[k])) /\ Join(widths, xs) \in Seq(Octet)
      BY <1>1, <2>2 DEF Joined, n
    <3>2. ToBytes(xs[k], widths[k]) \in Seq(Octet)
      BY <2>1, BytesOf
    <3>3. 0 \in Nat /\ 0 + p = p
      OBVIOUS
    <3>4. Has(b, 0 + p, ToBytes(xs[k], widths[k]))
      BY <3>1, <3>2, <3>3, HasInside
    <3>5. QED
      BY <3>3, <3>4
  <2>4. FromBytes(SubSeq(b, p + 1, p + widths[k])) = xs[k]
    BY <2>1, <2>3, FieldKept
  <2>5. start[k] = p + 1 /\ (p + 1) + widths[k] - 1 = p + widths[k]
    <3>1. start[k] = p + 1
      BY ONLY <1>4, <2>2, k \in 1 .. n
    <3>2. \A w \in Nat : (p + 1) + w - 1 = p + w
      OBVIOUS
    <3>3. QED
      BY ONLY <2>1, <3>1, <3>2
  <2>6. QED
    BY <2>4, <2>5
<1>6. QED
  BY <1>3, <1>5 DEF n

(* They are two bytes, and fit. *)
LEMMA WordType ==
  ASSUME NEW x \in Word
  PROVE  /\ x \in Nat /\ x < 65536 /\ Fitting(x, 2)
         /\ ToBytes(x, 2) \in Seq(Octet) /\ Len(ToBytes(x, 2)) = 2
<1>2. x \in Nat /\ x < 65536
  BY DEF Word
<1>3. Fitting(x, 2)
  BY ONLY <1>2 DEF Fitting
<1>4. PICK n \in Nat : n = 2
  OBVIOUS
<1>5. ToBytes(x, n) \in Seq(Octet) /\ Len(ToBytes(x, n)) = n
  BY ONLY <1>2, BytesOf, n \in Nat
<1>6. QED
  BY ONLY <1>2, <1>3, <1>4, <1>5

(* Two bytes, and what they are read as. *)
LEMMA TwoBytes ==
  /\ \A x \in Word : ToBytes(x, 2) = <<x % 256, x \div 256>>
  /\ \A l, h \in Octet : FromBytes(<<l, h>>) = l + 256 * h
<1>1. ASSUME NEW x \in Word  PROVE ToBytes(x, 2) = <<x % 256, x \div 256>>
  <2>1. x \in Nat /\ x \div 256 \in Nat /\ x \div 256 < 256
    <3>1. PICK y \in Nat : y = x /\ y < 65536
      BY ONLY WordType, x \in Word
    <3>2. y \div 256 \in Nat /\ y \div 256 < 256
      BY ONLY <3>1
    <3>3. QED
      BY ONLY <3>1, <3>2
  <2>2. PICK h \in [0 .. 2 -> Nat] : Left(x, 2, h)
    BY <2>1, HighPart
  <2>3. h[0] = x /\ h[1] = x \div 256 /\ ToBytes(x, 2) = [i \in 1 .. 2 |-> Byte(h[i - 1])]
    BY <2>2 DEF Left
  <2>4. ToBytes(x, 2) = <<Byte(h[0]), Byte(h[1])>>
    BY <2>3
  <2>5. PICK y \in Nat : y = x \div 256
    BY <2>1
  <2>6. y % 256 = y
    BY <2>1, <2>5
  <2>7. Byte(h[1]) = x \div 256
    BY <2>3, <2>5, <2>6 DEF Byte
  <2>8. QED
    BY <2>3, <2>4, <2>7 DEF Byte
<1>2. ASSUME NEW l \in Octet, NEW h \in Octet  PROVE FromBytes(<<l, h>>) = l + 256 * h
  <2>1. l \in Nat /\ h \in Nat
    BY DEF Octet
  <2>2. PICK b : b = <<l, h>>
    OBVIOUS
  <2>3. 2 \in Nat /\ b \in [1 .. 2 -> Nat] /\ b[1] = l /\ b[2] = h
    BY <2>1, <2>2
  <2>4. PICK v \in [1 .. 2 + 1 -> Nat] : Added(b, 2, v)
    BY <2>3, AddedUp
  <2>5. v[3] = 0 /\ v[2] = h + 256 * v[3] /\ v[1] = l + 256 * v[2] /\ FromBytes(b) = v[1]
    BY <2>3, <2>4 DEF Added
  <2>6. FromBytes(b) = l + 256 * h
    BY ONLY <2>1, <2>5
  <2>7. QED
    BY <2>2, <2>6
<1>3. QED
  BY <1>1, <1>2

(* A list of clusters, two bytes each. *)
Clusters(xs) == Join([i \in DOMAIN xs |-> 2], xs)

(* It is read back from wherever it stands. *)
LEMMA ClustersKept ==
  ASSUME NEW xs \in Seq(Word)
  PROVE  /\ Clusters(xs) \in Seq(Octet) /\ Len(Clusters(xs)) = 2 * Len(xs)
         /\ \A b \in Seq(Octet), q \in Nat : Has(b, q, Clusters(xs)) =>
              \A i \in 1 .. Len(xs) :
                FromBytes(SubSeq(b, q + 2 * i - 1, q + 2 * i)) = xs[i]
<1> DEFINE w == [i \in DOMAIN xs |-> 2]
<1>1. PICK n \in Nat : n = Len(xs)
  OBVIOUS
<1>2. w \in Seq(Nat) /\ Len(w) = n /\ \A i \in 1 .. n : w[i] = 2
  <2>1. w \in [1 .. n -> Nat] /\ \A i \in 1 .. n : w[i] = 2
    BY <1>1
  <2> HIDE DEF w
  <2>2. QED
    BY <2>1
<1>3. \A i \in 1 .. n : xs[i] \in Nat /\ xs[i] < 65536
  <2>1. \A i \in 1 .. n : xs[i] \in Word
    BY <1>1
  <2>2. QED
    BY ONLY <2>1, WordType
<1>4. Clusters(xs) = Join(w, xs)
  BY DEF Clusters
<1> HIDE DEF w
<1>5. PICK at \in [0 .. n -> Nat] : Joined(w, xs, at)
  <2>1. \A k \in 1 .. Len(w) : xs[k] \in Nat
    BY <1>2, <1>3
  <2>2. \E at \in [0 .. Len(w) -> Nat] : Joined(w, xs, at)
    BY <1>2, <2>1, JoinParts
  <2>3. QED
    BY <1>2, <2>2
<1>6. /\ at[0] = 0 /\ \A k \in 1 .. n : at[k] = at[k - 1] + 2
      /\ Join(w, xs) \in Seq(Octet) /\ Len(Join(w, xs)) = at[n]
      /\ \A k \in 1 .. n : Has(Join(w, xs), at[k - 1], ToBytes(xs[k], 2))
  BY <1>2, <1>5 DEF Joined, Placed
<1> DEFINE S == {j \in Nat : j <= n => at[j] = 2 * j}
<1>7. S = Nat
  <2>1. 0 \in S
    BY <1>6
  <2>2. ASSUME NEW j \in S  PROVE j + 1 \in S
    <3> SUFFICES ASSUME j + 1 <= n  PROVE at[j + 1] = 2 * (j + 1)
      OBVIOUS
    <3>1. j + 1 \in 1 .. n /\ (j + 1) - 1 = j /\ j <= n
      OBVIOUS
    <3>2. at[j + 1] = at[j] + 2 /\ at[j] = 2 * j
      BY <1>6, <3>1
    <3>3. QED
      BY <3>2
  <2> HIDE DEF S
  <2>3. S \in SUBSET Nat
    BY DEF S
  <2>4. QED
    BY <2>1, <2>2, <2>3, AllNumbers
<1>8. \A j \in 0 .. n : at[j] = 2 * j
  BY <1>7
<1>9. ASSUME NEW b \in Seq(Octet), NEW q \in Nat, Has(b, q, Clusters(xs)),
             NEW i \in 1 .. n
      PROVE  FromBytes(SubSeq(b, q + 2 * i - 1, q + 2 * i)) = xs[i]
  <2>1. PICK p \in Nat : p = 2 * (i - 1)
    OBVIOUS
  <2>2. i - 1 \in 0 .. n
    BY <1>1
  <2>3. Has(Join(w, xs), p, ToBytes(xs[i], 2))
    BY <1>6, <1>8, <2>1, <2>2
  <2>4. ToBytes(xs[i], 2) \in Seq(Octet) /\ xs[i] \in Nat /\ Fitting(xs[i], 2)
    <3>1. xs[i] \in Word
      BY <1>1
    <3>2. QED
      BY ONLY <3>1, WordType
  <2>5. Has(b, q + p, ToBytes(xs[i], 2)) /\ q + p \in Nat
    BY <1>4, <1>6, <1>9, <2>3, <2>4, HasInside
  <2>6. FromBytes(SubSeq(b, (q + p) + 1, (q + p) + 2)) = xs[i]
    BY <2>4, <2>5, FieldKept
  <2>7. (q + p) + 1 = q + 2 * i - 1 /\ (q + p) + 2 = q + 2 * i
    BY <2>1
  <2>8. QED
    BY <2>6, <2>7
<1>10. Len(Clusters(xs)) = 2 * n
  BY <1>4, <1>6, <1>8
<1>11. QED
  BY <1>1, <1>4, <1>6, <1>9, <1>10

(* The descriptors of CodecAssumption. *)
Descriptor(d) ==
  /\ d \in [endpoint : Octet, profile : Word, device : Word, version : Octet,
            in : Seq(Word), out : Seq(Word)]
  /\ Len(d.in) \in Octet /\ Len(d.out) \in Octet

(* Where the parts of a descriptor stand. *)
Laid(d, b) ==
  LET in == Len(d.in) IN
  /\ b \in Seq(Octet)
  /\ b[1] = d.endpoint /\ Has(b, 1, ToBytes(d.profile, 2)) /\ Has(b, 3, ToBytes(d.device, 2))
  /\ b[6] = d.version /\ b[7] = in /\ Has(b, 7, Clusters(d.in))
  /\ b[8 + 2 * in] = Len(d.out) /\ Has(b, 8 + 2 * in, Clusters(d.out))

(* simple_desc_req_apdu_process() finds a descriptor where its parts stand. *)
LEMMA LaidRead ==
  ASSUME NEW d, Descriptor(d), NEW b, Laid(d, b)
  PROVE  SimpleDesc(b) = d
<1> DEFINE list(from, n) == [i \in 1 .. n |->
                               FromBytes(SubSeq(b, from + 2 * i - 1, from + 2 * i))]
<1>1. /\ d.profile \in Word /\ d.device \in Word
      /\ d.in \in Seq(Word) /\ d.out \in Seq(Word)
      /\ d = [endpoint |-> d.endpoint, profile |-> d.profile, device |-> d.device,
              version |-> d.version, in |-> d.in, out |-> d.out]
  BY DEF Descriptor
<1>2. PICK n \in Nat, m \in Nat : n = Len(d.in) /\ m = Len(d.out)
  BY <1>1
<1>3. /\ b \in Seq(Octet)
      /\ b[1] = d.endpoint /\ Has(b, 1, ToBytes(d.profile, 2)) /\ Has(b, 3, ToBytes(d.device, 2))
      /\ b[6] = d.version /\ b[7] = n /\ Has(b, 7, Clusters(d.in))
      /\ b[8 + 2 * n] = m /\ Has(b, 8 + 2 * n, Clusters(d.out))
  BY <1>2 DEF Laid
<1>4. SimpleDesc(b) =
        [endpoint |-> b[1], profile |-> FromBytes(SubSeq(b, 2, 3)),
         device |-> FromBytes(SubSeq(b, 4, 5)), version |-> b[6],
         in |-> list(7, n), out |-> list(8 + 2 * n, m)]
  BY <1>3 DEF SimpleDesc
<1>5. ASSUME NEW p \in Nat, NEW x \in Word, Has(b, p, ToBytes(x, 2))
      PROVE  FromBytes(SubSeq(b, p + 1, p + 2)) = x
  <2>1. x \in Nat /\ Fitting(x, 2)
    BY WordType
  <2>2. PICK k \in Nat : k = 2
    OBVIOUS
  <2>3. Fitting(x, k) /\ Has(b, p, ToBytes(x, k))
    BY <1>5, <2>1, <2>2
  <2>4. FromBytes(SubSeq(b, p + 1, p + k)) = x
    BY ONLY <1>3, <2>1, <2>3, FieldKept, p \in Nat, k \in Nat
  <2>5. QED
    BY <2>2, <2>4
<1>6. FromBytes(SubSeq(b, 2, 3)) = d.profile /\ FromBytes(SubSeq(b, 4, 5)) = d.device
  <2>1. FromBytes(SubSeq(b, 1 + 1, 1 + 2)) = d.profile
    BY ONLY <1>1, <1>3, <1>5, 1 \in Nat
  <2>2. FromBytes(SubSeq(b, 3 + 1, 3 + 2)) = d.device
    BY ONLY <1>1, <1>3, <1>5, 3 \in Nat
  <2>3. QED
    BY ONLY <2>1, <2>2
<1>7. ASSUME NEW xs \in Seq(Word), NEW q \in Nat, NEW k \in Nat, k = Len(xs), Has(b, q, Clusters(xs))
      PROVE  list(q, k) = xs
  <2>1. \A i \in 1 .. k : FromBytes(SubSeq(b, q + 2 * i - 1, q + 2 * i)) = xs[i]
    BY ONLY <1>3, <1>7, ClustersKept
  <2>2. list(q, k) = [i \in 1 .. k |-> xs[i]]
    BY ONLY <2>1
  <2>3. xs = [i \in 1 .. k |-> xs[i]]
    BY <1>7
  <2>4. QED
    BY ONLY <2>2, <2>3
<1> HIDE DEF list
<1>8. list(7, n) = d.in
  BY ONLY <1>1, <1>2, <1>3, <1>7, 7 \in Nat
<1>9. list(8 + 2 * n, m) = d.out
  <2>1. PICK q \in Nat : q = 8 + 2 * n
    OBVIOUS
  <2>2. Has(b, q, Clusters(d.out))
    BY ONLY <1>3, <2>1
  <2>3. list(q, m) = d.out
    BY ONLY <1>1, <1>2, <1>7, <2>2
  <2>4. QED
    BY ONLY <2>1, <2>3
<1>10. QED
  BY ONLY <1>1, <1>3, <1>4, <1>6, <1>8, <1>9

(* One sequence and the next. *)
Cat(u, s, t) == u = s \o t

(* Sequences of k and of m bytes. *)
Sized(s, k) == s \in Seq(Octet) /\ k \in Nat /\ Len(s) = k

(* What they make, and where they stand in what has that. *)
Parted(u, s, t, k, m) ==
  /\ u \in Seq(Octet) /\ k + m \in Nat /\ Len(u) = k + m
  /\ \A b \in Seq(Octet), q \in Nat : Has(b, q, u) => Has(b, q, s) /\ Has(b, q + k, t)

(* One after the other they make it so. *)
LEMMA CatType ==
  ASSUME NEW s, NEW t, NEW u, NEW k, NEW m, Cat(u, s, t), Sized(s, k), Sized(t, m)
  PROVE  Parted(u, s, t, k, m)
<1>0. s \in Seq(Octet) /\ t \in Seq(Octet) /\ k \in Nat /\ m \in Nat /\ Len(s) = k /\ Len(t) = m
  BY DEF Sized
<1>1. u = s \o t
  BY DEF Cat
<1>2. u \in Seq(Octet) /\ Len(u) = k + m /\ k + m \in Nat
  <2>1. s \o t \in Seq(Octet) /\ Len(s \o t) = Len(s) + Len(t)
    BY ONLY <1>0, HasMore
  <2>2. k + m \in Nat
    BY ONLY <1>0
  <2>3. QED
    BY ONLY <1>0, <1>1, <2>1, <2>2
<1>3. ASSUME NEW b \in Seq(Octet), NEW q \in Nat, Has(b, q, u)
      PROVE  Has(b, q, s) /\ Has(b, q + k, t)
  <2>1. Has(b, q, s \o t)
    BY ONLY <1>1, <1>3
  <2>2. Has(b, q, s) /\ Has(b, q + Len(s), t)
    BY ONLY <1>0, <2>1, HasParts, b \in Seq(Octet), q \in Nat
  <2>3. QED
    BY ONLY <1>0, <2>2
<1>4. QED
  BY ONLY <1>2, <1>3 DEF Parted

(* And they stand where the device wrote them. *)
LEMMA LaidWritten ==
  ASSUME NEW d, Descriptor(d)
  PROVE  /\ SimpleDescApdu(d) \in Seq(Octet)
         /\ \A b \in Seq(Octet) : Has(b, 0, SimpleDescApdu(d)) => Laid(d, b)
<1>1. /\ d.endpoint \in Octet /\ d.version \in Octet /\ d.profile \in Word /\ d.device \in Word
      /\ d.in \in Seq(Word) /\ d.out \in Seq(Word)
      /\ Len(d.in) \in Octet /\ Len(d.out) \in Octet
  BY DEF Descriptor
<1>2. PICK n \in Nat : n = Len(d.in)
  BY <1>1
<1>3. PICK e, p, v, c, i, m, o :
        /\ e = <<d.endpoint>> /\ p = ToBytes(d.profile, 2) /\ v = ToBytes(d.device, 2)
        /\ c = <<d.version, Len(d.in)>> /\ i = Clusters(d.in)
        /\ m = <<Len(d.out)>> /\ o = Clusters(d.out)
  OBVIOUS
<1>4. SimpleDescApdu(d) = (((((e \o p) \o v) \o c) \o i) \o m) \o o
  BY <1>3 DEF SimpleDescApdu, Clusters
<1>5. /\ e \in Seq(Octet) /\ Len(e) = 1 /\ m \in Seq(Octet) /\ Len(m) = 1
      /\ c \in Seq(Octet) /\ Len(c) = 2
  BY <1>1, <1>3
<1>6. p \in Seq(Octet) /\ Len(p) = 2 /\ v \in Seq(Octet) /\ Len(v) = 2
  BY <1>1, <1>3, WordType
<1>7. i \in Seq(Octet) /\ Len(i) = 2 * n /\ o \in Seq(Octet) /\ Len(o) \in Nat
  BY <1>1, <1>2, <1>3, ClustersKept
<1>8. PICK s1, s2, s3, s4, s5, s6 :
        /\ Cat(s1, e, p) /\ Cat(s2, s1, v) /\ Cat(s3, s2, c) /\ Cat(s4, s3, i)
        /\ Cat(s5, s4, m) /\ Cat(s6, s5, o) /\ SimpleDescApdu(d) = s6
  <2>1. PICK s1, s2, s3, s4, s5, s6 :
          /\ s1 = e \o p /\ s2 = s1 \o v /\ s3 = s2 \o c /\ s4 = s3 \o i
          /\ s5 = s4 \o m /\ s6 = s5 \o o
    OBVIOUS
  <2>2. QED
    BY ONLY <1>4, <2>1 DEF Cat
<1>9. PICK n1, n2, n3, n5, n7, l4, l5, k \in Nat :
        /\ n1 = 1 /\ n2 = 2 /\ n3 = n1 + n2 /\ n5 = n3 + n2 /\ n7 = n5 + n2
        /\ l4 = n7 + 2 * n /\ l5 = l4 + n1 /\ k = 2 * n
  <2>1. 1 \in Nat /\ 2 \in Nat /\ 1 + 2 \in Nat /\ 1 + 2 + 2 \in Nat /\ 1 + 2 + 2 + 2 \in Nat
        /\ 2 * n \in Nat /\ 1 + 2 + 2 + 2 + 2 * n \in Nat /\ 1 + 2 + 2 + 2 + 2 * n + 1 \in Nat
    OBVIOUS
  <2>2. QED
    BY ONLY <2>1
<1>10. /\ Len(e) = n1 /\ Len(p) = n2 /\ Len(v) = n2 /\ Len(c) = n2 /\ Len(i) = k /\ Len(m) = n1
  BY ONLY <1>5, <1>6, <1>7, <1>9
<1>11. /\ s1 \in Seq(Octet) /\ Len(s1) = n3
       /\ \A b \in Seq(Octet), q \in Nat : Has(b, q, s1) => Has(b, q, e) /\ Has(b, q + n1, p)
  <2>1. Cat(s1, e, p) /\ Sized(e, n1) /\ Sized(p, n2)
    BY <1>5, <1>6, <1>8, <1>10 DEF Sized
  <2>2. Parted(s1, e, p, n1, n2)
    BY ONLY <2>1, CatType
  <2>3. QED
    BY ONLY <1>9, <2>2 DEF Parted
<1>12. /\ s2 \in Seq(Octet) /\ Len(s2) = n5
       /\ \A b \in Seq(Octet), q \in Nat : Has(b, q, s2) => Has(b, q, s1) /\ Has(b, q + n3, v)
  <2>1. Cat(s2, s1, v) /\ Sized(s1, n3) /\ Sized(v, n2)
    BY <1>6, <1>11, <1>8, <1>10 DEF Sized
  <2>2. Parted(s2, s1, v, n3, n2)
    BY ONLY <2>1, CatType
  <2>3. QED
    BY ONLY <1>9, <2>2 DEF Parted
<1>13. /\ s3 \in Seq(Octet) /\ Len(s3) = n7
       /\ \A b \in Seq(Octet), q \in Nat : Has(b, q, s3) => Has(b, q, s2) /\ Has(b, q + n5, c)
  <2>1. Cat(s3, s2, c) /\ Sized(s2, n5) /\ Sized(c, n2)
    BY <1>5, <1>12, <1>8, <1>10 DEF Sized
  <2>2. Parted(s3, s2, c, n5, n2)
    BY ONLY <2>1, CatType
  <2>3. QED
    BY ONLY <1>9, <2>2 DEF Parted
<1>14. /\ s4 \in Seq(Octet) /\ Len(s4) = l4
       /\ \A b \in Seq(Octet), q \in Nat : Has(b, q, s4) => Has(b, q, s3) /\ Has(b, q + n7, i)
  <2>1. Cat(s4, s3, i) /\ Sized(s3, n7) /\ Sized(i, k)
    BY <1>7, <1>13, <1>8, <1>10 DEF Sized
  <2>2. Parted(s4, s3, i, n7, k)
    BY ONLY <2>1, CatType
  <2>3. QED
    BY ONLY <1>9, <2>2 DEF Parted
<1>15. /\ s5 \in Seq(Octet) /\ Len(s5) = l5
       /\ \A b \in Seq(Octet), q \in Nat : Has(b, q, s5) => Has(b, q, s4) /\ Has(b, q + l4, m)
  <2>1. Cat(s5, s4, m) /\ Sized(s4, l4) /\ Sized(m, n1)
    BY <1>5, <1>14, <1>8, <1>10 DEF Sized
  <2>2. Parted(s5, s4, m, l4, n1)
    BY ONLY <2>1, CatType
  <2>3. QED
    BY ONLY <1>9, <2>2 DEF Parted
<1>16. /\ s6 \in Seq(Octet)
       /\ \A b \in Seq(Octet), q \in Nat : Has(b, q, s6) => Has(b, q, s5) /\ Has(b, q + l5, o)
  <2>1. PICK l \in Nat : l = Len(o)
    BY <1>7
  <2>2. Cat(s6, s5, o) /\ Sized(s5, l5) /\ Sized(o, l)
    BY <1>7, <1>8, <1>15, <2>1 DEF Sized
  <2>3. Parted(s6, s5, o, l5, l)
    BY ONLY <2>2, CatType
  <2>4. QED
    BY ONLY <2>3 DEF Parted
<1>17. ASSUME NEW b \in Seq(Octet), Has(b, 0, s6)  PROVE Laid(d, b)
  <2>1. /\ Has(b, 0, e) /\ Has(b, 0 + n1, p) /\ Has(b, 0 + n3, v) /\ Has(b, 0 + n5, c)
        /\ Has(b, 0 + n7, i) /\ Has(b, 0 + l4, m) /\ Has(b, 0 + l5, o)
    BY ONLY <1>11, <1>12, <1>13, <1>14, <1>15, <1>16, <1>17, 0 \in Nat
  <2>2. PICK k7 \in Nat, k8 \in Nat : k7 = 7 + 2 * n /\ k8 = 8 + 2 * n
    OBVIOUS
  <2>3. /\ 0 + n1 = 1 /\ 0 + n3 = 3 /\ 0 + n5 = 5 /\ 0 + n7 = 7 /\ 0 + l4 = k7 /\ 0 + l5 = k8
        /\ k7 + 1 = k8
    BY ONLY <1>9, <2>2, n \in Nat
  <2>4. /\ Has(b, 0, e) /\ Has(b, 1, p) /\ Has(b, 3, v) /\ Has(b, 5, c)
        /\ Has(b, 7, i) /\ Has(b, k7, m) /\ Has(b, k8, o)
    BY ONLY <2>1, <2>3
  <2>5. b[1] = d.endpoint
    <3>1. b[0 + 1] = d.endpoint
      BY ONLY <1>1, <1>3, <2>4, HasByte, 0 \in Nat, b \in Seq(Octet)
    <3>2. QED
      BY <3>1
  <2>6. b[6] = d.version /\ b[7] = n
    <3>1. \A j \in 1 .. 2 : b[5 + j] = c[j]
      BY ONLY <1>5, <2>4 DEF Has
    <3>2. b[5 + 1] = c[1] /\ b[5 + 2] = c[2]
      BY ONLY <3>1, 1 \in 1 .. 2, 2 \in 1 .. 2
    <3>3. c[1] = d.version /\ c[2] = n
      BY ONLY <1>2, <1>3
    <3>4. QED
      BY ONLY <3>2, <3>3
  <2>7. b[k8] = Len(d.out)
    <3>1. b[k7 + 1] = Len(d.out)
      BY ONLY <1>1, <1>3, <2>4, HasByte, b \in Seq(Octet), k7 \in Nat
    <3>2. QED
      BY ONLY <2>3, <3>1
  <2>8. QED
    BY ONLY <1>2, <1>3, <2>2, <2>4, <2>5, <2>6, <2>7, b \in Seq(Octet) DEF Laid
<1>18. QED
  BY ONLY <1>8, <1>16, <1>17

(* What the archive's text is read as begins with what was written. *)
LEMMA HexBytes ==
  ASSUME HighFirst, NEW b \in Seq(Octet)
  PROVE  LET v == hexStrToByteVec(kByteToHexString(b)) IN v \in Seq(Octet) /\ Has(v, 0, b)
<1> DEFINE s == kByteToHexString(b)
           v == hexStrToByteVec(s)
<1>1. PICK n \in Nat : n = Len(b)
  OBVIOUS
<1>2. Octet = 0 .. 255
  <2>1. ASSUME NEW y \in Octet  PROVE y \in 0 .. 255
    <3>1. y \in Nat /\ y < 256
      BY DEF Octet
    <3>2. QED
      BY ONLY <3>1
  <2>2. ASSUME NEW y \in 0 .. 255  PROVE y \in Octet
    <3>1. y \in Nat /\ y < 256
      BY ONLY y \in 0 .. 255
    <3>2. QED
      BY ONLY <3>1 DEF Octet
  <2>3. QED
    BY ONLY <2>1, <2>2
<1>3. Len(v) = 2 * n /\ \A i \in 1 .. n : v[i] = b[i]
  BY ONLY <1>1, <1>2, HexKept, HighFirst, b \in Seq(Octet)
<1>4. Len(s) = 2 * n /\ (2 * n) % 2 # 1
  <2>1. s = [i \in 1 .. 2 * n |->
               LET byte == b[(i + 1) \div 2]
               IN  HexChar(IF i % 2 = 1 THEN byte \div 16 ELSE byte % 16)]
    BY <1>1 DEF kByteToHexString
  <2> HIDE DEF s
  <2>2. QED
    BY <2>1
<1>5. v = [i \in 1 .. 2 * n |->
             IF 2 * i > 2 * n THEN Junk
             ELSE Byte(IF HighFirst THEN 16 * kCharToInt(s[2 * i - 1]) + kCharToInt(s[2 * i])
                       ELSE 16 * kCharToInt(s[2 * i]) + kCharToInt(s[2 * i - 1]))]
  <2> HIDE DEF s
  <2>1. QED
    BY <1>4 DEF hexStrToByteVec
<1> HIDE DEF v, s
<1>6. ASSUME NEW i \in 1 .. 2 * n  PROVE v[i] \in Octet
  <2>1. CASE i \in 1 .. n
    <3>1. v[i] = b[i] /\ b[i] \in Octet
      BY <1>1, <1>3, <2>1
    <3>2. QED
      BY <3>1
  <2>2. CASE i \notin 1 .. n
    <3>1. 2 * i > 2 * n
      BY <2>2
    <3>2. v[i] = Junk
      BY ONLY <1>5, <3>1, i \in 1 .. 2 * n
    <3>3. QED
      BY <3>2, CodecAssumption
  <2>3. QED
    BY <2>1, <2>2
<1>7. v \in Seq(Octet)
  <2>1. 2 * n \in Nat /\ v \in [1 .. 2 * n -> Octet]
    BY <1>5, <1>6
  <2>2. QED
    BY ONLY <2>1
<1>8. Has(v, 0, b)
  <2>1. 0 + n <= 2 * n /\ \A i \in 1 .. n : 0 + i = i
    BY <1>1
  <2>2. QED
    BY ONLY <1>1, <1>3, <2>1 DEF Has
<1>9. QED
  BY <1>7, <1>8 DEF v, s

(* The digits of an integer, kIntToStr(). *)
Digits(x, a, b, c, d) ==
  /\ a \in Nat /\ b \in Nat /\ c \in Nat /\ d \in Nat
  /\ a < 16 /\ b < 16 /\ c < 16 /\ d < 16
  /\ x = 256 * (16 * a + b) + (16 * c + d)
  /\ kIntToStr(x, 2) = <<HexChar(a), HexChar(b), HexChar(c), HexChar(d)>>

(* There are such digits. *)
LEMMA IntText ==
  ASSUME NEW x \in Word
  PROVE  \E a, b, c, d : Digits(x, a, b, c, d)
<1>1. PICK l \in Nat, h \in Nat : l = x % 256 /\ h = x \div 256
  <2>1. x \in Nat
    BY WordType
  <2>2. x % 256 \in Nat /\ x \div 256 \in Nat
    BY <2>1
  <2>3. QED
    BY <2>2
<1>2. l \in 0 .. 255 /\ h \in 0 .. 255 /\ x = 256 * h + l
  <2>1. PICK y \in Nat : y = x /\ y < 65536
    BY WordType
  <2>2. y % 256 \in 0 .. 255 /\ y \div 256 \in 0 .. 255 /\ y = 256 * (y \div 256) + (y % 256)
    BY ONLY <2>1
  <2>3. QED
    BY <1>1, <2>1, <2>2
<1>3. ToBytes(x, 2) = <<l, h>>
  BY <1>1, TwoBytes
<1>4. Reverse(<<l, h>>) = <<h, l>>
  BY DEF Reverse
<1>5. PICK a, b, c, d \in 0 .. 15 :
        /\ a = h \div 16 /\ b = h % 16 /\ h = 16 * a + b
        /\ c = l \div 16 /\ d = l % 16 /\ l = 16 * c + d
  <2>1. h \div 16 \in 0 .. 15 /\ h % 16 \in 0 .. 15 /\ 16 * (h \div 16) + (h % 16) = h
    BY ONLY <1>2, NibblesOfByte
  <2>2. l \div 16 \in 0 .. 15 /\ l % 16 \in 0 .. 15 /\ 16 * (l \div 16) + (l % 16) = l
    BY ONLY <1>2, NibblesOfByte
  <2>3. QED
    BY <2>1, <2>2
<1>6. kIntToStr(x, 2) = <<HexChar(a), HexChar(b), HexChar(c), HexChar(d)>>
  <2>1. PICK s : s = <<h, l>>
    OBVIOUS
  <2>2. Len(s) = 2 /\ s[1] = h /\ s[2] = l
    BY <2>1
  <2>3. kByteToHexString(s) =
          [i \in 1 .. 4 |-> LET byte == s[(i + 1) \div 2]
                            IN  HexChar(IF i % 2 = 1 THEN byte \div 16 ELSE byte % 16)]
    BY <2>2 DEF kByteToHexString
  <2>4. PICK r : r = kByteToHexString(s)
    OBVIOUS
  <2>5. /\ (1 + 1) \div 2 = 1 /\ 1 % 2 = 1 /\ (2 + 1) \div 2 = 1 /\ 2 % 2 # 1
        /\ (3 + 1) \div 2 = 2 /\ 3 % 2 = 1 /\ (4 + 1) \div 2 = 2 /\ 4 % 2 # 1
    OBVIOUS
  <2>6. /\ r[1] = HexChar(s[1] \div 16) /\ r[2] = HexChar(s[1] % 16)
        /\ r[3] = HexChar(s[2] \div 16) /\ r[4] = HexChar(s[2] % 16)
    BY ONLY <2>3, <2>4, <2>5
  <2>7. r[1] = HexChar(a) /\ r[2] = HexChar(b) /\ r[3] = HexChar(c) /\ r[4] = HexChar(d)
    BY ONLY <1>5, <2>2, <2>6
  <2>8. r = [i \in 1 .. 4 |-> r[i]]
    BY ONLY <2>3, <2>4
  <2>9. r = <<HexChar(a), HexChar(b), HexChar(c), HexChar(d)>>
    BY ONLY <2>7, <2>8
  <2>10. QED
    BY <1>3, <1>4, <2>1, <2>4, <2>9 DEF kIntToStr
<1>7. Digits(x, a, b, c, d)
  <2>1. x = 256 * (16 * a + b) + (16 * c + d)
    BY <1>2, <1>5
  <2>2. QED
    BY ONLY <1>6, <2>1, a \in 0 .. 15, b \in 0 .. 15, c \in 0 .. 15, d \in 0 .. 15 DEF Digits
<1>8. QED
  BY <1>7

(* What four characters stand for, one by one. *)
Stands(s, a, b, c, d) ==
  /\ Len(s) = 4 /\ a \in Nat /\ b \in Nat /\ c \in Nat /\ d \in Nat
  /\ a = kCharToInt(s[1]) /\ b = kCharToInt(s[2])
  /\ c = kCharToInt(s[3]) /\ d = kCharToInt(s[4])

(* They are read as the number they stand for, if they do. *)
LEMMA TextInt ==
  ASSUME NEW s, NEW a, NEW b, NEW c, NEW d, Stands(s, a, b, c, d)
  PROVE  /\ a < 16 /\ b < 16 /\ c < 16 /\ d < 16 =>
              kStrToInt(s, 2) = [rtn |-> 4, int |-> 256 * (16 * a + b) + (16 * c + d)]
         /\ ~ (a < 16 /\ b < 16 /\ c < 16 /\ d < 16) => kStrToInt(s, 2) = [rtn |-> 0 - 1]
<1>0. /\ Len(s) = 4 /\ a \in Nat /\ b \in Nat /\ c \in Nat /\ d \in Nat
      /\ a = kCharToInt(s[1]) /\ b = kCharToInt(s[2])
      /\ c = kCharToInt(s[3]) /\ d = kCharToInt(s[4])
  BY DEF Stands
<1> DEFINE P == \E i \in 1 .. 4 : kCharToInt(s[i]) > 15
           bytes == [k \in 1 .. 2 |-> kCharToInt(s[2 * (2 - k) + 2])
                                        + 16 * kCharToInt(s[2 * (2 - k) + 1])]
<1>1. kStrToInt(s, 2) = IF P THEN [rtn |-> 0 - 1] ELSE [rtn |-> 4, int |-> FromBytes(bytes)]
  BY <1>0 DEF kStrToInt
<1>2. P <=> ~ (a < 16 /\ b < 16 /\ c < 16 /\ d < 16)
  <2>1. 1 .. 4 = {1, 2, 3, 4}
    OBVIOUS
  <2>2. P <=> a > 15 \/ b > 15 \/ c > 15 \/ d > 15
    BY <1>0, <2>1
  <2>3. QED
    BY ONLY <1>0, <2>2
<1>3. ASSUME a < 16, b < 16, c < 16, d < 16
      PROVE  FromBytes(bytes) = 256 * (16 * a + b) + (16 * c + d)
  <2>1. bytes = <<d + 16 * c, b + 16 * a>>
    <3>1. 2 * (2 - 1) + 2 = 4 /\ 2 * (2 - 1) + 1 = 3 /\ 2 * (2 - 2) + 2 = 2 /\ 2 * (2 - 2) + 1 = 1
      OBVIOUS
    <3>2. bytes[1] = d + 16 * c /\ bytes[2] = b + 16 * a
      BY <1>0, <3>1
    <3>3. QED
      BY <3>2
  <2>2. d + 16 * c \in Octet /\ b + 16 * a \in Octet
    BY <1>0, <1>3 DEF Octet
  <2>3. FromBytes(bytes) = (d + 16 * c) + 256 * (b + 16 * a)
    BY ONLY <2>1, <2>2, TwoBytes
  <2>4. QED
    BY ONLY <1>0, <2>3
<1> HIDE DEF P, bytes
<1>4. QED
  BY ONLY <1>1, <1>2, <1>3

(* kIntToStr() and toInteger(): an integer survives, with a digit missing as *)
(* far as it was written, and a character that is none is noticed.           *)
LEMMA IntArchived ==
  ASSUME NEW x \in Word, NEW text, text = kIntToStr(x, 2)
  PROVE  /\ toInteger(text) = [rtn |-> 4, int |-> x]
         /\ toInteger(Tail(text)).int = x % 4096
         /\ {kStrToInt([text EXCEPT ![i] = 71], 2).rtn : i \in 1 .. 4} = {0 - 1}
<1>1. PICK a, b, c, d : Digits(x, a, b, c, d)
  BY IntText
<1>2. x = 256 * (16 * a + b) + (16 * c + d)
  BY <1>1 DEF Digits
<1>6. /\ a \in Nat /\ b \in Nat /\ c \in Nat /\ d \in Nat
      /\ a < 16 /\ b < 16 /\ c < 16 /\ d < 16
  BY <1>1 DEF Digits
<1>3. PICK ca, cb, cc, cd : ca = HexChar(a) /\ cb = HexChar(b) /\ cc = HexChar(c) /\ cd = HexChar(d)
  OBVIOUS
<1>4. text = <<ca, cb, cc, cd>>
  BY <1>1, <1>3 DEF Digits
<1>5. kCharToInt(ca) = a /\ kCharToInt(cb) = b /\ kCharToInt(cc) = c /\ kCharToInt(cd) = d
  <2>1. a \in 0 .. 15 /\ b \in 0 .. 15 /\ c \in 0 .. 15 /\ d \in 0 .. 15
    BY <1>6
  <2>2. QED
    BY ONLY <1>3, <2>1, DigitKept
<1>7. toInteger(text) = [rtn |-> 4, int |-> x]
  <2>1. Len(text) = 4 /\ 4 % 2 # 1 /\ 4 \div 2 = 2
    BY <1>4
  <2>2. toInteger(text) = kStrToInt(text, 2)
    <3>1. 2 < 8
      OBVIOUS
    <3>2. Len(text) % 2 # 1 /\ Len(text) \div 2 = 2 /\ 2 < 8
      BY ONLY <2>1, <3>1, Zenon
    <3>3. QED
      BY ONLY <3>2, Zenon DEF toInteger
  <2>3. text[1] = ca /\ text[2] = cb /\ text[3] = cc /\ text[4] = cd
    BY <1>4
  <2>4. kStrToInt(text, 2) = [rtn |-> 4, int |-> 256 * (16 * a + b) + (16 * c + d)]
    <3>1. a < 16 /\ b < 16 /\ c < 16 /\ d < 16 =>
            kStrToInt(text, 2) = [rtn |-> 4, int |-> 256 * (16 * a + b) + (16 * c + d)]
      <4>1. Stands(text, a, b, c, d)
        BY ONLY <1>5, <1>6, <2>1, <2>3 DEF Stands
      <4>2. QED
        BY ONLY <4>1, TextInt
    <3>2. QED
      BY ONLY <1>6, <3>1
  <2>5. QED
    BY ONLY <1>2, <2>2, <2>4
<1>8. toInteger(Tail(text)).int = x % 4096
  <2> DEFINE s == Tail(text)
  <2>1. s = <<cb, cc, cd>>
    <3>1. Tail(<<ca, cb, cc, cd>>) = <<cb, cc, cd>>
      OBVIOUS
    <3>2. QED
      BY ONLY <1>4, <3>1
  <2> HIDE DEF s
  <2>2. Len(s) = 3
    BY <2>1
  <2>3. PICK t : t = <<48, cb, cc, cd>>
    OBVIOUS
  <2>4. <<48>> \o s = t
    <3>1. cb \in Octet /\ cc \in Octet /\ cd \in Octet
      <4>1. \A k \in Nat : k < 16 => HexChar(k) \in Octet
        BY DEF HexChar, Octet
      <4>2. QED
        BY ONLY <1>3, <1>6, <4>1
    <3>2. PICK f : f = <<48>>
      OBVIOUS
    <3>3. f \in Seq(Octet) /\ Len(f) = 1 /\ f[1] = 48
      <4>1. 48 \in Octet
        BY DEF Octet
      <4>2. QED
        BY ONLY <3>2, <4>1
    <3>4. s \in Seq(Octet) /\ Len(s) = 3 /\ s[1] = cb /\ s[2] = cc /\ s[3] = cd
      BY ONLY <2>1, <3>1
    <3>5. PICK u : Cat(u, f, s)
      BY DEF Cat
    <3>6. u \in Seq(Octet) /\ Len(u) = 1 + 3 /\ (Has(u, 0, u) => Has(u, 0, f) /\ Has(u, 0 + 1, s))
      <4>1. PICK k, m \in Nat : k = 1 /\ m = 3
        OBVIOUS
      <4>2. PICK v : v = s
        OBVIOUS
      <4>3. Cat(u, f, v) /\ Sized(f, k) /\ Sized(v, m)
        BY ONLY <3>3, <3>4, <3>5, <4>1, <4>2 DEF Sized
      <4>4. Parted(u, f, v, k, m)
        BY ONLY <4>3, CatType
      <4>5. QED
        BY ONLY <4>1, <4>2, <4>4, 0 \in Nat DEF Parted
    <3>7. Has(u, 0, f) /\ Has(u, 0 + 1, s)
      BY ONLY <3>6, HasSelf
    <3>8. \A i \in 1 .. 1 : u[0 + i] = f[i]
      BY ONLY <3>3, <3>7 DEF Has
    <3>9. \A i \in 1 .. 3 : u[(0 + 1) + i] = s[i]
      BY ONLY <3>4, <3>7 DEF Has
    <3>10. u[0 + 1] = 48
      BY ONLY <3>3, <3>8, 1 \in 1 .. 1
    <3>11. u[(0 + 1) + 1] = cb /\ u[(0 + 1) + 2] = cc /\ u[(0 + 1) + 3] = cd
      BY ONLY <3>4, <3>9, 1 \in 1 .. 3, 2 \in 1 .. 3, 3 \in 1 .. 3
    <3>12. 0 + 1 = 1 /\ (0 + 1) + 1 = 2 /\ (0 + 1) + 2 = 3 /\ (0 + 1) + 3 = 4 /\ 1 + 3 = 4
      OBVIOUS
    <3>13. u[1] = 48 /\ u[2] = cb /\ u[3] = cc /\ u[4] = cd /\ Len(u) = 4
      BY ONLY <3>6, <3>10, <3>11, <3>12
    <3>14. u = <<48, cb, cc, cd>>
      BY ONLY <3>6, <3>13
    <3>15. QED
      BY ONLY <2>3, <3>2, <3>5, <3>14 DEF Cat
  <2>5. Len(t) = 4 /\ t[1] = 48 /\ t[2] = cb /\ t[3] = cc /\ t[4] = cd
    BY <2>3
  <2>6. 3 % 2 = 1 /\ 4 \div 2 = 2
    OBVIOUS
  <2>7. toInteger(s) = kStrToInt(t, 2)
    <3>1. Len(s) % 2 = 1 /\ Len(t) \div 2 = 2 /\ 2 < 8
      BY ONLY <2>2, <2>5, <2>6
    <3>2. QED
      BY ONLY <2>4, <3>1, Zenon DEF toInteger
  <2>8. kCharToInt(48) = 0
    BY DEF kCharToInt
  <2>9. kStrToInt(t, 2) = [rtn |-> 4, int |-> 256 * (16 * 0 + b) + (16 * c + d)]
    <3>1. PICK z \in Nat : z = 0
      OBVIOUS
    <3>2. Len(t) = 4 /\ z = kCharToInt(t[1]) /\ b = kCharToInt(t[2])
          /\ c = kCharToInt(t[3]) /\ d = kCharToInt(t[4])
      BY ONLY <1>5, <2>5, <2>8, <3>1
    <3>3. z < 16 /\ b < 16 /\ c < 16 /\ d < 16 =>
            kStrToInt(t, 2) = [rtn |-> 4, int |-> 256 * (16 * z + b) + (16 * c + d)]
      <4>1. Stands(t, z, b, c, d)
        BY ONLY <1>6, <3>2, z \in Nat DEF Stands
      <4>2. QED
        BY ONLY <4>1, TextInt
    <3>4. z < 16
      BY ONLY <3>1
    <3>5. QED
      BY ONLY <1>6, <3>1, <3>3, <3>4
  <2>10. 256 * (16 * 0 + b) + (16 * c + d) = x % 4096
    <3>1. PICK y \in Nat : y = 256 * b + (16 * c + d)
      BY <1>6
    <3>2. y < 4096 /\ x = 4096 * a + y
      BY <1>2, <1>6, <3>1
    <3>3. (4096 * a + y) % 4096 = y
      BY ONLY <1>6, <3>1, <3>2
    <3>4. QED
      BY ONLY <1>6, <3>1, <3>2, <3>3
  <2>11. toInteger(s) = [rtn |-> 4, int |-> x % 4096]
    BY ONLY <2>7, <2>9, <2>10
  <2>12. toInteger(s).int = x % 4096
    BY ONLY <2>11
  <2>13. QED
    BY ONLY <2>12 DEF s
<1>9. ASSUME NEW i \in 1 .. 4  PROVE kStrToInt([text EXCEPT ![i] = 71], 2).rtn = 0 - 1
  <2>1. PICK s : s = [text EXCEPT ![i] = 71]
    OBVIOUS
  <2>2. Len(s) = 4 /\ s[i] = 71 /\ \A j \in 1 .. 4 : j # i => s[j] = text[j]
    BY <1>4, <2>1
  <2>3. kCharToInt(71) = 16
    BY DEF kCharToInt
  <2>4. \A j \in 1 .. 4 : kCharToInt(text[j]) \in Nat
    <3>1. text[1] = ca /\ text[2] = cb /\ text[3] = cc /\ text[4] = cd
      BY <1>4
    <3>2. \A j \in 1 .. 4 : j = 1 \/ j = 2 \/ j = 3 \/ j = 4
      OBVIOUS
    <3>3. QED
      BY ONLY <1>5, <1>6, <3>1, <3>2
  <2>5. \A j \in 1 .. 4 : kCharToInt(s[j]) \in Nat
    <3>1. 16 \in Nat
      OBVIOUS
    <3>2. QED
      BY ONLY <2>2, <2>3, <2>4, <3>1
  <2>6. PICK k1, k2, k3, k4 \in Nat :
          /\ k1 = kCharToInt(s[1]) /\ k2 = kCharToInt(s[2])
          /\ k3 = kCharToInt(s[3]) /\ k4 = kCharToInt(s[4])
    BY ONLY <2>5, 1 \in 1 .. 4, 2 \in 1 .. 4, 3 \in 1 .. 4, 4 \in 1 .. 4
  <2>7. ~ (k1 < 16 /\ k2 < 16 /\ k3 < 16 /\ k4 < 16)
    <3>1. i = 1 \/ i = 2 \/ i = 3 \/ i = 4
      OBVIOUS
    <3>2. k1 = 16 \/ k2 = 16 \/ k3 = 16 \/ k4 = 16
      BY ONLY <2>2, <2>3, <2>6, <3>1
    <3>3. QED
      BY ONLY <3>2
  <2>8. kStrToInt(s, 2) = [rtn |-> 0 - 1]
    <3>1. Len(s) = 4 /\ k1 \in Nat /\ k2 \in Nat /\ k3 \in Nat /\ k4 \in Nat
      BY ONLY <2>2, <2>6
    <3>2. ~ (k1 < 16 /\ k2 < 16 /\ k3 < 16 /\ k4 < 16) => kStrToInt(s, 2) = [rtn |-> 0 - 1]
      <4>1. Stands(s, k1, k2, k3, k4)
        BY ONLY <2>6, <3>1 DEF Stands
      <4>2. QED
        BY ONLY <4>1, TextInt
    <3>3. QED
      BY ONLY <2>7, <3>2
  <2>9. QED
    BY ONLY <2>1, <2>8
<1>10. QED
  BY ONLY <1>7, <1>8, <1>9, 1 \in 1 .. 4

(* What each use of the line leaves on it. *)
LEMMA OpOf ==
  ASSUME UseLine
  PROVE  \/ line'.op = "af" /\ \E n \in AsduLens : n <= ObjectRoom /\ SendMessage(n)
         \/ line'.op = "ext" /\ \E n \in AsduLens : n <= ExtRoom /\ SendMessageExt(n)
         \/ line'.op = "in" /\ \E n \in AsduLens : n <= AfLimit - 7 /\ ReceiveMessage(n)
         \/ line'.op = "in" /\ \E n \in AsduLens : n <= AfExtLimit - 7 /\ ReceiveExt(n)
         \/ line'.op = "write" /\ \E n \in AsduLens : WriteItem(n)
         \/ line'.op = "simple" /\ \E c \in Simple : SendSimple(c)
         \/ line'.op = "nv" /\ \E x \in Ints : SetUpdateId(Byte(x))
         \/ line'.op = "tables" /\ \E x \in Ints : ReadTables(x)
         \/ line'.op = "int" /\ \E x \in Ints : ArchiveInt(x)
         \/ line'.op = "annce" /\ \E x \in Ints, n \in 0 .. AnnceLen : ReceiveAnnce(n, x)
         \/ line'.op = "zdp" /\ \E x \in Ints : \E m \in Requests(x) : SendRequest(m)
         \/ line'.op = "desc" /\ \E d \in Described : ArchiveDesc(d)
<1>1. \A n : SendMessage(n) => line'.op = "af"
  BY DEF SendMessage
<1>2. \A n : SendMessageExt(n) => line'.op = "ext"
  BY DEF SendMessageExt
<1>3. \A n : ReceiveMessage(n) => line'.op = "in"
  BY DEF ReceiveMessage
<1>4. \A n : ReceiveExt(n) => line'.op = "in"
  BY DEF ReceiveExt
<1>5. \A n : WriteItem(n) => line'.op = "write"
  BY DEF WriteItem
<1>6. \A c : SendSimple(c) => line'.op = "simple"
  BY DEF SendSimple
<1>7. \A x : SetUpdateId(x) => line'.op = "nv"
  BY DEF SetUpdateId
<1>8. \A x : ReadTables(x) => line'.op = "tables"
  BY DEF ReadTables
<1>9. \A x : ArchiveInt(x) => line'.op = "int"
  BY DEF ArchiveInt
<1>10. \A n, x : ReceiveAnnce(n, x) => line'.op = "annce"
  BY DEF ReceiveAnnce
<1>11. \A m : SendRequest(m) => line'.op = "zdp"
  BY DEF SendRequest
<1>12. \A d : ArchiveDesc(d) => line'.op = "desc"
  BY DEF ArchiveDesc
<1>13. \/ \E n \in AsduLens : \/ n <= ObjectRoom /\ SendMessage(n)
                              \/ n <= ExtRoom /\ SendMessageExt(n)
                              \/ n <= AfLimit - 7 /\ ReceiveMessage(n)
                              \/ n <= AfExtLimit - 7 /\ ReceiveExt(n)
                              \/ WriteItem(n)
       \/ \E c \in Simple : SendSimple(c)
       \/ \E x \in Ints : \/ SetUpdateId(Byte(x)) \/ ReadTables(x) \/ ArchiveInt(x)
                          \/ \E n \in 0 .. AnnceLen : ReceiveAnnce(n, x)
                          \/ \E m \in Requests(x) : SendRequest(m)
       \/ \E d \in Described : ArchiveDesc(d)
  BY Zenon DEF UseLine
<1>14. QED
  BY ONLY <1>1, <1>2, <1>3, <1>4, <1>5, <1>6, <1>7, <1>8, <1>9, <1>10, <1>11, <1>12, <1>13, Zenon

(* simple_desc_req_apdu_process(), kByteToHexString(), hexStrToByteVec(),    *)
(* kIntToStr() and toInteger(): the descriptors and addresses of devices     *)
(* survive the archive, whatever their lists of clusters and their values.   *)
THEOREM DescriptorCorrect ==
  ASSUME HighFirst
  PROVE  CodecSpec => []DescriptorKept
<1>1. CodecInit => DescriptorKept
  BY DEF CodecInit, Unused, DescriptorKept
<1>2. DescriptorKept /\ [UseLine]_line => DescriptorKept'
  <2>1. ASSUME UseLine  PROVE DescriptorKept'
    <3>1. ASSUME line'.op # "desc", line'.op # "int"  PROVE DescriptorKept'
      BY ONLY <3>1 DEF DescriptorKept
    <3>2. ASSUME NEW d \in Described, ArchiveDesc(d)  PROVE DescriptorKept'
      <4>1. PICK b : b = SimpleDescApdu(d)
        OBVIOUS
      <4>2. PICK v : v = hexStrToByteVec(kByteToHexString(b))
        OBVIOUS
      <4>3. line' = [op |-> "desc", desc |-> d, parsed |-> SimpleDesc(b), kept |-> SimpleDesc(v)]
        BY ONLY <3>2, <4>1, <4>2 DEF ArchiveDesc
      <4>4. Descriptor(d)
        BY CodecAssumption DEF Descriptor
      <4>5. b \in Seq(Octet) /\ \A r \in Seq(Octet) : Has(r, 0, b) => Laid(d, r)
        BY ONLY <4>1, <4>4, LaidWritten
      <4>6. Has(b, 0, b)
        BY ONLY <4>5, HasSelf
      <4>7. v \in Seq(Octet) /\ Has(v, 0, b)
        BY ONLY <4>2, <4>5, HexBytes, HighFirst
      <4>8. Laid(d, b) /\ Laid(d, v)
        BY ONLY <4>5, <4>6, <4>7
      <4>9. SimpleDesc(b) = d /\ SimpleDesc(v) = d
        BY ONLY <4>4, <4>8, LaidRead
      <4>10. line'.op = "desc" /\ line'.parsed = line'.desc /\ line'.kept = line'.desc
        BY ONLY <4>3, <4>9
      <4>11. QED
        BY ONLY <4>10 DEF DescriptorKept
    <3>3. ASSUME NEW x \in Ints, ArchiveInt(x)  PROVE DescriptorKept'
      <4> DEFINE text == kIntToStr(x, 2)
      <4>1. x \in Word
        BY CodecAssumption
      <4>2. line' = [op |-> "int", int |-> x, kept |-> toInteger(text),
                     odd |-> toInteger(Tail(text)),
                     bad |-> {kStrToInt([text EXCEPT ![i] = 71], 2).rtn : i \in 1 .. 4}]
        BY ONLY <3>3 DEF ArchiveInt
      <4>3. /\ toInteger(text) = [rtn |-> 4, int |-> x]
            /\ toInteger(Tail(text)).int = x % 4096
            /\ {kStrToInt([text EXCEPT ![i] = 71], 2).rtn : i \in 1 .. 4} = {0 - 1}
        <5>1. text = kIntToStr(x, 2)
          OBVIOUS
        <5> HIDE DEF text
        <5>2. QED
          BY ONLY <4>1, <5>1, IntArchived
      <4> DEFINE odd == toInteger(Tail(text))
                 bad == {kStrToInt([text EXCEPT ![i] = 71], 2).rtn : i \in 1 .. 4}
                 kept == toInteger(text)
      <4>4. line' = [op |-> "int", int |-> x, kept |-> kept, odd |-> odd, bad |-> bad]
        BY ONLY <4>2
      <4>5. kept = [rtn |-> 4, int |-> x] /\ odd.int = x % 4096 /\ bad = {0 - 1}
        BY ONLY <4>3
      <4> HIDE DEF odd, bad, kept
      <4>6. /\ line'.op = "int" /\ line'.kept.rtn = 4 /\ line'.kept.int = line'.int
            /\ line'.odd.int = line'.int % 4096 /\ line'.bad = {0 - 1}
        BY ONLY <4>4, <4>5
      <4>7. QED
        BY ONLY <4>6 DEF DescriptorKept
    <3>4. QED
      BY ONLY <2>1, <3>1, <3>2, <3>3, OpOf, Zenon
  <2>2. ASSUME DescriptorKept, line' = line  PROVE DescriptorKept'
    BY ONLY <2>2 DEF DescriptorKept
  <2>3. QED
    BY ONLY <2>1, <2>2
<1>3. QED
  BY <1>1, <1>2, PTL DEF CodecSpec
-----------------------------------------------------------------------------
(* What is sent is heard *)

(* CmdFCSCal() is a byte. *)
LEMMA CheckByte ==
  ASSUME NEW buf, NEW n \in Nat
  PROVE  CmdFCSCal(buf, n) \in Octet
<1> DEFINE ones(w) == Cardinality({i \in 1 .. Byte(n) : (buf[i] \div w) % 2 = 1})
           bit(w) == w * (ones(w) % 2)
<1>1. ASSUME NEW w \in Nat  PROVE bit(w) \in Nat /\ bit(w) <= w
  <2>1. Byte(n) \in Nat
    BY DEF Byte
  <2>2. IsFiniteSet(1 .. Byte(n))
    BY ONLY <2>1, FS_Interval, 1 \in Int
  <2>3. PICK k : k = ones(w)
    OBVIOUS
  <2>4. k \in Nat
    <3>1. IsFiniteSet({i \in 1 .. Byte(n) : (buf[i] \div w) % 2 = 1})
      <4>1. {i \in 1 .. Byte(n) : (buf[i] \div w) % 2 = 1} \subseteq 1 .. Byte(n)
        OBVIOUS
      <4>2. QED
        BY ONLY <2>2, <4>1, FS_Subset
    <3>2. QED
      BY ONLY <2>3, <3>1, FS_CardinalityType
  <2>5. k % 2 = 0 \/ k % 2 = 1
    BY ONLY <2>4
  <2>6. w * 0 = 0 /\ w * 1 = w
    OBVIOUS
  <2> HIDE DEF ones
  <2>7. QED
    BY ONLY <2>3, <2>5, <2>6, w \in Nat
<1>2. CmdFCSCal(buf, n) =
        bit(1) + bit(2) + bit(4) + bit(8) + bit(16) + bit(32) + bit(64) + bit(128)
  BY DEF CmdFCSCal
<1> HIDE DEF bit
<1>3. /\ bit(1) \in Nat /\ bit(1) <= 1 /\ bit(2) \in Nat /\ bit(2) <= 2
      /\ bit(4) \in Nat /\ bit(4) <= 4 /\ bit(8) \in Nat /\ bit(8) <= 8
      /\ bit(16) \in Nat /\ bit(16) <= 16 /\ bit(32) \in Nat /\ bit(32) <= 32
      /\ bit(64) \in Nat /\ bit(64) <= 64 /\ bit(128) \in Nat /\ bit(128) <= 128
  <2>1. /\ 1 \in Nat /\ 2 \in Nat /\ 4 \in Nat /\ 8 \in Nat /\ 16 \in Nat
        /\ 32 \in Nat /\ 64 \in Nat /\ 128 \in Nat
    OBVIOUS
  <2>2. QED
    BY ONLY <1>1, <2>1
<1>4. CmdFCSCal(buf, n) \in Nat /\ CmdFCSCal(buf, n) < 256
  BY ONLY <1>2, <1>3
<1>5. QED
  BY ONLY <1>4 DEF Octet

(* A number that is a byte. *)
LEMMA OctetType ==
  ASSUME NEW x \in Octet
  PROVE  x \in Nat /\ x < 256 /\ Byte(x) = x /\ Fitting(x, 1)
<1>1. x \in Nat /\ x < 256
  BY DEF Octet
<1>2. QED
  BY ONLY <1>1 DEF Byte, Fitting

(* MTBuildAndSendCmd(): a command arrives as it was built, if the one-byte   *)
(* count of the check has room for it.                                       *)
THEOREM SentKept ==
  ASSUME NEW type \in Octet, NEW id \in Octet, NEW data \in Seq(Octet), Len(data) <= 252
  PROVE  Sent(Command(type, id, data)) = [type |-> type, id |-> id, data |-> data]
<1>1. PICK n \in Nat : n = Len(data) /\ n <= 252
  OBVIOUS
<1>2. n \in Octet
  <2>1. n < 256
    BY ONLY <1>1, n \in Nat
  <2>2. QED
    BY ONLY <2>1, n \in Nat DEF Octet
<1>3. PICK c : c = Command(type, id, data)
  OBVIOUS
<1>4. c.type = type /\ c.id = id /\ c.len = n /\ c.pData = data
  <2>1. Byte(n) = n
    BY <1>2, OctetType
  <2>2. c = [type |-> type, id |-> id, len |-> Byte(n), pData |-> data]
    BY <1>1, <1>3 DEF Command
  <2>3. QED
    BY ONLY <2>1, <2>2
<1>5. SubSeq(data, 1, n) = data
  BY <1>1
<1>6. PICK h, body : h = <<n, type, id>> /\ Cat(body, h, data)
  BY DEF Cat
<1>7. PICK x : x = CmdFCSCal(body, n + 3)
  OBVIOUS
<1>8. PICK s, e, g, frame : s = <<254>> /\ e = <<x>> /\ Cat(g, s, body) /\ Cat(frame, g, e)
  BY DEF Cat
<1>9. MTBuildAndSendCmd(c) = frame
  <2>1. body = <<c.len, c.type, c.id>> \o SubSeq(c.pData, 1, c.len)
    BY <1>4, <1>5, <1>6 DEF Cat
  <2>2. frame = (<<254>> \o body) \o <<CmdFCSCal(body, c.len + 3)>>
    BY <1>4, <1>7, <1>8 DEF Cat
  <2>3. QED
    BY ONLY <2>1, <2>2 DEF MTBuildAndSendCmd
<1>10. x \in Octet
  <2>1. n + 3 \in Nat
    OBVIOUS
  <2>2. QED
    BY ONLY <1>7, <2>1, CheckByte
<1>11. /\ h \in Seq(Octet) /\ Len(h) = 3 /\ h[1] = n /\ h[2] = type /\ h[3] = id
  BY ONLY <1>2, <1>6, type \in Octet, id \in Octet
<1>12. s \in Seq(Octet) /\ Len(s) = 1 /\ e \in Seq(Octet) /\ Len(e) = 1 /\ e[1] = x
  <2>1. 254 \in Octet
    BY DEF Octet
  <2>2. QED
    BY ONLY <1>8, <1>10, <2>1
<1>13. PICK k1, k3, kb, kg \in Nat : k1 = 1 /\ k3 = 3 /\ kb = k3 + n /\ kg = k1 + kb
  <2>1. 1 \in Nat /\ 3 \in Nat /\ 3 + n \in Nat /\ 1 + (3 + n) \in Nat
    OBVIOUS
  <2>2. QED
    BY ONLY <2>1
<1>14. /\ body \in Seq(Octet) /\ Len(body) = kb
       /\ \A b \in Seq(Octet), q \in Nat : Has(b, q, body) => Has(b, q, h) /\ Has(b, q + k3, data)
  <2>1. Cat(body, h, data) /\ Sized(h, k3) /\ Sized(data, n)
    BY ONLY <1>1, <1>6, <1>11, <1>13, data \in Seq(Octet) DEF Sized
  <2>2. Parted(body, h, data, k3, n)
    BY ONLY <2>1, CatType
  <2>3. QED
    BY ONLY <1>13, <2>2 DEF Parted
<1>15. /\ g \in Seq(Octet) /\ Len(g) = kg
       /\ \A b \in Seq(Octet), q \in Nat : Has(b, q, g) => Has(b, q, s) /\ Has(b, q + k1, body)
  <2>1. Cat(g, s, body) /\ Sized(s, k1) /\ Sized(body, kb)
    BY ONLY <1>8, <1>12, <1>13, <1>14 DEF Sized
  <2>2. Parted(g, s, body, k1, kb)
    BY ONLY <2>1, CatType
  <2>3. QED
    BY ONLY <1>13, <2>2 DEF Parted
<1>16. /\ frame \in Seq(Octet) /\ Len(frame) = kg + k1
       /\ \A b \in Seq(Octet), q \in Nat : Has(b, q, frame) => Has(b, q, g) /\ Has(b, q + kg, e)
  <2>1. Cat(frame, g, e) /\ Sized(g, kg) /\ Sized(e, k1)
    BY ONLY <1>8, <1>12, <1>13, <1>15 DEF Sized
  <2>2. Parted(frame, g, e, kg, k1)
    BY ONLY <2>1, CatType
  <2>3. QED
    BY ONLY <2>2 DEF Parted
<1>17. Has(frame, 1, body) /\ Has(frame, 1, h) /\ Has(frame, 4, data) /\ Has(frame, kg, e)
  <2>1. Has(frame, 0, frame)
    BY ONLY <1>16, HasSelf
  <2>2. Has(frame, 0, g) /\ Has(frame, 0 + kg, e)
    BY ONLY <1>16, <2>1, 0 \in Nat
  <2>3. Has(frame, 0 + k1, body)
    BY ONLY <1>15, <1>16, <2>2, 0 \in Nat
  <2>4. Has(frame, 1, body)
    BY ONLY <1>13, <2>3
  <2>5. Has(frame, 1, h) /\ Has(frame, 1 + k3, data)
    BY ONLY <1>14, <1>16, <2>4, 1 \in Nat
  <2>6. 0 + kg = kg /\ 1 + k3 = 4
    BY ONLY <1>13
  <2>7. QED
    BY ONLY <2>2, <2>4, <2>5, <2>6
<1>18. frame[2] = n /\ frame[3] = type /\ frame[4] = id
  <2>1. \A i \in 1 .. 3 : frame[1 + i] = h[i]
    BY ONLY <1>11, <1>17 DEF Has
  <2>2. frame[1 + 1] = h[1] /\ frame[1 + 2] = h[2] /\ frame[1 + 3] = h[3]
    BY ONLY <2>1, 1 \in 1 .. 3, 2 \in 1 .. 3, 3 \in 1 .. 3
  <2>3. QED
    BY ONLY <1>11, <2>2
<1>19. frame[n + 5] = x
  <2>1. frame[kg + 1] = x
    BY ONLY <1>8, <1>10, <1>13, <1>16, <1>17, HasByte
  <2>2. kg + 1 = n + 5
    BY ONLY <1>13, n \in Nat
  <2>3. QED
    BY ONLY <2>1, <2>2
<1>20. Len(frame) = n + 5
  BY ONLY <1>13, <1>16, n \in Nat
<1>21. SubSeq(frame, 2, 4 + n) = body
  <2>1. SubSeq(frame, 1 + 1, 1 + Len(body)) = body
    BY ONLY <1>14, <1>16, <1>17, HasFound, 1 \in Nat
  <2>2. 1 + 1 = 2 /\ 1 + Len(body) = 4 + n
    BY ONLY <1>13, <1>14, n \in Nat
  <2>3. QED
    BY ONLY <2>1, <2>2
<1>22. SubSeq(frame, 5, 4 + n) = data
  <2>1. SubSeq(frame, 4 + 1, 4 + Len(data)) = data
    BY ONLY <1>16, <1>17, HasFound, 4 \in Nat, data \in Seq(Octet)
  <2>2. 4 + 1 = 5 /\ 4 + Len(data) = 4 + n
    BY ONLY <1>1
  <2>3. QED
    BY ONLY <2>1, <2>2
<1>23. Heard(frame) = [type |-> type, id |-> id, data |-> data]
  <2>1. Heard(frame) = IF Len(frame) = n + 5 /\ CmdFCSCal(body, n + 3) = frame[n + 5]
                       THEN [type |-> type, id |-> id, data |-> data] ELSE Refused
    BY ONLY <1>18, <1>21, <1>22 DEF Heard
  <2>2. QED
    BY ONLY <1>7, <1>19, <1>20, <2>1
<1>24. QED
  BY ONLY <1>3, <1>9, <1>23 DEF Sent

(* Fields of a message of n bytes are bytes. *)
LEMMA AsduType ==
  ASSUME NEW n \in Nat
  PROVE  Sized(Asdu(n), n)
<1>1. ASSUME NEW i \in 1 .. n  PROVE Byte(37 * i + 11) \in Octet
  <2>1. PICK y \in Nat : y = 37 * i + 11
    OBVIOUS
  <2>2. y % 256 \in Nat /\ y % 256 < 256
    BY ONLY y \in Nat
  <2>3. QED
    BY <2>1, <2>2 DEF Byte, Octet
<1>2. Asdu(n) \in [1 .. n -> Octet]
  BY ONLY <1>1 DEF Asdu
<1>3. QED
  BY ONLY <1>2, n \in Nat DEF Sized

(* A byte where a sequence of them stands. *)
LEMMA HasAt ==
  ASSUME NEW b, NEW p \in Nat, NEW s, NEW k, Sized(s, k), Has(b, p, s),
         NEW i \in Nat, 1 <= i, i <= k
  PROVE  b[p + i] = s[i]
<1>1. Len(s) = k /\ k \in Nat
  BY DEF Sized
<1>2. \A j \in 1 .. Len(s) : b[p + j] = s[j]
  BY DEF Has
<1>3. i \in 1 .. Len(s)
  BY <1>1
<1>4. QED
  BY ONLY <1>2, <1>3

(* The low byte of two is the first. *)
LEMMA LowByte ==
  ASSUME NEW b, NEW s, NEW x, x \in Octet, b \in Seq(Octet), 1 <= Len(b), Sized(s, 2),
         Has(b, 0, s), s[1] = x
  PROVE  Has(b, 0, <<x>>)
<1>1. b[0 + 1] = x
  <2>1. Len(s) = 2 /\ \A i \in 1 .. Len(s) : b[0 + i] = s[i]
    BY DEF Sized, Has
  <2>2. 1 \in 1 .. 2
    OBVIOUS
  <2>3. b[0 + 1] = s[1]
    BY ONLY <2>1, <2>2
  <2>4. QED
    BY ONLY <2>3, s[1] = x
<1>2. 0 + 1 <= Len(b)
  BY ONLY b \in Seq(Octet), 1 <= Len(b)
<1>3. QED
  BY ONLY <1>1, <1>2, HasByte, x \in Octet, b \in Seq(Octet), 0 \in Nat

(* The data of a write to the network item. *)
Writes(d, o, v, n) ==
  /\ OsalNvWrite(NIB, o, v) = Command(33, 9, d) /\ Sized(d, 4 + n)
  /\ d[3] = o /\ d[4] = n /\ Has(d, 4, v)

(* OsalNvWrite() puts the value behind four bytes. *)
LEMMA NvWritten ==
  ASSUME NEW o \in Octet, NEW n \in Nat, 1 <= n, n <= NvLimit, NEW v, Sized(v, n)
  PROVE  \E d : Writes(d, o, v, n)
<1>1. NIB = 33 /\ NvLimit = 246
  BY DEF NIB, NvLimit
<1>2. n \in Octet
  BY <1>1 DEF Octet
<1>3. Len(v) = n /\ n \in 1 .. NvLimit
  BY <1>1 DEF Sized
<1>4. PICK a, h, g, d : a = ToBytes(NIB, 2) /\ h = <<o, n>> /\ Cat(g, a, h) /\ Cat(d, g, v)
  BY DEF Cat
<1>5. OsalNvWrite(NIB, o, v) = Command(33, 9, d)
  <2>1. d = (ToBytes(NIB, 2) \o <<o, Len(v)>>) \o v
    BY ONLY <1>3, <1>4 DEF Cat
  <2>2. Len(v) \in 1 .. NvLimit
    BY ONLY <1>3
  <2>3. QED
    BY ONLY <2>1, <2>2 DEF OsalNvWrite
<1>6. PICK k2, k4 \in Nat : k2 = 2 /\ k4 = k2 + k2
  OBVIOUS
<1>7. Sized(a, k2)
  <2>1. NIB \in Word
    BY <1>1 DEF Word
  <2>2. a \in Seq(Octet) /\ Len(a) = 2
    BY ONLY <1>4, <2>1, WordType
  <2>3. QED
    BY ONLY <1>6, <2>2 DEF Sized
<1>8. Sized(h, k2) /\ h[1] = o /\ h[2] = n
  <2>1. h \in Seq(Octet) /\ Len(h) = 2 /\ h[1] = o /\ h[2] = n
    BY ONLY <1>2, <1>4, o \in Octet
  <2>2. QED
    BY ONLY <1>6, <2>1 DEF Sized
<1>9. Parted(g, a, h, k2, k2)
  BY ONLY <1>4, <1>7, <1>8, CatType
<1>10. Sized(g, k4)
  BY ONLY <1>6, <1>9 DEF Parted, Sized
<1>11. Parted(d, g, v, k4, n)
  BY ONLY <1>4, <1>10, CatType, Sized(v, n)
<1>12. Has(d, 4, v) /\ Has(d, 2, h) /\ Sized(d, 4 + n)
  <2>1. d \in Seq(Octet) /\ k4 + n \in Nat /\ Len(d) = k4 + n
    BY ONLY <1>11 DEF Parted
  <2>2. Has(d, 0, d)
    BY ONLY <2>1, HasSelf
  <2>3. Has(d, 0, g) /\ Has(d, 0 + k4, v)
    BY ONLY <1>11, <2>1, <2>2, 0 \in Nat DEF Parted
  <2>4. Has(d, 0 + k2, h)
    BY ONLY <1>9, <2>1, <2>3, 0 \in Nat DEF Parted
  <2>5. 0 + k4 = 4 /\ 0 + k2 = 2 /\ k4 = 4
    BY ONLY <1>6
  <2>6. QED
    BY ONLY <2>1, <2>3, <2>4, <2>5 DEF Sized
<1>13. d[3] = o /\ d[4] = n
  <2>1. d[2 + 1] = h[1]
    BY ONLY <1>6, <1>8, <1>12, HasAt
  <2>2. d[2 + 2] = h[2]
    BY ONLY <1>6, <1>8, <1>12, HasAt
  <2>3. QED
    BY ONLY <1>8, <2>1, <2>2
<1>14. QED
  BY ONLY <1>5, <1>12, <1>13 DEF Writes

(* OsalNvRead() of the network item from its start. *)
LEMMA NvRead ==
  \E d : OsalNvRead(NIB, 0) = Command(33, 8, d) /\ Sized(d, 3) /\ d[3] = 0
<1>1. NIB = 33 /\ 0 \in Octet
  BY DEF NIB, Octet
<1>2. PICK a, h, d : a = ToBytes(NIB, 2) /\ h = <<0>> /\ Cat(d, a, h)
  BY DEF Cat
<1>3. OsalNvRead(NIB, 0) = Command(33, 8, d)
  BY ONLY <1>2 DEF Cat, OsalNvRead
<1>4. PICK k1, k2, k3 \in Nat : k1 = 1 /\ k2 = 2 /\ k3 = k2 + k1
  OBVIOUS
<1>5. Sized(a, k2)
  <2>1. NIB \in Word
    BY <1>1 DEF Word
  <2>2. a \in Seq(Octet) /\ Len(a) = 2
    BY ONLY <1>2, <2>1, WordType
  <2>3. QED
    BY ONLY <1>4, <2>2 DEF Sized
<1>6. Sized(h, k1) /\ h[1] = 0
  <2>1. h \in Seq(Octet) /\ Len(h) = 1 /\ h[1] = 0
    BY ONLY <1>1, <1>2
  <2>2. QED
    BY ONLY <1>4, <2>1 DEF Sized
<1>7. Parted(d, a, h, k2, k1)
  BY ONLY <1>2, <1>5, <1>6, CatType
<1>8. Sized(d, 3) /\ d[3] = 0
  <2>1. d \in Seq(Octet) /\ k2 + k1 \in Nat /\ Len(d) = k2 + k1
    BY ONLY <1>7 DEF Parted
  <2>2. Has(d, 0, d)
    BY ONLY <2>1, HasSelf
  <2>3. Has(d, 0 + k2, h)
    BY ONLY <1>7, <2>1, <2>2, 0 \in Nat DEF Parted
  <2>4. PICK p \in Nat : p = 0 + k2
    BY <1>4
  <2>5. d[p + k1] = h[1]
    <3>1. Has(d, p, h) /\ 1 <= k1 /\ k1 <= k1
      BY ONLY <1>4, <2>3, <2>4
    <3>2. d[p + k1] = h[k1]
      BY ONLY <1>6, <3>1, HasAt, k1 \in Nat, p \in Nat
    <3>3. QED
      BY ONLY <1>4, <3>2
  <2>6. p + k1 = 3 /\ k2 + k1 = 3
    BY ONLY <1>4, <2>4
  <2>7. QED
    BY ONLY <1>6, <2>1, <2>5, <2>6 DEF Sized
<1>9. QED
  BY ONLY <1>3, <1>8

(* setNwkUpdateId(), then getNwkUpdateId() and getChannel(): of the bytes of *)
(* the network item only the one that is set changes.                        *)
LEMMA NvKept ==
  ASSUME NEW x \in Octet, NEW b,
         b = ReadBack(NvStore(Item, Sent(setNwkUpdateId(x)).data))
  PROVE  getNwkUpdateId(b) = x /\ getChannel(b) = Item[ChannelAt + 1]
<1>1. NIB = 33 /\ UpdateIdAt = 109 /\ ChannelAt = 22 /\ NvLimit = 246
  BY DEF NIB, UpdateIdAt, ChannelAt, NvLimit
<1>2. /\ 33 \in Octet /\ 9 \in Octet /\ 8 \in Octet /\ 109 \in Octet /\ 0 \in Octet
      /\ 116 \in Octet
  BY DEF Octet
<1>3. Sized(<<x>>, 1)
  <2>1. <<x>> \in Seq(Octet) /\ Len(<<x>>) = 1
    OBVIOUS
  <2>2. QED
    BY ONLY <2>1 DEF Sized
<1>4. PICK d : Writes(d, UpdateIdAt, <<x>>, 1)
  <2>1. UpdateIdAt \in Octet /\ 1 \in Nat /\ 1 <= 1 /\ 1 <= NvLimit
    BY ONLY <1>1, <1>2
  <2>2. QED
    BY ONLY <1>3, <2>1, NvWritten
<1>5. d[3] = 109 /\ d[4] = 1 /\ d[5] = x /\ d \in Seq(Octet) /\ Len(d) <= 252
  <2>1. d[3] = 109 /\ d[4] = 1 /\ Has(d, 4, <<x>>) /\ Sized(d, 4 + 1)
    BY ONLY <1>1, <1>4 DEF Writes
  <2>2. d[4 + 1] = x
    BY ONLY <2>1, <2>1, HasByte, 4 \in Nat, x \in Octet DEF Sized
  <2>3. d \in Seq(Octet) /\ Len(d) = 4 + 1
    BY ONLY <2>1 DEF Sized
  <2>4. QED
    BY ONLY <2>1, <2>2, <2>3
<1>6. Sent(setNwkUpdateId(x)).data = d
  <2>1. setNwkUpdateId(x) = Command(33, 9, d)
    BY ONLY <1>4 DEF Writes, setNwkUpdateId
  <2>2. Sent(Command(33, 9, d)) = [type |-> 33, id |-> 9, data |-> d]
    BY ONLY <1>2, <1>5, SentKept
  <2>3. QED
    BY ONLY <2>1, <2>2
<1>7. PICK item : item = NvStore(Item, d)
  OBVIOUS
<1>8. Item \in Seq(Octet) /\ Len(Item) = 116 /\ DOMAIN Item = 1 .. 116
  <2>1. ASSUME NEW i \in 1 .. 116  PROVE Byte(3 * i) \in Octet
    <3>1. (3 * i) % 256 \in Nat /\ (3 * i) % 256 < 256
      OBVIOUS
    <3>2. QED
      BY ONLY <3>1 DEF Byte, Octet
  <2>2. Item \in [1 .. 116 -> Octet]
    BY ONLY <2>1 DEF Item
  <2>3. PICK n \in Nat : n = 116
    OBVIOUS
  <2>4. Item \in [1 .. n -> Octet]
    BY ONLY <2>2, <2>3
  <2>5. Item \in Seq(Octet) /\ Len(Item) = n /\ DOMAIN Item = 1 .. n
    BY ONLY <2>4, n \in Nat
  <2>6. QED
    BY ONLY <2>3, <2>5
<1>9. /\ Sized(item, 116) /\ item[110] = x /\ item[23] = Item[23]
  <2>1. item = [i \in 1 .. 116 |-> IF i \in 109 + 1 .. 109 + 1 THEN d[4 + i - 109] ELSE Item[i]]
    BY ONLY <1>5, <1>7, <1>8 DEF NvStore
  <2>2. item[110] = d[4 + 110 - 109] /\ item[23] = Item[23]
    <3>1. 110 \in 1 .. 116 /\ 23 \in 1 .. 116 /\ 110 \in 109 + 1 .. 109 + 1 /\ 23 \notin 109 + 1 .. 109 + 1
      OBVIOUS
    <3>2. QED
      BY ONLY <2>1, <3>1
  <2>3. ASSUME NEW i \in 1 .. 116  PROVE item[i] \in Octet
    <3>1. CASE i = 110
      BY ONLY <1>5, <2>2, <3>1, x \in Octet
    <3>2. CASE i # 110
      <4>1. i \notin 109 + 1 .. 109 + 1
        BY ONLY <3>2, i \in 1 .. 116
      <4>2. item[i] = Item[i]
        BY ONLY <2>1, <4>1, i \in 1 .. 116
      <4>3. Item[i] \in Octet
        <5>1. \A j \in 1 .. Len(Item) : Item[j] \in Octet
          <6>1. PICK s : s = Item
            OBVIOUS
          <6>2. s \in Seq(Octet)
            BY ONLY <1>8, <6>1
          <6>3. \A j \in 1 .. Len(s) : s[j] \in Octet
            BY ONLY <6>2
          <6>4. QED
            BY ONLY <6>1, <6>3
        <5>2. i \in 1 .. Len(Item)
          BY ONLY <1>8, i \in 1 .. 116
        <5>3. QED
          BY ONLY <5>1, <5>2
      <4>4. QED
        BY ONLY <4>2, <4>3
    <3>3. QED
      BY ONLY <3>1, <3>2
  <2>4. item \in [1 .. 116 -> Octet]
    BY ONLY <2>1, <2>3
  <2>5. 4 + 110 - 109 = 5
    OBVIOUS
  <2>6. item \in Seq(Octet) /\ Len(item) = 116 /\ 116 \in Nat
    <3>1. PICK n \in Nat : n = 116
      OBVIOUS
    <3>2. item \in [1 .. n -> Octet]
      BY ONLY <2>4, <3>1
    <3>3. item \in Seq(Octet) /\ Len(item) = n
      BY ONLY <3>2, n \in Nat
    <3>4. QED
      BY ONLY <3>1, <3>3
  <2>7. Sized(item, 116)
    BY ONLY <2>6 DEF Sized
  <2>8. QED
    BY ONLY <1>5, <2>2, <2>5, <2>7
<1>10. PICK r : OsalNvRead(NIB, 0) = Command(33, 8, r) /\ Sized(r, 3) /\ r[3] = 0
  BY ONLY NvRead
<1>11. Sent(OsalNvRead(NIB, 0)).data = r
  <2>1. r \in Seq(Octet) /\ Len(r) = 3
    BY ONLY <1>10 DEF Sized
  <2>2. Len(r) <= 252
    BY ONLY <2>1
  <2>3. Sent(Command(33, 8, r)) = [type |-> 33, id |-> 8, data |-> r]
    <3>1. 33 \in Octet /\ 8 \in Octet /\ r \in Seq(Octet) /\ Len(r) <= 252
      BY ONLY <1>2, <2>1, <2>2
    <3>2. QED
      BY ONLY <3>1, SentKept
  <2>4. QED
    BY ONLY <1>10, <2>3
<1>12. PICK h : h = <<0, 116>>
  OBVIOUS
<1>13. Cat(b, h, item)
  <2>1. b = NvAnswer(item, r)
    BY ONLY <1>6, <1>7, <1>11, b = ReadBack(NvStore(Item, Sent(setNwkUpdateId(x)).data)) DEF ReadBack
  <2>2. item \in Seq(Octet) /\ Len(item) = 116
    BY ONLY <1>9 DEF Sized
  <2>3. SubSeq(item, r[3] + 1, Len(item)) = item
    <3>1. Has(item, 0, item)
      BY ONLY <2>2, HasSelf
    <3>2. SubSeq(item, 0 + 1, 0 + Len(item)) = item
      BY ONLY <2>2, <3>1, HasFound, 0 \in Nat
    <3>3. r[3] + 1 = 0 + 1 /\ Len(item) = 0 + Len(item)
      BY ONLY <1>10, <2>2
    <3>4. QED
      BY ONLY <3>2, <3>3
  <2>4. b = <<0, Len(item)>> \o item
    BY ONLY <2>1, <2>3 DEF NvAnswer
  <2>5. QED
    BY ONLY <1>12, <2>2, <2>4 DEF Cat
<1>14. PICK k2, k116 \in Nat : k2 = 2 /\ k116 = 116
  OBVIOUS
<1>15. Sized(h, k2) /\ h[1] = 0 /\ h[2] = 116
  <2>1. h \in Seq(Octet) /\ Len(h) = 2 /\ h[1] = 0 /\ h[2] = 116
    BY ONLY <1>2, <1>12
  <2>2. QED
    BY ONLY <1>14, <2>1 DEF Sized
<1>16. Parted(b, h, item, k2, k116)
  <2>1. Sized(item, k116)
    BY ONLY <1>9, <1>14
  <2>2. QED
    BY ONLY <1>13, <1>15, <2>1, CatType
<1>17. b \in Seq(Octet) /\ Has(b, 0, h) /\ Has(b, 2, item)
  <2>1. b \in Seq(Octet)
    BY ONLY <1>16 DEF Parted
  <2>2. Has(b, 0, b)
    BY ONLY <2>1, HasSelf
  <2>3. Has(b, 0, h) /\ Has(b, 0 + k2, item)
    BY ONLY <1>16, <2>1, <2>2, 0 \in Nat DEF Parted
  <2>4. 0 + k2 = 2
    BY ONLY <1>14
  <2>5. QED
    BY ONLY <2>1, <2>3, <2>4
<1>18. b[2] = 116
  <2>1. 1 <= k2 /\ k2 <= k2 /\ 0 + k2 = 2
    BY ONLY <1>14
  <2>2. b[0 + k2] = h[k2]
    BY ONLY <1>15, <1>17, <2>1, HasAt, 0 \in Nat, k2 \in Nat
  <2>3. QED
    BY ONLY <1>14, <1>15, <2>1, <2>2
<1>19. NvItem(b).value = item
  <2>1. NvItem(b) = [status |-> b[1], value |-> SubSeq(b, 3, 2 + 116)]
    BY ONLY <1>18 DEF NvItem
  <2>2. item \in Seq(Octet) /\ Len(item) = 116
    BY ONLY <1>9 DEF Sized
  <2>3. PICK p \in Nat : p = 2
    OBVIOUS
  <2>4. SubSeq(b, p + 1, p + Len(item)) = item
    <3>1. Has(b, p, item) /\ b \in Seq(Octet) /\ item \in Seq(Octet)
      BY ONLY <1>17, <2>2, <2>3
    <3>2. QED
      BY ONLY <3>1, HasFound, p \in Nat
  <2>6. SubSeq(b, 3, 2 + 116) = item
    BY ONLY <2>2, <2>3, <2>4
  <2>7. QED
    BY ONLY <2>1, <2>6
<1>20. 109 + 1 = 110 /\ 22 + 1 = 23
  OBVIOUS
<1>21. getNwkUpdateId(b) = x
  BY ONLY <1>1, <1>9, <1>19, <1>20 DEF getNwkUpdateId
<1>22. getChannel(b) = Item[ChannelAt + 1]
  BY ONLY <1>1, <1>9, <1>19, <1>20 DEF getChannel
<1>23. QED
  BY ONLY <1>21, <1>22

(* Where the fields of the device info stand.                               *)
LEMMA JoinInfo ==
  ASSUME NEW xs, \A k \in 1 .. 6 : xs[k] \in Nat,
         NEW b, b = Join(<<1, 8, 2, 1, 1, 1>>, xs)
  PROVE  /\ Sized(b, 14)
         /\ Has(b, 0, ToBytes(xs[1], 1)) /\ Has(b, 1, ToBytes(xs[2], 8))
         /\ Has(b, 9, ToBytes(xs[3], 2)) /\ Has(b, 11, ToBytes(xs[4], 1))
         /\ Has(b, 12, ToBytes(xs[5], 1)) /\ Has(b, 13, ToBytes(xs[6], 1))
<1>1. PICK w : w = <<1, 8, 2, 1, 1, 1>>
  OBVIOUS
<1>2. w \in Seq(Nat) /\ Len(w) = 6
  BY <1>1
<1>3. /\ w[1] = 1 /\ w[2] = 8 /\ w[3] = 2 /\ w[4] = 1 /\ w[5] = 1
      /\ w[6] = 1
  BY <1>1
<1>4. PICK at \in [0 .. 6 -> Nat] : Joined(w, xs, at)
  <2>1. \A k \in 1 .. Len(w) : xs[k] \in Nat
    BY <1>2
  <2>2. \E at \in [0 .. Len(w) -> Nat] : Joined(w, xs, at)
    BY ONLY <1>2, <2>1, JoinParts
  <2>3. QED
    BY ONLY <1>2, <2>2
<1>5. /\ at[0] = 0 /\ \A k \in 1 .. 6 : at[k] = at[k - 1] + w[k]
      /\ b \in Seq(Octet) /\ Len(b) = at[6]
      /\ \A k \in 1 .. 6 : Has(b, at[k - 1], ToBytes(xs[k], w[k]))
  BY ONLY <1>1, <1>2, <1>4, b = Join(<<1, 8, 2, 1, 1, 1>>, xs) DEF Joined, Placed
<1>6. /\ 1 \in 1 .. 6 /\ 2 \in 1 .. 6 /\ 3 \in 1 .. 6 /\ 4 \in 1 .. 6 /\ 5 \in 1 .. 6
      /\ 6 \in 1 .. 6
  OBVIOUS
<1>7. /\ 1 - 1 = 0 /\ 2 - 1 = 1 /\ 3 - 1 = 2 /\ 4 - 1 = 3 /\ 5 - 1 = 4
      /\ 6 - 1 = 5
  OBVIOUS
<1>8. /\ at[1] = at[0] + w[1] /\ at[2] = at[1] + w[2] /\ at[3] = at[2] + w[3]
      /\ at[4] = at[3] + w[4] /\ at[5] = at[4] + w[5] /\ at[6] = at[5] + w[6]
  BY ONLY <1>5, <1>6, <1>7
<1>9. /\ at[0] = 0 /\ at[1] = 1 /\ at[2] = 9 /\ at[3] = 11 /\ at[4] = 12
      /\ at[5] = 13 /\ at[6] = 14
  BY ONLY <1>3, <1>5, <1>8
<1>10. /\ Has(b, at[0], ToBytes(xs[1], w[1])) /\ Has(b, at[1], ToBytes(xs[2], w[2]))
       /\ Has(b, at[2], ToBytes(xs[3], w[3])) /\ Has(b, at[3], ToBytes(xs[4], w[4]))
       /\ Has(b, at[4], ToBytes(xs[5], w[5])) /\ Has(b, at[5], ToBytes(xs[6], w[6]))
  BY ONLY <1>5, <1>6, <1>7
<1>11. Sized(b, 14)
  <2>1. 14 \in Nat
    OBVIOUS
  <2>2. QED
    BY ONLY <1>5, <1>9, <2>1 DEF Sized
<1>12. QED
  BY ONLY <1>3, <1>9, <1>10, <1>11

(* Those of an announcement.                                                *)
LEMMA JoinAnnce ==
  ASSUME NEW xs, \A k \in 1 .. 4 : xs[k] \in Nat,
         NEW b, b = Join(<<1, 2, 8, 1>>, xs)
  PROVE  /\ Sized(b, 12)
         /\ Has(b, 0, ToBytes(xs[1], 1)) /\ Has(b, 1, ToBytes(xs[2], 2))
         /\ Has(b, 3, ToBytes(xs[3], 8)) /\ Has(b, 11, ToBytes(xs[4], 1))
<1>1. PICK w : w = <<1, 2, 8, 1>>
  OBVIOUS
<1>2. w \in Seq(Nat) /\ Len(w) = 4
  BY <1>1
<1>3. /\ w[1] = 1 /\ w[2] = 2 /\ w[3] = 8 /\ w[4] = 1
  BY <1>1
<1>4. PICK at \in [0 .. 4 -> Nat] : Joined(w, xs, at)
  <2>1. \A k \in 1 .. Len(w) : xs[k] \in Nat
    BY <1>2
  <2>2. \E at \in [0 .. Len(w) -> Nat] : Joined(w, xs, at)
    BY ONLY <1>2, <2>1, JoinParts
  <2>3. QED
    BY ONLY <1>2, <2>2
<1>5. /\ at[0] = 0 /\ \A k \in 1 .. 4 : at[k] = at[k - 1] + w[k]
      /\ b \in Seq(Octet) /\ Len(b) = at[4]
      /\ \A k \in 1 .. 4 : Has(b, at[k - 1], ToBytes(xs[k], w[k]))
  BY ONLY <1>1, <1>2, <1>4, b = Join(<<1, 2, 8, 1>>, xs) DEF Joined, Placed
<1>6. /\ 1 \in 1 .. 4 /\ 2 \in 1 .. 4 /\ 3 \in 1 .. 4 /\ 4 \in 1 .. 4
  OBVIOUS
<1>7. /\ 1 - 1 = 0 /\ 2 - 1 = 1 /\ 3 - 1 = 2 /\ 4 - 1 = 3
  OBVIOUS
<1>8. /\ at[1] = at[0] + w[1] /\ at[2] = at[1] + w[2] /\ at[3] = at[2] + w[3]
      /\ at[4] = at[3] + w[4]
  BY ONLY <1>5, <1>6, <1>7
<1>9. /\ at[0] = 0 /\ at[1] = 1 /\ at[2] = 3 /\ at[3] = 11 /\ at[4] = 12
  BY ONLY <1>3, <1>5, <1>8
<1>10. /\ Has(b, at[0], ToBytes(xs[1], w[1])) /\ Has(b, at[1], ToBytes(xs[2], w[2]))
       /\ Has(b, at[2], ToBytes(xs[3], w[3])) /\ Has(b, at[3], ToBytes(xs[4], w[4]))
  BY ONLY <1>5, <1>6, <1>7
<1>11. Sized(b, 12)
  <2>1. 12 \in Nat
    OBVIOUS
  <2>2. QED
    BY ONLY <1>5, <1>9, <2>1 DEF Sized
<1>12. QED
  BY ONLY <1>3, <1>9, <1>10, <1>11

(* Those of an AF message before its asdu.                                  *)
LEMMA JoinIn ==
  ASSUME NEW xs, \A k \in 1 .. 11 : xs[k] \in Nat,
         NEW b, b = Join(<<2, 2, 2, 1, 1, 1, 1, 1, 4, 1, 1>>, xs)
  PROVE  /\ Sized(b, 17)
         /\ Has(b, 0, ToBytes(xs[1], 2)) /\ Has(b, 2, ToBytes(xs[2], 2))
         /\ Has(b, 4, ToBytes(xs[3], 2)) /\ Has(b, 6, ToBytes(xs[4], 1))
         /\ Has(b, 7, ToBytes(xs[5], 1)) /\ Has(b, 8, ToBytes(xs[6], 1))
         /\ Has(b, 9, ToBytes(xs[7], 1)) /\ Has(b, 10, ToBytes(xs[8], 1))
         /\ Has(b, 11, ToBytes(xs[9], 4)) /\ Has(b, 15, ToBytes(xs[10], 1))
         /\ Has(b, 16, ToBytes(xs[11], 1))
<1>1. PICK w : w = <<2, 2, 2, 1, 1, 1, 1, 1, 4, 1, 1>>
  OBVIOUS
<1>2. w \in Seq(Nat) /\ Len(w) = 11
  BY <1>1
<1>3. /\ w[1] = 2 /\ w[2] = 2 /\ w[3] = 2 /\ w[4] = 1 /\ w[5] = 1
      /\ w[6] = 1 /\ w[7] = 1 /\ w[8] = 1 /\ w[9] = 4 /\ w[10] = 1
      /\ w[11] = 1
  BY <1>1
<1>4. PICK at \in [0 .. 11 -> Nat] : Joined(w, xs, at)
  <2>1. \A k \in 1 .. Len(w) : xs[k] \in Nat
    BY <1>2
  <2>2. \E at \in [0 .. Len(w) -> Nat] : Joined(w, xs, at)
    BY ONLY <1>2, <2>1, JoinParts
  <2>3. QED
    BY ONLY <1>2, <2>2
<1>5. /\ at[0] = 0 /\ \A k \in 1 .. 11 : at[k] = at[k - 1] + w[k]
      /\ b \in Seq(Octet) /\ Len(b) = at[11]
      /\ \A k \in 1 .. 11 : Has(b, at[k - 1], ToBytes(xs[k], w[k]))
  BY ONLY <1>1, <1>2, <1>4, b = Join(<<2, 2, 2, 1, 1, 1, 1, 1, 4, 1, 1>>, xs) DEF Joined, Placed
<1>6. /\ 1 \in 1 .. 11 /\ 2 \in 1 .. 11 /\ 3 \in 1 .. 11 /\ 4 \in 1 .. 11 /\ 5 \in 1 .. 11
      /\ 6 \in 1 .. 11 /\ 7 \in 1 .. 11 /\ 8 \in 1 .. 11 /\ 9 \in 1 .. 11 /\ 10 \in 1 .. 11
      /\ 11 \in 1 .. 11
  OBVIOUS
<1>7. /\ 1 - 1 = 0 /\ 2 - 1 = 1 /\ 3 - 1 = 2 /\ 4 - 1 = 3 /\ 5 - 1 = 4
      /\ 6 - 1 = 5 /\ 7 - 1 = 6 /\ 8 - 1 = 7 /\ 9 - 1 = 8 /\ 10 - 1 = 9
      /\ 11 - 1 = 10
  OBVIOUS
<1>8. /\ at[1] = at[0] + w[1] /\ at[2] = at[1] + w[2] /\ at[3] = at[2] + w[3]
      /\ at[4] = at[3] + w[4] /\ at[5] = at[4] + w[5] /\ at[6] = at[5] + w[6]
      /\ at[7] = at[6] + w[7] /\ at[8] = at[7] + w[8] /\ at[9] = at[8] + w[9]
      /\ at[10] = at[9] + w[10] /\ at[11] = at[10] + w[11]
  BY ONLY <1>5, <1>6, <1>7
<1>9. /\ at[0] = 0 /\ at[1] = 2 /\ at[2] = 4 /\ at[3] = 6 /\ at[4] = 7
      /\ at[5] = 8 /\ at[6] = 9 /\ at[7] = 10 /\ at[8] = 11 /\ at[9] = 15
      /\ at[10] = 16 /\ at[11] = 17
  BY ONLY <1>3, <1>5, <1>8
<1>10. /\ Has(b, at[0], ToBytes(xs[1], w[1])) /\ Has(b, at[1], ToBytes(xs[2], w[2]))
       /\ Has(b, at[2], ToBytes(xs[3], w[3])) /\ Has(b, at[3], ToBytes(xs[4], w[4]))
       /\ Has(b, at[4], ToBytes(xs[5], w[5])) /\ Has(b, at[5], ToBytes(xs[6], w[6]))
       /\ Has(b, at[6], ToBytes(xs[7], w[7])) /\ Has(b, at[7], ToBytes(xs[8], w[8]))
       /\ Has(b, at[8], ToBytes(xs[9], w[9])) /\ Has(b, at[9], ToBytes(xs[10], w[10]))
       /\ Has(b, at[10], ToBytes(xs[11], w[11]))
  BY ONLY <1>5, <1>6, <1>7
<1>11. Sized(b, 17)
  <2>1. 17 \in Nat
    OBVIOUS
  <2>2. QED
    BY ONLY <1>5, <1>9, <2>1 DEF Sized
<1>12. QED
  BY ONLY <1>3, <1>9, <1>10, <1>11

(* And of an extended one.                                                  *)
LEMMA JoinInExt ==
  ASSUME NEW xs, \A k \in 1 .. 13 : xs[k] \in Nat,
         NEW b, b = Join(<<2, 2, 1, 8, 1, 2, 1, 1, 1, 1, 4, 1, 2>>, xs)
  PROVE  /\ Sized(b, 27)
         /\ Has(b, 0, ToBytes(xs[1], 2)) /\ Has(b, 2, ToBytes(xs[2], 2))
         /\ Has(b, 4, ToBytes(xs[3], 1)) /\ Has(b, 5, ToBytes(xs[4], 8))
         /\ Has(b, 13, ToBytes(xs[5], 1)) /\ Has(b, 14, ToBytes(xs[6], 2))
         /\ Has(b, 16, ToBytes(xs[7], 1)) /\ Has(b, 17, ToBytes(xs[8], 1))
         /\ Has(b, 18, ToBytes(xs[9], 1)) /\ Has(b, 19, ToBytes(xs[10], 1))
         /\ Has(b, 20, ToBytes(xs[11], 4)) /\ Has(b, 24, ToBytes(xs[12], 1))
         /\ Has(b, 25, ToBytes(xs[13], 2))
<1>1. PICK w : w = <<2, 2, 1, 8, 1, 2, 1, 1, 1, 1, 4, 1, 2>>
  OBVIOUS
<1>2. w \in Seq(Nat) /\ Len(w) = 13
  BY <1>1
<1>3. /\ w[1] = 2 /\ w[2] = 2 /\ w[3] = 1 /\ w[4] = 8 /\ w[5] = 1
      /\ w[6] = 2 /\ w[7] = 1 /\ w[8] = 1 /\ w[9] = 1 /\ w[10] = 1
      /\ w[11] = 4 /\ w[12] = 1 /\ w[13] = 2
  BY <1>1
<1>4. PICK at \in [0 .. 13 -> Nat] : Joined(w, xs, at)
  <2>1. \A k \in 1 .. Len(w) : xs[k] \in Nat
    BY <1>2
  <2>2. \E at \in [0 .. Len(w) -> Nat] : Joined(w, xs, at)
    BY ONLY <1>2, <2>1, JoinParts
  <2>3. QED
    BY ONLY <1>2, <2>2
<1>5. /\ at[0] = 0 /\ \A k \in 1 .. 13 : at[k] = at[k - 1] + w[k]
      /\ b \in Seq(Octet) /\ Len(b) = at[13]
      /\ \A k \in 1 .. 13 : Has(b, at[k - 1], ToBytes(xs[k], w[k]))
  BY ONLY <1>1, <1>2, <1>4, b = Join(<<2, 2, 1, 8, 1, 2, 1, 1, 1, 1, 4, 1, 2>>, xs) DEF Joined, Placed
<1>6. /\ 1 \in 1 .. 13 /\ 2 \in 1 .. 13 /\ 3 \in 1 .. 13 /\ 4 \in 1 .. 13 /\ 5 \in 1 .. 13
      /\ 6 \in 1 .. 13 /\ 7 \in 1 .. 13 /\ 8 \in 1 .. 13 /\ 9 \in 1 .. 13 /\ 10 \in 1 .. 13
      /\ 11 \in 1 .. 13 /\ 12 \in 1 .. 13 /\ 13 \in 1 .. 13
  OBVIOUS
<1>7. /\ 1 - 1 = 0 /\ 2 - 1 = 1 /\ 3 - 1 = 2 /\ 4 - 1 = 3 /\ 5 - 1 = 4
      /\ 6 - 1 = 5 /\ 7 - 1 = 6 /\ 8 - 1 = 7 /\ 9 - 1 = 8 /\ 10 - 1 = 9
      /\ 11 - 1 = 10 /\ 12 - 1 = 11 /\ 13 - 1 = 12
  OBVIOUS
<1>8. /\ at[1] = at[0] + w[1] /\ at[2] = at[1] + w[2] /\ at[3] = at[2] + w[3]
      /\ at[4] = at[3] + w[4] /\ at[5] = at[4] + w[5] /\ at[6] = at[5] + w[6]
      /\ at[7] = at[6] + w[7] /\ at[8] = at[7] + w[8] /\ at[9] = at[8] + w[9]
      /\ at[10] = at[9] + w[10] /\ at[11] = at[10] + w[11] /\ at[12] = at[11] + w[12]
      /\ at[13] = at[12] + w[13]
  BY ONLY <1>5, <1>6, <1>7
<1>9. /\ at[0] = 0 /\ at[1] = 2 /\ at[2] = 4 /\ at[3] = 5 /\ at[4] = 13
      /\ at[5] = 14 /\ at[6] = 16 /\ at[7] = 17 /\ at[8] = 18 /\ at[9] = 19
      /\ at[10] = 20 /\ at[11] = 24 /\ at[12] = 25 /\ at[13] = 27
  BY ONLY <1>3, <1>5, <1>8
<1>10. /\ Has(b, at[0], ToBytes(xs[1], w[1])) /\ Has(b, at[1], ToBytes(xs[2], w[2]))
       /\ Has(b, at[2], ToBytes(xs[3], w[3])) /\ Has(b, at[3], ToBytes(xs[4], w[4]))
       /\ Has(b, at[4], ToBytes(xs[5], w[5])) /\ Has(b, at[5], ToBytes(xs[6], w[6]))
       /\ Has(b, at[6], ToBytes(xs[7], w[7])) /\ Has(b, at[7], ToBytes(xs[8], w[8]))
       /\ Has(b, at[8], ToBytes(xs[9], w[9])) /\ Has(b, at[9], ToBytes(xs[10], w[10]))
       /\ Has(b, at[10], ToBytes(xs[11], w[11])) /\ Has(b, at[11], ToBytes(xs[12], w[12]))
       /\ Has(b, at[12], ToBytes(xs[13], w[13]))
  BY ONLY <1>5, <1>6, <1>7
<1>11. Sized(b, 27)
  <2>1. 27 \in Nat
    OBVIOUS
  <2>2. QED
    BY ONLY <1>5, <1>9, <2>1 DEF Sized
<1>12. QED
  BY ONLY <1>3, <1>9, <1>10, <1>11

(* What was joined is split into itself.                                     *)
LEMMA SplitSelf ==
  ASSUME NEW n \in Nat, NEW w, NEW xs, w \in Seq(Nat), xs \in Seq(Nat), Len(w) = n, Len(xs) = n,
         \A k \in 1 .. n : Fitting(xs[k], w[k])
  PROVE  Split(w, Join(w, xs)) = xs
<1>1. \A k \in 1 .. Len(w) : xs[k] \in Nat /\ Fitting(xs[k], w[k])
  OBVIOUS
<1>2. PICK b : b = Join(w, xs)
  OBVIOUS
<1>3. b \in Seq(Octet)
  <2>1. \A k \in 1 .. Len(w) : xs[k] \in Nat
    BY ONLY <1>1
  <2>2. \E at \in [0 .. Len(w) -> Nat] : Joined(w, xs, at)
    BY ONLY <2>1, JoinParts, w \in Seq(Nat)
  <2>3. QED
    BY ONLY <1>2, <2>2 DEF Joined
<1>4. Has(b, 0, Join(w, xs))
  BY ONLY <1>2, <1>3, HasSelf
<1>5. Split(w, b) = [k \in 1 .. Len(w) |-> xs[k]]
  BY ONLY <1>1, <1>3, <1>4, SplitKept, w \in Seq(Nat)
<1>6. [k \in 1 .. Len(w) |-> xs[k]] = xs
  BY ONLY xs \in Seq(Nat), Len(xs) = n, Len(w) = n, n \in Nat
<1>7. QED
  BY ONLY <1>2, <1>5, <1>6

(* The numbers that stand for themselves in the tables and messages.         *)
LEMMA NumbersFit ==
  /\ \A x \in Word : \A n \in Nat : n >= 2 => x \in Nat /\ Fitting(x, n)
  /\ \A x \in Octet : \A n \in Nat : n >= 1 => x \in Nat /\ Fitting(x, n)
  /\ 67305985 \in Nat /\ \A n \in Nat : n >= 4 => Fitting(67305985, n)
<1>1. QED
  BY DEF Fitting, Word, Octet

(* getAssocInfo()                                                           *)
LEMMA AssocRead ==
  ASSUME NEW x \in Word
  PROVE  Split(<<2, 2, 1, 1, 1, 1, 1, 1, 1, 1, 4, 2>>,
               Join(<<2, 2, 1, 1, 1, 1, 1, 1, 1, 1, 4, 2>>,
                    <<x, 513, 1, 2, 3, 4, 5, 6, 7, 8, 67305985, x>>))
           = <<x, 513, 1, 2, 3, 4, 5, 6, 7, 8, 67305985, x>>
<1>1. PICK w : w = <<2, 2, 1, 1, 1, 1, 1, 1, 1, 1, 4, 2>>
  OBVIOUS
<1> DEFINE xs == <<x, 513, 1, 2, 3, 4, 5, 6, 7, 8, 67305985, x>>
<1>2. xs = <<x, 513, 1, 2, 3, 4, 5, 6, 7, 8, 67305985, x>>
  OBVIOUS
<1> HIDE DEF xs
<1>3. w \in Seq(Nat) /\ Len(w) = 12
  BY ONLY <1>1
<1>4. x \in Nat
  BY ONLY WordType, x \in Word
<1>5. xs \in Seq(Nat) /\ Len(xs) = 12
  BY ONLY <1>2, <1>4
<1>6. \A k \in 1 .. 12 : Fitting(xs[k], w[k])
  <2>1. /\ 1 \in Octet /\ 2 \in Octet /\ 3 \in Octet /\ 4 \in Octet /\ 5 \in Octet
        /\ 6 \in Octet /\ 7 \in Octet /\ 8 \in Octet
        /\ 513 \in Word
    BY ONLY DEF Octet, Word
  <2>2. 1 \in Nat /\ 1 >= 1 /\ 2 \in Nat /\ 2 >= 1 /\ 4 \in Nat /\ 4 >= 1
        /\ 2 >= 2 /\ 4 >= 2 /\ 4 >= 4
    OBVIOUS
  <2>3. /\ Fitting(x, 2) /\ Fitting(513, 2) /\ Fitting(1, 1)
        /\ Fitting(2, 1) /\ Fitting(3, 1) /\ Fitting(4, 1)
        /\ Fitting(5, 1) /\ Fitting(6, 1) /\ Fitting(7, 1)
        /\ Fitting(8, 1) /\ Fitting(67305985, 4) /\ Fitting(x, 2)
    BY ONLY <2>1, <2>2, NumbersFit, x \in Word
  <2>4. /\ xs[1] = x /\ w[1] = 2 /\ xs[2] = 513 /\ w[2] = 2 /\ xs[3] = 1 /\ w[3] = 1
        /\ xs[4] = 2 /\ w[4] = 1 /\ xs[5] = 3 /\ w[5] = 1 /\ xs[6] = 4 /\ w[6] = 1
        /\ xs[7] = 5 /\ w[7] = 1 /\ xs[8] = 6 /\ w[8] = 1 /\ xs[9] = 7 /\ w[9] = 1
        /\ xs[10] = 8 /\ w[10] = 1 /\ xs[11] = 67305985 /\ w[11] = 4 /\ xs[12] = x /\ w[12] = 2
    BY ONLY <1>1, <1>2
  <2>5. /\ Fitting(xs[1], w[1]) /\ Fitting(xs[2], w[2]) /\ Fitting(xs[3], w[3])
        /\ Fitting(xs[4], w[4]) /\ Fitting(xs[5], w[5]) /\ Fitting(xs[6], w[6])
        /\ Fitting(xs[7], w[7]) /\ Fitting(xs[8], w[8]) /\ Fitting(xs[9], w[9])
        /\ Fitting(xs[10], w[10]) /\ Fitting(xs[11], w[11]) /\ Fitting(xs[12], w[12])
    BY ONLY <2>3, <2>4
  <2>6. ASSUME NEW k \in 1 .. 12  PROVE Fitting(xs[k], w[k])
    <3>1. \/ k = 1 \/ k = 2 \/ k = 3 \/ k = 4 \/ k = 5 \/ k = 6 \/ k = 7
          \/ k = 8 \/ k = 9 \/ k = 10 \/ k = 11 \/ k = 12
      OBVIOUS
    <3>2. QED
      BY ONLY <2>5, <3>1
  <2>7. QED
    BY ONLY <2>6
<1>7. Split(w, Join(w, xs)) = xs
  BY ONLY <1>3, <1>5, <1>6, SplitSelf, 12 \in Nat
<1>8. QED
  BY ONLY <1>1, <1>2, <1>7

(* GetNvInfo()                                                              *)
LEMMA NvInfoRead ==
  ASSUME NEW x \in Word
  PROVE  Split(<<1, 8, 4, 2, 1>>,
               Join(<<1, 8, 4, 2, 1>>, <<0, x, 2048, x, 5>>))
           = <<0, x, 2048, x, 5>>
<1>1. PICK w : w = <<1, 8, 4, 2, 1>>
  OBVIOUS
<1> DEFINE xs == <<0, x, 2048, x, 5>>
<1>2. xs = <<0, x, 2048, x, 5>>
  OBVIOUS
<1> HIDE DEF xs
<1>3. w \in Seq(Nat) /\ Len(w) = 5
  BY ONLY <1>1
<1>4. x \in Nat
  BY ONLY WordType, x \in Word
<1>5. xs \in Seq(Nat) /\ Len(xs) = 5
  BY ONLY <1>2, <1>4
<1>6. \A k \in 1 .. 5 : Fitting(xs[k], w[k])
  <2>1. /\ 0 \in Octet /\ 5 \in Octet
        /\ 2048 \in Word
    BY ONLY DEF Octet, Word
  <2>2. 1 \in Nat /\ 1 >= 1 /\ 2 \in Nat /\ 2 >= 1 /\ 4 \in Nat /\ 4 >= 1 /\ 8 \in Nat /\ 8 >= 1
        /\ 2 >= 2 /\ 4 >= 2 /\ 8 >= 2 /\ 4 >= 4 /\ 8 >= 4
    OBVIOUS
  <2>3. /\ Fitting(0, 1) /\ Fitting(x, 8) /\ Fitting(2048, 4)
        /\ Fitting(x, 2) /\ Fitting(5, 1)
    BY ONLY <2>1, <2>2, NumbersFit, x \in Word
  <2>4. /\ xs[1] = 0 /\ w[1] = 1 /\ xs[2] = x /\ w[2] = 8 /\ xs[3] = 2048 /\ w[3] = 4
        /\ xs[4] = x /\ w[4] = 2 /\ xs[5] = 5 /\ w[5] = 1
    BY ONLY <1>1, <1>2
  <2>5. /\ Fitting(xs[1], w[1]) /\ Fitting(xs[2], w[2]) /\ Fitting(xs[3], w[3])
        /\ Fitting(xs[4], w[4]) /\ Fitting(xs[5], w[5])
    BY ONLY <2>3, <2>4
  <2>6. ASSUME NEW k \in 1 .. 5  PROVE Fitting(xs[k], w[k])
    <3>1. k = 1 \/ k = 2 \/ k = 3 \/ k = 4 \/ k = 5
      OBVIOUS
    <3>2. QED
      BY ONLY <2>5, <3>1
  <2>7. QED
    BY ONLY <2>6
<1>7. Split(w, Join(w, xs)) = xs
  BY ONLY <1>3, <1>5, <1>6, SplitSelf, 5 \in Nat
<1>8. QED
  BY ONLY <1>1, <1>2, <1>7

(* getDeviceInfo()                                                          *)
LEMMA InfoRead ==
  ASSUME NEW x \in Word
  PROVE  getDeviceInfo(Join(<<1, 8, 2, 1, 1, 1>>, <<0, x, x, 7, 9, 1>>)) = <<0, x, x, 7, 9, 1>>
<1> DEFINE xs == <<0, x, x, 7, 9, 1>>
<1>1. xs = <<0, x, x, 7, 9, 1>>
  OBVIOUS
<1> HIDE DEF xs
<1>2. x \in Nat /\ Fitting(x, 8) /\ Fitting(x, 2)
  BY ONLY NumbersFit, x \in Word, 8 \in Nat, 2 \in Nat, 8 >= 2, 2 >= 2
<1>3. xs[1] = 0 /\ xs[2] = x /\ xs[3] = x /\ xs[4] = 7 /\ xs[5] = 9 /\ xs[6] = 1
  BY ONLY <1>1
<1>4. \A k \in 1 .. 6 : xs[k] \in Nat
  BY ONLY <1>1, <1>2
<1>5. PICK b : b = Join(<<1, 8, 2, 1, 1, 1>>, xs)
  OBVIOUS
<1>6. /\ Sized(b, 14)
      /\ Has(b, 0, ToBytes(0, 1)) /\ Has(b, 1, ToBytes(x, 8)) /\ Has(b, 9, ToBytes(x, 2))
      /\ Has(b, 11, ToBytes(7, 1)) /\ Has(b, 12, ToBytes(9, 1)) /\ Has(b, 13, ToBytes(1, 1))
  BY ONLY <1>3, <1>4, <1>5, JoinInfo
<1>7. b \in Seq(Octet)
  BY ONLY <1>6 DEF Sized
<1>8. /\ ToBytes(0, 1) = <<0>> /\ ToBytes(7, 1) = <<7>> /\ ToBytes(9, 1) = <<9>>
      /\ ToBytes(1, 1) = <<1>>
  BY ONLY OneByte, 0 \in 0 .. 255, 7 \in 0 .. 255, 9 \in 0 .. 255, 1 \in 0 .. 255
<1>9. b[0 + 1] = 0 /\ b[11 + 1] = 7 /\ b[12 + 1] = 9 /\ b[13 + 1] = 1
  <2>1. 0 \in Octet /\ 7 \in Octet /\ 9 \in Octet /\ 1 \in Octet
    BY ONLY DEF Octet
  <2>2. 0 \in Nat /\ 11 \in Nat /\ 12 \in Nat /\ 13 \in Nat
    OBVIOUS
  <2>3. QED
    BY ONLY <1>6, <1>7, <1>8, <2>1, <2>2, HasByte
<1>10. FromBytes(SubSeq(b, 1 + 1, 1 + 8)) = x /\ FromBytes(SubSeq(b, 9 + 1, 9 + 2)) = x
  BY ONLY <1>2, <1>6, <1>7, FieldKept, 1 \in Nat, 9 \in Nat, 8 \in Nat, 2 \in Nat
<1>11. /\ 0 + 1 = 1 /\ 11 + 1 = 12 /\ 12 + 1 = 13 /\ 13 + 1 = 14 /\ 1 + 1 = 2 /\ 1 + 8 = 9
       /\ 9 + 1 = 10 /\ 9 + 2 = 11
  OBVIOUS
<1>12. getDeviceInfo(b) = <<0, x, x, 7, 9, 1>>
  BY ONLY <1>9, <1>10, <1>11 DEF getDeviceInfo
<1>13. QED
  BY ONLY <1>1, <1>5, <1>12

(* getAssocExtAddr(), getAssocNwkAddr(), getAssocCount()                    *)
LEMMA AddrRead ==
  ASSUME NEW x \in Word
  PROVE  /\ getAssocExtAddr(ToBytes(x, 8)) = x /\ getAssocNwkAddr(ToBytes(x, 2)) = x
         /\ getAssocCount(ToBytes(x, 2)) = x
<1>1. ASSUME NEW n \in Nat, n >= 2  PROVE FromBytes(SubSeq(ToBytes(x, n), 1, n)) = x
  <2>1. x \in Nat /\ Fitting(x, n)
    BY ONLY <1>1, NumbersFit, x \in Word, n \in Nat
  <2>2. ToBytes(x, n) \in Seq(Octet)
    BY ONLY <2>1, BytesOf, n \in Nat
  <2>3. Has(ToBytes(x, n), 0, ToBytes(x, n))
    BY ONLY <2>2, HasSelf
  <2>4. FromBytes(SubSeq(ToBytes(x, n), 0 + 1, 0 + n)) = x
    BY ONLY <2>1, <2>2, <2>3, FieldKept, 0 \in Nat, n \in Nat
  <2>5. QED
    BY ONLY <2>4, 0 + 1 = 1, 0 + n = n
<1>2. 8 \in Nat /\ 8 >= 2 /\ 2 \in Nat /\ 2 >= 2
  OBVIOUS
<1>3. QED
  BY ONLY <1>1, <1>2 DEF getAssocExtAddr, getAssocNwkAddr, getAssocCount

(* An announcement that is cut short is refused, a whole one is read.       *)
LEMMA AnnceRead ==
  ASSUME NEW x \in Word, NEW y \in Nat, Fitting(y, 8), NEW n \in Nat, n <= 12,
         NEW a, a = Annce(SubSeq(AnnceAsdu(x, y), 1, n))
  PROVE  IF n < 12 THEN a = Refused ELSE a.nwkAddr = x /\ a.ieeeAddr = y
<1>1. PICK w : w = <<1, 2, 8, 1>>
  OBVIOUS
<1> DEFINE xs == <<0, x, y, 142>>
<1>2. xs = <<0, x, y, 142>>
  OBVIOUS
<1> HIDE DEF xs
<1>3. w \in Seq(Nat) /\ Len(w) = 4 /\ x \in Nat
  BY ONLY <1>1, WordType, x \in Word
<1>4. /\ xs[1] = 0 /\ xs[2] = x /\ xs[3] = y /\ xs[4] = 142
      /\ w[1] = 1 /\ w[2] = 2 /\ w[3] = 8 /\ w[4] = 1
  BY ONLY <1>1, <1>2
<1>5. xs \in Seq(Nat) /\ Len(xs) = 4 /\ \A k \in 1 .. 4 : xs[k] \in Nat
  BY ONLY <1>2, <1>3, y \in Nat
<1>6. Fitting(0, 1) /\ Fitting(x, 2) /\ Fitting(y, 8) /\ Fitting(142, 1)
  <2>1. 0 \in Octet /\ 142 \in Octet
    BY ONLY DEF Octet
  <2>2. 1 \in Nat /\ 1 >= 1 /\ 2 \in Nat /\ 2 >= 2
    OBVIOUS
  <2>3. QED
    BY ONLY <2>1, <2>2, NumbersFit, x \in Word, Fitting(y, 8)
<1>7. ASSUME NEW k \in 1 .. 4  PROVE Fitting(xs[k], w[k])
  <2>1. k = 1 \/ k = 2 \/ k = 3 \/ k = 4
    OBVIOUS
  <2>2. QED
    BY ONLY <1>4, <1>6, <2>1
<1>8. Split(w, Join(w, xs)) = xs
  BY ONLY <1>3, <1>5, <1>7, SplitSelf, 4 \in Nat
<1>9. PICK b : b = Join(<<1, 2, 8, 1>>, xs)
  OBVIOUS
<1>10. b = AnnceAsdu(x, y) /\ b = Join(w, xs)
  BY ONLY <1>1, <1>2, <1>9 DEF AnnceAsdu
<1>11. b \in Seq(Octet) /\ Len(b) = 12
  <2>1. Sized(b, 12)
    BY ONLY <1>5, <1>9, JoinAnnce
  <2>2. QED
    BY ONLY <2>1 DEF Sized
<1>12. CASE n < 12
  <2>1. \A i \in 1 .. n : b[i] \in Octet
    <3>1. \A i \in 1 .. n : i \in 1 .. 12
      BY ONLY <1>12, n \in Nat
    <3>2. \A i \in 1 .. Len(b) : b[i] \in Octet
      <4>1. b \in Seq(Octet)
        BY ONLY <1>11
      <4>2. QED
        BY ONLY <4>1
    <3>3. QED
      BY ONLY <1>11, <3>1, <3>2
  <2>2. Len(SubSeq(b, 1, n)) = IF 1 <= n THEN n - 1 + 1 ELSE 0
    BY ONLY <2>1, SubSeqProperties, 1 \in Int, n \in Int
  <2>3. Len(SubSeq(b, 1, n)) # AnnceLen
    BY ONLY <1>12, <2>2, n \in Nat DEF AnnceLen
  <2>4. QED
    BY ONLY <1>10, <1>12, <2>3, a = Annce(SubSeq(AnnceAsdu(x, y), 1, n)) DEF Annce
<1>13. CASE n = 12
  <2>1. Has(b, 0, b)
    BY ONLY <1>11, HasSelf
  <2>2. SubSeq(b, 0 + 1, 0 + Len(b)) = b
    BY ONLY <1>11, <2>1, HasFound, 0 \in Nat
  <2>3. SubSeq(b, 1, n) = b
    BY ONLY <1>11, <1>13, <2>2
  <2>4. a = Annce(b) /\ Len(b) = AnnceLen
    BY ONLY <1>10, <1>11, <2>3, a = Annce(SubSeq(AnnceAsdu(x, y), 1, n)) DEF AnnceLen
  <2>5. Split(<<1, 2, 8, 1>>, b) = xs
    BY ONLY <1>1, <1>8, <1>10
  <2>6. a = [nwkAddr |-> xs[2], ieeeAddr |-> xs[3], capability |-> xs[4]]
    BY ONLY <2>4, <2>5 DEF Annce
  <2>7. QED
    BY ONLY <1>4, <1>13, <2>6
<1>14. QED
  BY ONLY <1>12, <1>13, n \in Nat, n <= 12

(* What the fields of a message have room for, and its asdu.                *)
Roomy(m, n) ==
  /\ m.groupId \in Octet /\ m.clusterId \in Word /\ m.srcAddr \in Word
  /\ m.srcEndpoint \in Octet /\ m.dstEndpoint \in Octet /\ m.linkQuality \in Octet
  /\ m.timeStamp \in Nat /\ Fitting(m.timeStamp, 4) /\ m.tranSeqNum \in Octet /\ m.asduLen \in Octet
  /\ Sized(m.asdu, n)

(* mt_afmessage: what the coordinator hands up is read field by field.      *)
LEMMA MessageRead ==
  ASSUME NEW m, NEW n, Roomy(m, n), NEW b, b = IncomingBytes(m)
  PROVE  /\ \A f \in DOMAIN MtAf : Getter(MtAf, b, f) = m[f]
         /\ SubSeq(b, MtAfAsdu + 1, Len(b)) = m.asdu
<1>1. PICK xs : xs = <<m.groupId, m.clusterId, m.srcAddr, m.srcEndpoint, m.dstEndpoint, 0,
                       m.linkQuality, 0, m.timeStamp, m.tranSeqNum, m.asduLen>>
  OBVIOUS
<1>2. PICK h : h = Join(<<2, 2, 2, 1, 1, 1, 1, 1, 4, 1, 1>>, xs)
  OBVIOUS
<1>3. Cat(b, h, m.asdu)
  BY ONLY <1>1, <1>2, b = IncomingBytes(m) DEF IncomingBytes, Cat
<1>4. Roomy(m, n)
  OBVIOUS
<1>5. /\ xs[1] = m.groupId /\ xs[2] = m.clusterId /\ xs[3] = m.srcAddr /\ xs[4] = m.srcEndpoint
      /\ xs[5] = m.dstEndpoint /\ xs[6] = 0 /\ xs[7] = m.linkQuality /\ xs[8] = 0
      /\ xs[9] = m.timeStamp /\ xs[10] = m.tranSeqNum /\ xs[11] = m.asduLen
  BY ONLY <1>1
<1>6. /\ m.groupId \in Nat /\ m.clusterId \in Nat /\ m.srcAddr \in Nat /\ m.srcEndpoint \in Nat
      /\ m.dstEndpoint \in Nat /\ m.linkQuality \in Nat /\ m.timeStamp \in Nat /\ m.tranSeqNum \in Nat
      /\ m.asduLen \in Nat
  BY ONLY <1>4 DEF Roomy, Octet, Word
<1>7. ASSUME NEW k \in 1 .. 11  PROVE xs[k] \in Nat
  <2>1. \/ k = 1 \/ k = 2 \/ k = 3 \/ k = 4 \/ k = 5 \/ k = 6 \/ k = 7
          \/ k = 8 \/ k = 9 \/ k = 10 \/ k = 11
    OBVIOUS
  <2>2. QED
    BY ONLY <1>5, <1>6, <2>1
<1>8. /\ Sized(h, 17) /\ Has(h, 0, ToBytes(m.groupId, 2))
      /\ Has(h, 2, ToBytes(m.clusterId, 2)) /\ Has(h, 4, ToBytes(m.srcAddr, 2))
      /\ Has(h, 6, ToBytes(m.srcEndpoint, 1)) /\ Has(h, 7, ToBytes(m.dstEndpoint, 1))
      /\ Has(h, 9, ToBytes(m.linkQuality, 1)) /\ Has(h, 11, ToBytes(m.timeStamp, 4))
      /\ Has(h, 15, ToBytes(m.tranSeqNum, 1)) /\ Has(h, 16, ToBytes(m.asduLen, 1))
  BY ONLY <1>2, <1>5, <1>7, JoinIn
<1>9. Parted(b, h, m.asdu, 17, n)
  <2>1. Sized(h, 17) /\ Sized(m.asdu, n)
    BY ONLY <1>4, <1>8 DEF Roomy
  <2>2. QED
    BY ONLY <1>3, <2>1, CatType
<1>10. b \in Seq(Octet) /\ Len(b) = 17 + n /\ m.asdu \in Seq(Octet) /\ Len(m.asdu) = n /\ n \in Nat
  BY ONLY <1>4, <1>9 DEF Roomy, Parted, Sized
<1>11. Has(b, 0, h) /\ Has(b, 0 + 17, m.asdu)
  <2>1. Has(b, 0, b)
    BY ONLY <1>10, HasSelf
  <2>2. \A r \in Seq(Octet), q \in Nat : Has(r, q, b) => Has(r, q, h) /\ Has(r, q + 17, m.asdu)
    BY ONLY <1>9 DEF Parted
  <2>3. QED
    BY ONLY <1>10, <2>1, <2>2, 0 \in Nat
<1>12. ASSUME NEW p \in Nat, NEW l \in Nat, NEW x \in Nat, Has(h, p, ToBytes(x, l))
       PROVE  Has(b, p, ToBytes(x, l))
  <2>1. ToBytes(x, l) \in Seq(Octet)
    BY ONLY BytesOf, x \in Nat, l \in Nat
  <2>2. h \in Seq(Octet)
    BY ONLY <1>8 DEF Sized
  <2>3. Has(b, 0 + p, ToBytes(x, l))
    BY ONLY <1>10, <1>11, <1>12, <2>1, <2>2, HasInside, 0 \in Nat, p \in Nat
  <2>4. QED
    BY ONLY <2>3, 0 + p = p, p \in Nat
<1>13. ASSUME NEW p \in Nat, NEW l \in Nat, NEW x \in Nat, Has(h, p, ToBytes(x, l)), Fitting(x, l)
       PROVE  FromBytes(SubSeq(b, p + 1, p + l)) = x
  <2>1. Has(b, p, ToBytes(x, l))
    BY ONLY <1>12, <1>13, p \in Nat, l \in Nat, x \in Nat
  <2>2. QED
    BY ONLY <1>10, <1>13, <2>1, FieldKept, p \in Nat, l \in Nat, x \in Nat
<1>14. /\ Fitting(m.clusterId, 2) /\ Fitting(m.srcAddr, 2) /\ Fitting(m.srcEndpoint, 1)
       /\ Fitting(m.dstEndpoint, 1) /\ Fitting(m.linkQuality, 1) /\ Fitting(m.timeStamp, 4)
       /\ Fitting(m.tranSeqNum, 1) /\ Fitting(m.asduLen, 1)
  <2>1. /\ 1 \in Nat /\ 1 >= 1 /\ 2 \in Nat /\ 2 >= 2
    OBVIOUS
  <2>2. QED
    BY ONLY <1>4, <2>1, NumbersFit DEF Roomy
<1>15. /\ 1 \in Nat /\ 2 \in Nat /\ 4 \in Nat /\ 6 \in Nat /\ 7 \in Nat /\ 8 \in Nat
       /\ 9 \in Nat /\ 11 \in Nat /\ 15 \in Nat /\ 16 \in Nat
  OBVIOUS
<1>16. /\ FromBytes(SubSeq(b, 2 + 1, 2 + 2)) = m.clusterId /\ FromBytes(SubSeq(b, 4 + 1, 4 + 2)) = m.srcAddr
       /\ FromBytes(SubSeq(b, 6 + 1, 6 + 1)) = m.srcEndpoint /\ FromBytes(SubSeq(b, 7 + 1, 7 + 1)) = m.dstEndpoint
       /\ FromBytes(SubSeq(b, 9 + 1, 9 + 1)) = m.linkQuality /\ FromBytes(SubSeq(b, 11 + 1, 11 + 4)) = m.timeStamp
       /\ FromBytes(SubSeq(b, 15 + 1, 15 + 1)) = m.tranSeqNum /\ FromBytes(SubSeq(b, 16 + 1, 16 + 1)) = m.asduLen
  BY ONLY <1>6, <1>8, <1>13, <1>14, <1>15
<1>17. FromBytes(SubSeq(b, 0 + 1, 0 + 1)) = m.groupId
  <2>1. PICK g \in Octet : g = m.groupId
    BY ONLY <1>4 DEF Roomy
  <2>2. g \in Nat /\ g < 256 /\ g % 256 = g /\ Fitting(g, 1)
    BY ONLY OctetType, g \in Octet DEF Byte
  <2>3. g \in Word
    BY ONLY <2>2 DEF Word
  <2>4. ToBytes(g, 2) = <<g, g \div 256>>
    BY ONLY <2>2, <2>3, TwoBytes
  <2>5. PICK s : s = ToBytes(g, 2)
    OBVIOUS
  <2>6. s[1] = g
    BY ONLY <2>4, <2>5
  <2>7. Sized(s, 2) /\ Has(b, 0, s)
    <3>1. Has(b, 0, ToBytes(m.groupId, 2))
      BY ONLY <1>6, <1>8, <1>12, 0 \in Nat, 2 \in Nat
    <3>2. ToBytes(g, 2) \in Seq(Octet) /\ Len(ToBytes(g, 2)) = 2
      BY ONLY <2>3, WordType
    <3>3. QED
      BY ONLY <2>1, <2>5, <3>1, <3>2, 2 \in Nat DEF Sized
  <2>8. 1 <= Len(b)
    BY ONLY <1>10
  <2>9. Has(b, 0, <<g>>)
    BY ONLY <1>10, <2>6, <2>7, <2>8, LowByte, g \in Octet
  <2>10. ToBytes(g, 1) = <<g>>
    <3>1. g \in 0 .. 255
      BY ONLY <2>2
    <3>2. QED
      BY ONLY <3>1, OneByte
  <2>11. FromBytes(SubSeq(b, 0 + 1, 0 + 1)) = g
    BY ONLY <1>10, <2>2, <2>9, <2>10, FieldKept, 0 \in Nat, 1 \in Nat
  <2>12. QED
    BY ONLY <2>1, <2>11
<1>18. ASSUME NEW f \in DOMAIN MtAf  PROVE Getter(MtAf, b, f) = m[f]
  <2>1. f = "groupId" \/ f = "clusterId" \/ f = "srcAddr" \/ f = "srcEndpoint" \/ f = "dstEndpoint" \/ f = "linkQuality" \/ f = "timeStamp" \/ f = "tranSeqNum" \/ f = "asduLen"
    BY ONLY f \in DOMAIN MtAf DEF MtAf
  <2>2. CASE f = "groupId"
    <3>1. MtAf[f] = <<0, 1>>
      BY ONLY <2>2 DEF MtAf
    <3>2. Getter(MtAf, b, f) = FromBytes(SubSeq(b, 0 + 1, 0 + 1))
      BY ONLY <3>1 DEF Getter
    <3>3. QED
      BY ONLY <1>17, <2>2, <3>2
  <2>3. CASE f = "clusterId"
    <3>1. MtAf[f] = <<2, 2>>
      BY ONLY <2>3 DEF MtAf
    <3>2. Getter(MtAf, b, f) = FromBytes(SubSeq(b, 2 + 1, 2 + 2))
      BY ONLY <3>1 DEF Getter
    <3>3. QED
      BY ONLY <1>16, <2>3, <3>2
  <2>4. CASE f = "srcAddr"
    <3>1. MtAf[f] = <<4, 2>>
      BY ONLY <2>4 DEF MtAf
    <3>2. Getter(MtAf, b, f) = FromBytes(SubSeq(b, 4 + 1, 4 + 2))
      BY ONLY <3>1 DEF Getter
    <3>3. QED
      BY ONLY <1>16, <2>4, <3>2
  <2>5. CASE f = "srcEndpoint"
    <3>1. MtAf[f] = <<6, 1>>
      BY ONLY <2>5 DEF MtAf
    <3>2. Getter(MtAf, b, f) = FromBytes(SubSeq(b, 6 + 1, 6 + 1))
      BY ONLY <3>1 DEF Getter
    <3>3. QED
      BY ONLY <1>16, <2>5, <3>2
  <2>6. CASE f = "dstEndpoint"
    <3>1. MtAf[f] = <<7, 1>>
      BY ONLY <2>6 DEF MtAf
    <3>2. Getter(MtAf, b, f) = FromBytes(SubSeq(b, 7 + 1, 7 + 1))
      BY ONLY <3>1 DEF Getter
    <3>3. QED
      BY ONLY <1>16, <2>6, <3>2
  <2>7. CASE f = "linkQuality"
    <3>1. MtAf[f] = <<9, 1>>
      BY ONLY <2>7 DEF MtAf
    <3>2. Getter(MtAf, b, f) = FromBytes(SubSeq(b, 9 + 1, 9 + 1))
      BY ONLY <3>1 DEF Getter
    <3>3. QED
      BY ONLY <1>16, <2>7, <3>2
  <2>8. CASE f = "timeStamp"
    <3>1. MtAf[f] = <<11, 4>>
      BY ONLY <2>8 DEF MtAf
    <3>2. Getter(MtAf, b, f) = FromBytes(SubSeq(b, 11 + 1, 11 + 4))
      BY ONLY <3>1 DEF Getter
    <3>3. QED
      BY ONLY <1>16, <2>8, <3>2
  <2>9. CASE f = "tranSeqNum"
    <3>1. MtAf[f] = <<15, 1>>
      BY ONLY <2>9 DEF MtAf
    <3>2. Getter(MtAf, b, f) = FromBytes(SubSeq(b, 15 + 1, 15 + 1))
      BY ONLY <3>1 DEF Getter
    <3>3. QED
      BY ONLY <1>16, <2>9, <3>2
  <2>10. CASE f = "asduLen"
    <3>1. MtAf[f] = <<16, 1>>
      BY ONLY <2>10 DEF MtAf
    <3>2. Getter(MtAf, b, f) = FromBytes(SubSeq(b, 16 + 1, 16 + 1))
      BY ONLY <3>1 DEF Getter
    <3>3. QED
      BY ONLY <1>16, <2>10, <3>2
  <2>11. QED
    BY ONLY <2>1, <2>2, <2>3, <2>4, <2>5, <2>6, <2>7, <2>8, <2>9, <2>10
<1>19. SubSeq(b, MtAfAsdu + 1, Len(b)) = m.asdu
  <2>1. SubSeq(b, 17 + 1, 17 + Len(m.asdu)) = m.asdu
    BY ONLY <1>10, <1>11, HasFound, 17 \in Nat, 0 + 17 = 17
  <2>2. QED
    BY ONLY <1>10, <2>1 DEF MtAfAsdu
<1>20. QED
  BY ONLY <1>18, <1>19

(* What the fields of an extended message have room for, and its asdu.      *)
RoomyExt(m, n) ==
  /\ m.groupId \in Octet /\ m.clusterId \in Word /\ m.addrMode \in Octet
  /\ m.srcAddr \in Nat /\ Fitting(m.srcAddr, 8) /\ m.srcEndpoint \in Octet /\ m.srcPanId \in Word
  /\ m.dstEndpoint \in Octet /\ m.linkQuality \in Octet /\ m.timeStamp \in Nat /\ Fitting(m.timeStamp, 4)
  /\ m.tranSeqNum \in Octet /\ m.asduLen \in Word
  /\ Sized(m.asdu, n)

(* mt_afmessage_EXT: what the coordinator hands up is read field by field.  *)
LEMMA ExtRead ==
  ASSUME NEW m, NEW n, RoomyExt(m, n), NEW b, b = IncomingExtBytes(m)
  PROVE  /\ \A f \in DOMAIN MtAfExt \ {"asduLen"} : Getter(MtAfExt, b, f) = m[f]
         /\ SubSeq(b, MtAfExtAsdu + 1, Len(b)) = m.asdu
<1>1. PICK xs : xs = <<m.groupId, m.clusterId, m.addrMode, m.srcAddr, m.srcEndpoint, m.srcPanId,
                       m.dstEndpoint, 0, m.linkQuality, 0, m.timeStamp, m.tranSeqNum, m.asduLen>>
  OBVIOUS
<1>2. PICK h : h = Join(<<2, 2, 1, 8, 1, 2, 1, 1, 1, 1, 4, 1, 2>>, xs)
  OBVIOUS
<1>3. Cat(b, h, m.asdu)
  BY ONLY <1>1, <1>2, b = IncomingExtBytes(m) DEF IncomingExtBytes, Cat
<1>4. RoomyExt(m, n)
  OBVIOUS
<1>5. /\ xs[1] = m.groupId /\ xs[2] = m.clusterId /\ xs[3] = m.addrMode /\ xs[4] = m.srcAddr
      /\ xs[5] = m.srcEndpoint /\ xs[6] = m.srcPanId /\ xs[7] = m.dstEndpoint /\ xs[8] = 0
      /\ xs[9] = m.linkQuality /\ xs[10] = 0 /\ xs[11] = m.timeStamp /\ xs[12] = m.tranSeqNum
      /\ xs[13] = m.asduLen
  BY ONLY <1>1
<1>6. /\ m.groupId \in Nat /\ m.clusterId \in Nat /\ m.addrMode \in Nat /\ m.srcAddr \in Nat
      /\ m.srcEndpoint \in Nat /\ m.srcPanId \in Nat /\ m.dstEndpoint \in Nat /\ m.linkQuality \in Nat
      /\ m.timeStamp \in Nat /\ m.tranSeqNum \in Nat /\ m.asduLen \in Nat
  BY ONLY <1>4 DEF RoomyExt, Octet, Word
<1>7. ASSUME NEW k \in 1 .. 13  PROVE xs[k] \in Nat
  <2>1. \/ k = 1 \/ k = 2 \/ k = 3 \/ k = 4 \/ k = 5 \/ k = 6 \/ k = 7
          \/ k = 8 \/ k = 9 \/ k = 10 \/ k = 11 \/ k = 12 \/ k = 13
    OBVIOUS
  <2>2. QED
    BY ONLY <1>5, <1>6, <2>1
<1>8. /\ Sized(h, 27) /\ Has(h, 0, ToBytes(m.groupId, 2))
      /\ Has(h, 2, ToBytes(m.clusterId, 2)) /\ Has(h, 4, ToBytes(m.addrMode, 1))
      /\ Has(h, 5, ToBytes(m.srcAddr, 8)) /\ Has(h, 13, ToBytes(m.srcEndpoint, 1))
      /\ Has(h, 14, ToBytes(m.srcPanId, 2)) /\ Has(h, 16, ToBytes(m.dstEndpoint, 1))
      /\ Has(h, 18, ToBytes(m.linkQuality, 1)) /\ Has(h, 20, ToBytes(m.timeStamp, 4))
      /\ Has(h, 24, ToBytes(m.tranSeqNum, 1)) /\ Has(h, 25, ToBytes(m.asduLen, 2))
  BY ONLY <1>2, <1>5, <1>7, JoinInExt
<1>9. Parted(b, h, m.asdu, 27, n)
  <2>1. Sized(h, 27) /\ Sized(m.asdu, n)
    BY ONLY <1>4, <1>8 DEF RoomyExt
  <2>2. QED
    BY ONLY <1>3, <2>1, CatType
<1>10. b \in Seq(Octet) /\ Len(b) = 27 + n /\ m.asdu \in Seq(Octet) /\ Len(m.asdu) = n /\ n \in Nat
  BY ONLY <1>4, <1>9 DEF RoomyExt, Parted, Sized
<1>11. Has(b, 0, h) /\ Has(b, 0 + 27, m.asdu)
  <2>1. Has(b, 0, b)
    BY ONLY <1>10, HasSelf
  <2>2. \A r \in Seq(Octet), q \in Nat : Has(r, q, b) => Has(r, q, h) /\ Has(r, q + 27, m.asdu)
    BY ONLY <1>9 DEF Parted
  <2>3. QED
    BY ONLY <1>10, <2>1, <2>2, 0 \in Nat
<1>12. ASSUME NEW p \in Nat, NEW l \in Nat, NEW x \in Nat, Has(h, p, ToBytes(x, l))
       PROVE  Has(b, p, ToBytes(x, l))
  <2>1. ToBytes(x, l) \in Seq(Octet)
    BY ONLY BytesOf, x \in Nat, l \in Nat
  <2>2. h \in Seq(Octet)
    BY ONLY <1>8 DEF Sized
  <2>3. Has(b, 0 + p, ToBytes(x, l))
    BY ONLY <1>10, <1>11, <1>12, <2>1, <2>2, HasInside, 0 \in Nat, p \in Nat
  <2>4. QED
    BY ONLY <2>3, 0 + p = p, p \in Nat
<1>13. ASSUME NEW p \in Nat, NEW l \in Nat, NEW x \in Nat, Has(h, p, ToBytes(x, l)), Fitting(x, l)
       PROVE  FromBytes(SubSeq(b, p + 1, p + l)) = x
  <2>1. Has(b, p, ToBytes(x, l))
    BY ONLY <1>12, <1>13, p \in Nat, l \in Nat, x \in Nat
  <2>2. QED
    BY ONLY <1>10, <1>13, <2>1, FieldKept, p \in Nat, l \in Nat, x \in Nat
<1>14. /\ Fitting(m.clusterId, 2) /\ Fitting(m.addrMode, 1) /\ Fitting(m.srcAddr, 8)
       /\ Fitting(m.srcEndpoint, 1) /\ Fitting(m.srcPanId, 2) /\ Fitting(m.dstEndpoint, 1)
       /\ Fitting(m.linkQuality, 1) /\ Fitting(m.timeStamp, 4) /\ Fitting(m.tranSeqNum, 1)
  <2>1. /\ 1 \in Nat /\ 1 >= 1 /\ 2 \in Nat /\ 2 >= 2
    OBVIOUS
  <2>2. QED
    BY ONLY <1>4, <2>1, NumbersFit DEF RoomyExt
<1>15. /\ 1 \in Nat /\ 2 \in Nat /\ 4 \in Nat /\ 5 \in Nat /\ 8 \in Nat /\ 13 \in Nat
       /\ 14 \in Nat /\ 16 \in Nat /\ 18 \in Nat /\ 20 \in Nat /\ 24 \in Nat
  OBVIOUS
<1>16. /\ FromBytes(SubSeq(b, 2 + 1, 2 + 2)) = m.clusterId /\ FromBytes(SubSeq(b, 4 + 1, 4 + 1)) = m.addrMode
       /\ FromBytes(SubSeq(b, 5 + 1, 5 + 8)) = m.srcAddr /\ FromBytes(SubSeq(b, 13 + 1, 13 + 1)) = m.srcEndpoint
       /\ FromBytes(SubSeq(b, 14 + 1, 14 + 2)) = m.srcPanId /\ FromBytes(SubSeq(b, 16 + 1, 16 + 1)) = m.dstEndpoint
       /\ FromBytes(SubSeq(b, 18 + 1, 18 + 1)) = m.linkQuality /\ FromBytes(SubSeq(b, 20 + 1, 20 + 4)) = m.timeStamp
       /\ FromBytes(SubSeq(b, 24 + 1, 24 + 1)) = m.tranSeqNum
  BY ONLY <1>6, <1>8, <1>13, <1>14, <1>15
<1>17. FromBytes(SubSeq(b, 0 + 1, 0 + 1)) = m.groupId
  <2>1. PICK g \in Octet : g = m.groupId
    BY ONLY <1>4 DEF RoomyExt
  <2>2. g \in Nat /\ g < 256 /\ g % 256 = g /\ Fitting(g, 1)
    BY ONLY OctetType, g \in Octet DEF Byte
  <2>3. g \in Word
    BY ONLY <2>2 DEF Word
  <2>4. ToBytes(g, 2) = <<g, g \div 256>>
    BY ONLY <2>2, <2>3, TwoBytes
  <2>5. PICK s : s = ToBytes(g, 2)
    OBVIOUS
  <2>6. s[1] = g
    BY ONLY <2>4, <2>5
  <2>7. Sized(s, 2) /\ Has(b, 0, s)
    <3>1. Has(b, 0, ToBytes(m.groupId, 2))
      BY ONLY <1>6, <1>8, <1>12, 0 \in Nat, 2 \in Nat
    <3>2. ToBytes(g, 2) \in Seq(Octet) /\ Len(ToBytes(g, 2)) = 2
      BY ONLY <2>3, WordType
    <3>3. QED
      BY ONLY <2>1, <2>5, <3>1, <3>2, 2 \in Nat DEF Sized
  <2>8. 1 <= Len(b)
    BY ONLY <1>10
  <2>9. Has(b, 0, <<g>>)
    BY ONLY <1>10, <2>6, <2>7, <2>8, LowByte, g \in Octet
  <2>10. ToBytes(g, 1) = <<g>>
    <3>1. g \in 0 .. 255
      BY ONLY <2>2
    <3>2. QED
      BY ONLY <3>1, OneByte
  <2>11. FromBytes(SubSeq(b, 0 + 1, 0 + 1)) = g
    BY ONLY <1>10, <2>2, <2>9, <2>10, FieldKept, 0 \in Nat, 1 \in Nat
  <2>12. QED
    BY ONLY <2>1, <2>11
<1>18. ASSUME NEW f \in DOMAIN MtAfExt \ {"asduLen"}  PROVE Getter(MtAfExt, b, f) = m[f]
  <2>1. f = "groupId" \/ f = "clusterId" \/ f = "addrMode" \/ f = "srcAddr" \/ f = "srcEndpoint" \/ f = "srcPanId" \/ f = "dstEndpoint" \/ f = "linkQuality" \/ f = "timeStamp" \/ f = "tranSeqNum"
    BY ONLY f \in DOMAIN MtAfExt \ {"asduLen"} DEF MtAfExt
  <2>2. CASE f = "groupId"
    <3>1. MtAfExt[f] = <<0, 1>>
      BY ONLY <2>2 DEF MtAfExt
    <3>2. Getter(MtAfExt, b, f) = FromBytes(SubSeq(b, 0 + 1, 0 + 1))
      BY ONLY <3>1 DEF Getter
    <3>3. QED
      BY ONLY <1>17, <2>2, <3>2
  <2>3. CASE f = "clusterId"
    <3>1. MtAfExt[f] = <<2, 2>>
      BY ONLY <2>3 DEF MtAfExt
    <3>2. Getter(MtAfExt, b, f) = FromBytes(SubSeq(b, 2 + 1, 2 + 2))
      BY ONLY <3>1 DEF Getter
    <3>3. QED
      BY ONLY <1>16, <2>3, <3>2
  <2>4. CASE f = "addrMode"
    <3>1. MtAfExt[f] = <<4, 1>>
      BY ONLY <2>4 DEF MtAfExt
    <3>2. Getter(MtAfExt, b, f) = FromBytes(SubSeq(b, 4 + 1, 4 + 1))
      BY ONLY <3>1 DEF Getter
    <3>3. QED
      BY ONLY <1>16, <2>4, <3>2
  <2>5. CASE f = "srcAddr"
    <3>1. MtAfExt[f] = <<5, 8>>
      BY ONLY <2>5 DEF MtAfExt
    <3>2. Getter(MtAfExt, b, f) = FromBytes(SubSeq(b, 5 + 1, 5 + 8))
      BY ONLY <3>1 DEF Getter
    <3>3. QED
      BY ONLY <1>16, <2>5, <3>2
  <2>6. CASE f = "srcEndpoint"
    <3>1. MtAfExt[f] = <<13, 1>>
      BY ONLY <2>6 DEF MtAfExt
    <3>2. Getter(MtAfExt, b, f) = FromBytes(SubSeq(b, 13 + 1, 13 + 1))
      BY ONLY <3>1 DEF Getter
    <3>3. QED
      BY ONLY <1>16, <2>6, <3>2
  <2>7. CASE f = "srcPanId"
    <3>1. MtAfExt[f] = <<14, 2>>
      BY ONLY <2>7 DEF MtAfExt
    <3>2. Getter(MtAfExt, b, f) = FromBytes(SubSeq(b, 14 + 1, 14 + 2))
      BY ONLY <3>1 DEF Getter
    <3>3. QED
      BY ONLY <1>16, <2>7, <3>2
  <2>8. CASE f = "dstEndpoint"
    <3>1. MtAfExt[f] = <<16, 1>>
      BY ONLY <2>8 DEF MtAfExt
    <3>2. Getter(MtAfExt, b, f) = FromBytes(SubSeq(b, 16 + 1, 16 + 1))
      BY ONLY <3>1 DEF Getter
    <3>3. QED
      BY ONLY <1>16, <2>8, <3>2
  <2>9. CASE f = "linkQuality"
    <3>1. MtAfExt[f] = <<18, 1>>
      BY ONLY <2>9 DEF MtAfExt
    <3>2. Getter(MtAfExt, b, f) = FromBytes(SubSeq(b, 18 + 1, 18 + 1))
      BY ONLY <3>1 DEF Getter
    <3>3. QED
      BY ONLY <1>16, <2>9, <3>2
  <2>10. CASE f = "timeStamp"
    <3>1. MtAfExt[f] = <<20, 4>>
      BY ONLY <2>10 DEF MtAfExt
    <3>2. Getter(MtAfExt, b, f) = FromBytes(SubSeq(b, 20 + 1, 20 + 4))
      BY ONLY <3>1 DEF Getter
    <3>3. QED
      BY ONLY <1>16, <2>10, <3>2
  <2>11. CASE f = "tranSeqNum"
    <3>1. MtAfExt[f] = <<24, 1>>
      BY ONLY <2>11 DEF MtAfExt
    <3>2. Getter(MtAfExt, b, f) = FromBytes(SubSeq(b, 24 + 1, 24 + 1))
      BY ONLY <3>1 DEF Getter
    <3>3. QED
      BY ONLY <1>16, <2>11, <3>2
  <2>12. QED
    BY ONLY <2>1, <2>2, <2>3, <2>4, <2>5, <2>6, <2>7, <2>8, <2>9, <2>10, <2>11
<1>19. SubSeq(b, MtAfExtAsdu + 1, Len(b)) = m.asdu
  <2>1. SubSeq(b, 27 + 1, 27 + Len(m.asdu)) = m.asdu
    BY ONLY <1>10, <1>11, HasFound, 27 \in Nat, 0 + 27 = 27
  <2>2. QED
    BY ONLY <1>10, <2>1 DEF MtAfExtAsdu
<1>20. QED
  BY ONLY <1>18, <1>19

(* What the coordinator hands up has room in its fields.                     *)
LEMMA InRoomy ==
  ASSUME NEW n \in Octet
  PROVE  Roomy(Incoming(n), n) /\ RoomyExt(IncomingExt(n), n) /\ IncomingExt(n).asdu = Incoming(n).asdu
<1>1. PICK y \in Nat : y = 67305985
  BY ONLY SMT
<1>2. PICK m : m = Incoming(n)
  OBVIOUS
<1>3. PICK v : v = Asdu(n)
  OBVIOUS
<1>4. y \in Nat /\ Fitting(y, 4)
  BY ONLY <1>1, NumbersFit, 4 \in Nat, 4 >= 4, SMT
<1>5. Sized(v, n) /\ n \in Octet /\ n \in Word
  <2>1. n \in Nat /\ n < 256
    BY ONLY OctetType, n \in Octet
  <2>2. n \in Word
    BY ONLY <2>1, SMT DEF Word
  <2>3. QED
    BY ONLY <1>3, <2>1, <2>2, AsduType, n \in Octet
<1>6. /\ 5 \in Octet /\ 7 \in Octet /\ 8 \in Octet /\ 200 \in Octet /\ 9 \in Octet /\ 3 \in Octet
      /\ 1284 \in Word /\ 772 \in Word /\ 4386 \in Word
  BY ONLY SMT DEF Octet, Word
<1>7. /\ m.groupId \in Octet /\ m.clusterId \in Word /\ m.srcAddr \in Word
      /\ m.srcEndpoint \in Octet /\ m.dstEndpoint \in Octet /\ m.linkQuality \in Octet
      /\ m.timeStamp = y /\ m.tranSeqNum \in Octet /\ m.asduLen = n /\ m.asdu = v
  BY ONLY <1>1, <1>6, <1>2, <1>3, SMT DEF Incoming
<1>8. Roomy(m, n)
  BY ONLY <1>4, <1>5, <1>7 DEF Roomy
<1>9. PICK a : a = IncomingExt(n)
  OBVIOUS
<1>10. DOMAIN m = {"groupId", "clusterId", "srcAddr", "srcEndpoint", "dstEndpoint",
                   "linkQuality", "timeStamp", "tranSeqNum", "asduLen", "asdu"}
  BY ONLY <1>2, SMT DEF Incoming
<1>11. a = [f \in DOMAIN m \cup {"addrMode", "srcPanId"} |->
             CASE f = "addrMode" -> 3 [] f = "srcPanId" -> 4386 [] OTHER -> m[f]]
  BY ONLY <1>2, <1>9, SMT DEF IncomingExt
<1>12. /\ a.groupId = m.groupId /\ a.clusterId = m.clusterId /\ a.srcEndpoint = m.srcEndpoint
       /\ a.dstEndpoint = m.dstEndpoint /\ a.linkQuality = m.linkQuality
       /\ a.timeStamp = m.timeStamp /\ a.tranSeqNum = m.tranSeqNum /\ a.asduLen = m.asduLen
       /\ a.asdu = m.asdu /\ a.srcAddr = m.srcAddr
       /\ a.addrMode = 3 /\ a.srcPanId = 4386
  BY ONLY SMT, <1>10, <1>11
<1>13. a.addrMode \in Octet /\ a.srcPanId \in Word
  BY ONLY <1>6, <1>12, SMT
<1>14. a.srcAddr \in Nat /\ Fitting(a.srcAddr, 8)
  <2>1. a.srcAddr \in Word
    BY ONLY <1>7, <1>12
  <2>2. QED
    BY ONLY <2>1, NumbersFit, 8 \in Nat, 8 >= 2
<1>15. RoomyExt(a, n)
  BY ONLY <1>4, <1>5, <1>7, <1>12, <1>13, <1>14 DEF RoomyExt
<1>16. QED
  BY ONLY <1>2, <1>8, <1>9, <1>12, <1>15

(* MTDirectlySend()'s users, the getters of AF messages and                  *)
(* device_annce_proc(): what the coordinator answers is what the host reads, *)
(* for every integer, every length of an asdu and every announcement.        *)
THEOREM AnswerKept ==
  CodecSpec => []AnswerTrue
<1>1. CodecInit => AnswerTrue
  BY DEF CodecInit, Unused, AnswerTrue
<1>2. AnswerTrue /\ [UseLine]_line => AnswerTrue'
  <2>1. ASSUME UseLine  PROVE AnswerTrue'
    <3>1. ASSUME line'.op \notin {"nv", "tables", "annce", "in"}  PROVE AnswerTrue'
      BY ONLY <3>1 DEF AnswerTrue
    <3>2. ASSUME NEW z \in Ints, SetUpdateId(Byte(z))  PROVE AnswerTrue'
      <4>1. PICK x \in Octet : x = Byte(z)
        <5>1. PICK y \in Nat : y = z
          BY CodecAssumption DEF Word
        <5>2. y % 256 \in Octet
          BY ONLY y \in Nat DEF Octet
        <5>3. QED
          BY ONLY <5>1, <5>2 DEF Byte
      <4>2. PICK b : b = ReadBack(NvStore(Item, Sent(setNwkUpdateId(x)).data))
        OBVIOUS
      <4>3. line' = [op |-> "nv", set |-> x, id |-> getNwkUpdateId(b), channel |-> getChannel(b)]
        BY ONLY <3>2, <4>1, <4>2 DEF SetUpdateId
      <4>4. getNwkUpdateId(b) = x /\ getChannel(b) = Item[ChannelAt + 1]
        BY ONLY <4>2, NvKept, x \in Octet
      <4>5. line'.op = "nv" /\ line'.id = line'.set /\ line'.channel = Item[ChannelAt + 1]
        BY ONLY <4>3, <4>4
      <4>6. QED
        BY ONLY <4>5 DEF AnswerTrue
    <3>3. ASSUME NEW x \in Ints, ReadTables(x)  PROVE AnswerTrue'
      <4>1. x \in Word
        BY CodecAssumption
      <4> DEFINE assoc == <<x, 513, 1, 2, 3, 4, 5, 6, 7, 8, 67305985, x>>
                 info == <<0, x, x, 7, 9, 1>>
                 nv == <<0, x, 2048, x, 5>>
                 assocRead == getAssocInfo(Join(<<2, 2, 1, 1, 1, 1, 1, 1, 1, 1, 4, 2>>, assoc))
                 infoRead == getDeviceInfo(Join(<<1, 8, 2, 1, 1, 1>>, info))
                 nvRead == GetNvInfo(Join(<<1, 8, 4, 2, 1>>, nv))
                 extRead == getAssocExtAddr(ToBytes(x, 8))
                 nwkRead == getAssocNwkAddr(ToBytes(x, 2))
                 countRead == getAssocCount(ToBytes(x, 2))
      <4>2. line' = [op |-> "tables", tables |-> <<assoc, info, nv, x, x, x>>,
                     read |-> <<assocRead, infoRead, nvRead, extRead, nwkRead, countRead>>]
        BY ONLY <3>3, SMT DEF ReadTables
      <4>3. assocRead = assoc
        BY ONLY <4>1, AssocRead, SMT DEF getAssocInfo
      <4>4. infoRead = info
        BY ONLY <4>1, InfoRead
      <4>5. nvRead = nv
        BY ONLY <4>1, NvInfoRead, SMT DEF GetNvInfo
      <4>6. extRead = x /\ nwkRead = x /\ countRead = x
        BY ONLY <4>1, AddrRead
      <4> HIDE DEF assocRead, infoRead, nvRead, extRead, nwkRead, countRead, assoc, info, nv
      <4>7. line'.op = "tables" /\ line'.read = line'.tables
        BY ONLY <4>2, <4>3, <4>4, <4>5, <4>6
      <4>8. QED
        BY ONLY <4>7 DEF AnswerTrue
    <3>4. ASSUME NEW x \in Ints, NEW n \in 0 .. AnnceLen, ReceiveAnnce(n, x)  PROVE AnswerTrue'
      <4>1. x \in Word
        BY CodecAssumption
      <4>2. PICK y \in Nat : y = 67305985 /\ Fitting(y, 8)
        BY ONLY NumbersFit, 8 \in Nat, 8 >= 4, SMT
      <4>3. PICK a : a = Annce(SubSeq(AnnceAsdu(x, y), 1, n))
        OBVIOUS
      <4>4. line' = [op |-> "annce", n |-> n, nwkAddr |-> x, annce |-> a]
        BY ONLY <3>4, <4>2, <4>3, SMT DEF ReceiveAnnce
      <4>5. n \in Nat /\ n <= 12
        BY ONLY n \in 0 .. AnnceLen DEF AnnceLen
      <4>6. IF n < 12 THEN a = Refused ELSE a.nwkAddr = x /\ a.ieeeAddr = y
        BY ONLY <4>1, <4>2, <4>3, <4>5, AnnceRead
      <4>7. /\ line'.op = "annce"
            /\ IF line'.n < AnnceLen THEN line'.annce = Refused
               ELSE line'.annce.nwkAddr = line'.nwkAddr /\ line'.annce.ieeeAddr = y
        BY ONLY <4>4, <4>6 DEF AnnceLen
      <4>8. QED
        BY ONLY <4>2, <4>7, SMT DEF AnswerTrue
    <3>5. ASSUME NEW n \in AsduLens, n <= AfLimit - 7, ReceiveMessage(n)  PROVE AnswerTrue'
      <4>1. n \in Octet
        <5>1. n \in Nat
          BY CodecAssumption DEF Word
        <5>2. QED
          BY ONLY <3>5, <5>1 DEF AfLimit, Octet
      <4>2. PICK m : m = Incoming(n)
        OBVIOUS
      <4>3. PICK b : b = IncomingBytes(m)
        OBVIOUS
      <4> DEFINE read == [f \in DOMAIN MtAf |-> Getter(MtAf, b, f)]
                 asdu == SubSeq(b, MtAfAsdu + 1, Len(b))
      <4>4. line' = [op |-> "in", message |-> m, read |-> read, asdu |-> asdu]
        BY ONLY <3>5, <4>2, <4>3 DEF ReceiveMessage
      <4>5. Roomy(m, n)
        BY ONLY <4>1, <4>2, InRoomy
      <4>6. /\ \A f \in DOMAIN MtAf : Getter(MtAf, b, f) = m[f]
            /\ asdu = m.asdu
        BY ONLY <4>3, <4>5, MessageRead
      <4>7. \A f \in DOMAIN read : read[f] = m[f]
        BY ONLY <4>6
      <4> HIDE DEF read, asdu
      <4>8. /\ line'.op = "in" /\ line'.asdu = line'.message.asdu
            /\ \A f \in DOMAIN line'.read : line'.read[f] = line'.message[f]
        BY ONLY <4>4, <4>6, <4>7
      <4>9. QED
        BY ONLY <4>8 DEF AnswerTrue
    <3>6. ASSUME NEW n \in AsduLens, n <= AfExtLimit - 7, ReceiveExt(n)  PROVE AnswerTrue'
      <4>1. n \in Octet
        <5>1. n \in Nat
          BY CodecAssumption DEF Word
        <5>2. QED
          BY ONLY <3>6, <5>1 DEF AfExtLimit, Octet
      <4>2. PICK m : m = IncomingExt(n)
        OBVIOUS
      <4>3. PICK b : b = IncomingExtBytes(m)
        OBVIOUS
      <4> DEFINE read == [f \in DOMAIN MtAfExt \ {"asduLen"} |-> Getter(MtAfExt, b, f)]
                 asdu == SubSeq(b, MtAfExtAsdu + 1, Len(b))
      <4>4. line' = [op |-> "in", message |-> m, read |-> read, asdu |-> asdu]
        BY ONLY <3>6, <4>2, <4>3 DEF ReceiveExt
      <4>5. RoomyExt(m, n)
        BY ONLY <4>1, <4>2, InRoomy
      <4>6. /\ \A f \in DOMAIN MtAfExt \ {"asduLen"} : Getter(MtAfExt, b, f) = m[f]
            /\ asdu = m.asdu
        BY ONLY <4>3, <4>5, ExtRead
      <4>7. \A f \in DOMAIN read : read[f] = m[f]
        BY ONLY <4>6
      <4> HIDE DEF read, asdu
      <4>8. /\ line'.op = "in" /\ line'.asdu = line'.message.asdu
            /\ \A f \in DOMAIN line'.read : line'.read[f] = line'.message[f]
        BY ONLY <4>4, <4>6, <4>7
      <4>9. QED
        BY ONLY <4>8 DEF AnswerTrue
    <3>7. line'.op \in {"nv", "tables", "annce", "in"} =>
            \/ \E n \in AsduLens : n <= AfLimit - 7 /\ ReceiveMessage(n)
            \/ \E n \in AsduLens : n <= AfExtLimit - 7 /\ ReceiveExt(n)
            \/ \E x \in Ints : SetUpdateId(Byte(x))
            \/ \E x \in Ints : ReadTables(x)
            \/ \E x \in Ints, n \in 0 .. AnnceLen : ReceiveAnnce(n, x)
      BY ONLY <2>1, OpOf
    <3>8. QED
      BY ONLY <3>1, <3>2, <3>3, <3>4, <3>5, <3>6, <3>7, Zenon
  <2>2. ASSUME AnswerTrue, line' = line  PROVE AnswerTrue'
    BY ONLY <2>2 DEF AnswerTrue
  <2>3. QED
    BY ONLY <2>1, <2>2
<1>3. QED
  BY <1>1, <1>2, PTL DEF CodecSpec

-----------------------------------------------------------------------------
(* Message objects *)

(* A nonempty set of the first numbers has a largest element, and Max is it. *)
LEMMA MaxIn ==
  ASSUME NEW n \in Nat, NEW S \in SUBSET (1 .. n), S # {}
  PROVE  Max(S) \in S /\ \A y \in S : Max(S) >= y
<1> DEFINE T == {n - y : y \in S}
<1>1. T \in SUBSET Nat /\ T # {}
  <2>1. \A y \in 1 .. n : n - y \in Nat
    OBVIOUS
  <2>2. \A y \in S : n - y \in Nat
    BY ONLY <2>1, S \in SUBSET (1 .. n)
  <2>3. PICK y : y \in S
    OBVIOUS
  <2>4. n - y \in T
    BY ONLY <2>3
  <2>5. QED
    BY ONLY <2>2, <2>4
<1>2. Min(T) \in T /\ \A y \in T : Min(T) <= y
  BY ONLY <1>1, MinIn
<1>3. PICK x \in S : Min(T) = n - x
  BY <1>2
<1>4. ASSUME NEW y \in S  PROVE x >= y
  <2>1. n - x <= n - y
    BY <1>2, <1>3
  <2>2. QED
    BY <2>1
<1>5. \E z \in S : \A y \in S : z >= y
  BY <1>4
<1>6. QED
  BY ONLY <1>5 DEF Max

(* What a fold from the first has at each set of indices. *)
Latest(a, F, n, it) ==
  \A s \in SUBSET (1 .. n) :
    it[s] = IF s = {} THEN a ELSE F[<<Max(s), it[s \ {Max(s)}]>>]

(* There is a function that takes one index after the other. *)
LEMMA FoldedLeft ==
  ASSUME NEW V, NEW a \in V, NEW F \in [Nat \X V -> V], NEW n \in Nat
  PROVE  \E it \in [SUBSET (1 .. n) -> V] : Latest(a, F, n, it)
<1> DEFINE There(j) == \E it \in [SUBSET (1 .. j) -> V] : Latest(a, F, j, it)
           S == {j \in Nat : There(j)}
<1>1. 0 \in S
  <2> DEFINE it == [s \in SUBSET (1 .. 0) |-> a]
  <2>1. 1 .. 0 = {}
    OBVIOUS
  <2>2. it \in [SUBSET (1 .. 0) -> V] /\ it[{}] = a
    OBVIOUS
  <2> HIDE DEF it
  <2>3. Latest(a, F, 0, it)
    BY <2>1, <2>2 DEF Latest
  <2>4. QED
    BY <2>2, <2>3
<1>2. ASSUME NEW j \in S  PROVE j + 1 \in S
  <2>1. PICK f \in [SUBSET (1 .. j) -> V] : Latest(a, F, j, f)
    OBVIOUS
  <2>2. j \in Nat
    OBVIOUS
  <2> DEFINE m == j + 1
             g == [s \in SUBSET (1 .. m) |-> IF m \in s THEN F[<<m, f[s \ {m}]>>] ELSE f[s]]
  <2>3. m \in Nat /\ m = j + 1
    BY <2>2
  <2> HIDE DEF S, m
  <2>4. \A s \in SUBSET (1 .. m) : s \ {m} \in SUBSET (1 .. j) /\ (m \notin s => s \in SUBSET (1 .. j))
    BY ONLY <2>2, <2>3
  <2>5. ASSUME NEW s \in SUBSET (1 .. m)  PROVE g[s] \in V
    <3>1. CASE m \in s
      <4>1. f[s \ {m}] \in V
        BY <2>4
      <4>2. g[s] = F[<<m, f[s \ {m}]>>]
        BY <3>1
      <4>3. QED
        BY ONLY <2>3, <4>1, <4>2, F \in [Nat \X V -> V]
    <3>2. CASE m \notin s
      BY <2>4, <3>2
    <3>3. QED
      BY <3>1, <3>2
  <2>6. g \in [SUBSET (1 .. m) -> V]
    BY ONLY <2>5
  <2>7. ASSUME NEW s \in SUBSET (1 .. m)
        PROVE  g[s] = IF s = {} THEN a ELSE F[<<Max(s), g[s \ {Max(s)}]>>]
    <3>1. CASE m \in s
      <4>1. Max(s) \in s /\ \A y \in s : Max(s) >= y
        BY ONLY <2>3, <3>1, MaxIn, s \in SUBSET (1 .. m)
      <4>2. Max(s) = m
        <5>1. Max(s) \in 1 .. m /\ Max(s) >= m
          BY ONLY <3>1, <4>1, s \in SUBSET (1 .. m)
        <5>2. QED
          BY ONLY <2>3, <5>1
      <4>3. s \ {m} \in SUBSET (1 .. m) /\ m \notin s \ {m}
        OBVIOUS
      <4>4. g[s] = F[<<m, f[s \ {m}]>>] /\ g[s \ {m}] = f[s \ {m}]
        BY <3>1, <4>3
      <4> HIDE DEF g
      <4>5. QED
        BY ONLY <3>1, <4>2, <4>4
    <3>2. CASE m \notin s
      <4>1. s \in SUBSET (1 .. j) /\ g[s] = f[s]
        BY <2>4, <3>2
      <4>2. s \ {Max(s)} \in SUBSET (1 .. m) /\ m \notin s \ {Max(s)}
        BY <3>2
      <4>3. g[s \ {Max(s)}] = f[s \ {Max(s)}]
        BY <4>2
      <4>4. f[s] = IF s = {} THEN a ELSE F[<<Max(s), f[s \ {Max(s)}]>>]
        BY ONLY <2>1, <4>1 DEF Latest
      <4> HIDE DEF g
      <4>5. QED
        BY ONLY <4>1, <4>3, <4>4
    <3>3. QED
      BY <3>1, <3>2
  <2> HIDE DEF g
  <2>8. Latest(a, F, m, g)
    BY ONLY <2>7 DEF Latest
  <2>9. There(m)
    BY ONLY <2>6, <2>8
  <2>10. QED
    BY ONLY <2>3, <2>9 DEF S
<1>3. n \in S
  <2>1. S \in SUBSET Nat
    OBVIOUS
  <2> HIDE DEF S
  <2>2. S = Nat
    BY ONLY <1>1, <1>2, <2>1, AllNumbers
  <2>3. QED
    BY <2>2
<1>4. QED
  BY <1>3

(* A setter writes its field and leaves the others. *)
LEMMA SetterKept ==
  ASSUME NEW layout, NEW f, NEW o \in Nat, NEW w \in Nat, NEW at \in Nat,
         layout[f] = <<o, w>>, o + w <= at, NEW x \in Nat, NEW d, Sized(d, at),
         NEW e, e = Setter(layout, d, f, x)
  PROVE  /\ Sized(e, at) /\ Has(e, o, ToBytes(x, w))
         /\ \A p \in Nat, s \in Seq(Octet) :
              Has(d, p, s) /\ (p + Len(s) <= o \/ o + w <= p) => Has(e, p, s)
<1>1. PICK t : t = ToBytes(x, w)
  OBVIOUS
<1>2. t \in Seq(Octet) /\ Len(t) = w
  BY ONLY <1>1, BytesOf, x \in Nat, w \in Nat
<1>3. d \in Seq(Octet) /\ Len(d) = at /\ DOMAIN d = 1 .. at
  BY DEF Sized
<1>4. layout[f][1] = o /\ layout[f][2] = w
  OBVIOUS
<1>5. e = [i \in 1 .. at |-> IF i \in o + 1 .. o + w THEN t[i - o] ELSE d[i]]
  BY ONLY <1>1, <1>3, <1>4, e = Setter(layout, d, f, x) DEF Setter
<1>6. \A i \in 1 .. w : t[i] \in Octet
  BY ONLY <1>2
<1>7. \A i \in 1 .. at : d[i] \in Octet
  BY ONLY <1>3
<1>8. ASSUME NEW i \in 1 .. at  PROVE e[i] \in Octet
  <2>1. CASE i \in o + 1 .. o + w
    <3>1. i - o \in 1 .. w
      BY ONLY <2>1, o \in Nat, w \in Nat
    <3>2. QED
      BY ONLY <1>5, <1>6, <2>1, <3>1
  <2>2. CASE i \notin o + 1 .. o + w
    BY ONLY <1>5, <1>7, <2>2
  <2>3. QED
    BY <2>1, <2>2
<1>9. Sized(e, at)
  <2>1. e \in [1 .. at -> Octet]
    BY ONLY <1>5, <1>8
  <2>2. QED
    BY ONLY <2>1, at \in Nat DEF Sized
<1>10. Has(e, o, t)
  <2>1. ASSUME NEW i \in 1 .. w  PROVE e[o + i] = t[i]
    <3>1. o + i \in 1 .. at /\ o + i \in o + 1 .. o + w /\ (o + i) - o = i
      BY ONLY o \in Nat, w \in Nat, at \in Nat, o + w <= at, i \in 1 .. w
    <3>2. QED
      BY ONLY <1>5, <3>1
  <2>2. Len(e) = at
    BY ONLY <1>9 DEF Sized
  <2>3. QED
    BY ONLY <1>2, <2>1, <2>2, o + w <= at DEF Has
<1>11. ASSUME NEW p \in Nat, NEW s \in Seq(Octet), Has(d, p, s), p + Len(s) <= o \/ o + w <= p
       PROVE  Has(e, p, s)
  <2>1. PICK k \in Nat : k = Len(s)
    OBVIOUS
  <2>2. p + k <= at /\ \A i \in 1 .. k : d[p + i] = s[i]
    BY ONLY <1>3, <1>11, <2>1 DEF Has
  <2>3. ASSUME NEW i \in 1 .. k  PROVE e[p + i] = s[i]
    <3>1. p + i \in 1 .. at /\ p + i \notin o + 1 .. o + w
      BY ONLY <1>11, <2>1, <2>2, p \in Nat, o \in Nat, w \in Nat, at \in Nat, i \in 1 .. k
    <3>2. QED
      BY ONLY <1>5, <2>2, <3>1
  <2>4. Len(e) = at
    BY ONLY <1>9 DEF Sized
  <2>5. QED
    BY ONLY <2>1, <2>2, <2>3, <2>4 DEF Has
<1>12. QED
  BY ONLY <1>1, <1>9, <1>10, <1>11

(* The fields of a layout lie before its end, none over another. *)
Apart(layout, at) ==
  /\ \A f \in DOMAIN layout :
       layout[f] \in Nat \X Nat /\ layout[f][1] + layout[f][2] <= at
  /\ \A f, g \in DOMAIN layout : f # g =>
       \/ layout[f][1] + layout[f][2] <= layout[g][1]
       \/ layout[g][1] + layout[g][2] <= layout[f][1]

(* Setters called one after the other. *)
Called(layout, m, order, n, v) ==
  \A k \in 1 .. n : v[k] = Setter(layout, v[k - 1], order[k], m[order[k]])

(* A message object that begins with what they leave of zeroed data. *)
Made(layout, at, m, order, n) ==
  \E v : /\ Sized(v[0], at) /\ Called(layout, m, order, n, v)
         /\ Object(layout, at, m, order) = v[n] \o m.asdu

(* Every message object is made so. *)
LEMMA ObjectMade ==
  ASSUME NEW layout, NEW at \in Nat, NEW m, NEW n \in Nat, NEW order, Apart(layout, at),
         order \in [1 .. n -> DOMAIN layout], \A f \in DOMAIN layout : m[f] \in Nat
  PROVE  Made(layout, at, m, order, n)
<1> DEFINE zero == [i \in 1 .. at |-> 0]
           V == {d \in Seq(Octet) : Len(d) = at}
           setIn(d, k) == Setter(layout, d, order[k], m[order[k]])
           F == [p \in Nat \X V |-> IF p[1] \in 1 .. n THEN setIn(p[2], p[1]) ELSE p[2]]
           Rule(it, s) == IF s = {} THEN zero ELSE setIn(it[s \ {Max(s)}], Max(s))
           iter[s \in SUBSET (DOMAIN order)] ==
             IF s = {} THEN zero ELSE LET x == Max(s) IN setIn(iter[s \ {x}], x)
<1>1. zero \in V
  <2>1. 0 \in Octet
    BY ONLY DEF Octet
  <2>2. zero \in [1 .. at -> Octet]
    BY ONLY <2>1
  <2> HIDE DEF zero
  <2>3. QED
    BY ONLY <2>2, at \in Nat
<1>2. ASSUME NEW d \in V, NEW k \in 1 .. n  PROVE setIn(d, k) \in V
  <2>1. Sized(d, at)
    BY ONLY d \in V, at \in Nat DEF Sized
  <2>2. PICK f \in DOMAIN layout : f = order[k]
    BY ONLY k \in 1 .. n, order \in [1 .. n -> DOMAIN layout]
  <2>3. PICK o \in Nat, w \in Nat : layout[f] = <<o, w>>
    <3>1. layout[f] \in Nat \X Nat
      BY ONLY Apart(layout, at), f \in DOMAIN layout DEF Apart
    <3>2. QED
      BY ONLY <3>1
  <2>4. o + w <= at
    <3>1. layout[f][1] + layout[f][2] <= at
      BY ONLY Apart(layout, at), f \in DOMAIN layout DEF Apart
    <3>2. QED
      BY ONLY <2>3, <3>1
  <2>5. m[f] \in Nat
    OBVIOUS
  <2>6. PICK e : e = Setter(layout, d, f, m[f])
    OBVIOUS
  <2>7. Sized(e, at)
    BY ONLY <2>1, <2>3, <2>4, <2>5, <2>6, SetterKept, at \in Nat, o \in Nat, w \in Nat
  <2>8. QED
    BY ONLY <2>2, <2>6, <2>7 DEF Sized
<1>3. F \in [Nat \X V -> V]
  <2> HIDE DEF V, setIn
  <2>1. QED
    BY ONLY <1>2
<1>4. \A k \in 1 .. n : \A d \in V : F[<<k, d>>] = setIn(d, k)
  <2> HIDE DEF V, setIn
  <2>1. QED
    OBVIOUS
<1> HIDE DEF F, V, zero
<1>5. PICK it \in [SUBSET (1 .. n) -> V] : Latest(zero, F, n, it)
  BY ONLY <1>1, <1>3, FoldedLeft, n \in Nat
<1> HIDE DEF setIn
<1>6. ASSUME NEW s \in SUBSET (1 .. n)  PROVE it[s] = Rule(it, s)
  <2>1. it[s] = IF s = {} THEN zero ELSE F[<<Max(s), it[s \ {Max(s)}]>>]
    BY ONLY <1>5, s \in SUBSET (1 .. n) DEF Latest
  <2>2. CASE s # {}
    <3>1. Max(s) \in 1 .. n
      <4>1. Max(s) \in s
        BY ONLY <2>2, MaxIn, n \in Nat, s \in SUBSET (1 .. n)
      <4>2. QED
        BY ONLY <4>1, s \in SUBSET (1 .. n)
    <3>2. it[s \ {Max(s)}] \in V
      OBVIOUS
    <3>3. QED
      BY ONLY <1>4, <2>1, <2>2, <3>1, <3>2
  <2>3. CASE s = {}
    BY ONLY <2>1, <2>3
  <2>4. QED
    BY <2>2, <2>3
<1>7. DOMAIN order = 1 .. n
  OBVIOUS
<1>8. iter = [s \in SUBSET (DOMAIN order) |-> Rule(iter, s)]
  <2>1. it = [s \in SUBSET (DOMAIN order) |-> Rule(it, s)]
    <3> HIDE DEF Rule
    <3>1. QED
      BY ONLY <1>5, <1>6, <1>7
  <2>2. \E f : f = [s \in SUBSET (DOMAIN order) |-> Rule(f, s)]
    BY ONLY <2>1
  <2>3. QED
    BY <2>2
<1>9. Object(layout, at, m, order) = iter[DOMAIN order] \o m.asdu
  BY ONLY Zenon DEF Object, FoldLeft, MapThenFoldSet, setIn, zero
<1> HIDE DEF iter
<1>10. \A s \in SUBSET (1 .. n) : iter[s] = Rule(iter, s)
  <2> HIDE DEF Rule
  <2>1. QED
    BY ONLY <1>7, <1>8
<1> DEFINE v == [k \in 0 .. n |-> iter[1 .. k]]
<1>11. v[0] = zero
  <2>1. 1 .. 0 = {} /\ {} \in SUBSET (1 .. n) /\ 0 \in 0 .. n
    OBVIOUS
  <2>2. QED
    BY ONLY <1>10, <2>1
<1>12. v[n] = iter[DOMAIN order]
  BY ONLY <1>7, n \in Nat
<1>13. ASSUME NEW k \in 1 .. n  PROVE v[k] = setIn(v[k - 1], k)
  <2>1. /\ 1 .. k \in SUBSET (1 .. n) /\ k \in 1 .. k /\ (1 .. k) \ {k} = 1 .. k - 1
        /\ k \in 0 .. n /\ k - 1 \in 0 .. n /\ k \in Nat
    OBVIOUS
  <2>2. PICK x : x = Max(1 .. k)
    OBVIOUS
  <2>3. x \in 1 .. k /\ \A y \in 1 .. k : x >= y
    <3>1. 1 .. k # {} /\ 1 .. k \in SUBSET (1 .. k)
      BY ONLY <2>1
    <3>2. QED
      BY ONLY <2>1, <2>2, <3>1, MaxIn
  <2>4. x = k
    <3>1. x >= k
      BY ONLY <2>1, <2>3
    <3>2. QED
      BY ONLY <2>1, <2>3, <3>1
  <2>5. iter[1 .. k] = setIn(iter[(1 .. k) \ {k}], k)
    <3>1. iter[1 .. k] = Rule(iter, 1 .. k)
      BY ONLY <1>10, <2>1
    <3>2. 1 .. k # {}
      BY ONLY <2>1
    <3>3. QED
      BY ONLY <2>2, <2>4, <3>1, <3>2
  <2>6. QED
    BY ONLY <2>1, <2>5
<1>14. Called(layout, m, order, n, v)
  <2> HIDE DEF v
  <2>1. QED
    BY ONLY <1>13 DEF Called, setIn
<1>15. Sized(v[0], at)
  BY ONLY <1>1, <1>11, at \in Nat DEF Sized, V
<1> HIDE DEF v
<1>16. QED
  BY ONLY <1>9, <1>12, <1>14, <1>15 DEF Made

(* A message object has what its setters wrote. *)
Begun(layout, at, m, order) ==
  \E d : /\ Sized(d, at) /\ Object(layout, at, m, order) = d \o m.asdu
         /\ \A f \in DOMAIN layout : Has(d, layout[f][1], ToBytes(m[f], layout[f][2]))

(* And so it has every field, if every setter is called once. *)
LEMMA ObjectHas ==
  ASSUME NEW layout, NEW at \in Nat, NEW m, NEW n \in Nat, NEW order, Apart(layout, at),
         order \in [1 .. n -> DOMAIN layout], \A f \in DOMAIN layout : m[f] \in Nat,
         \A f \in DOMAIN layout : \E j \in 1 .. n : order[j] = f,
         \A i, j \in 1 .. n : order[i] = order[j] => i = j
  PROVE  Begun(layout, at, m, order)
<1>1. PICK v : /\ Sized(v[0], at) /\ Called(layout, m, order, n, v)
               /\ Object(layout, at, m, order) = v[n] \o m.asdu
  <2>1. Made(layout, at, m, order, n)
    BY ObjectMade
  <2>2. QED
    BY ONLY <2>1 DEF Made
<1> DEFINE There(j, d) == Has(d, layout[order[j]][1], ToBytes(m[order[j]], layout[order[j]][2]))
           S == {k \in Nat : k <= n => Sized(v[k], at) /\ \A j \in 1 .. k : There(j, v[k])}
<1>2. 0 \in S
  BY ONLY <1>1
<1>3. ASSUME NEW k \in S  PROVE k + 1 \in S
  <2> DEFINE i == k + 1
  <2>1. k \in Nat /\ (k <= n => Sized(v[k], at) /\ \A j \in 1 .. k : There(j, v[k]))
    OBVIOUS
  <2> HIDE DEF S, There
  <2>2. i \in Nat /\ i - 1 = k /\ i = k + 1
    BY ONLY <2>1
  <2> HIDE DEF i
  <2>3. ASSUME i <= n  PROVE Sized(v[i], at) /\ \A j \in 1 .. i : There(j, v[i])
    <3>1. k <= n /\ i \in 1 .. n
      BY ONLY <2>1, <2>2, <2>3, n \in Nat
    <3>2. Sized(v[k], at) /\ \A j \in 1 .. k : There(j, v[k])
      BY ONLY <2>1, <3>1
    <3>3. PICK f \in DOMAIN layout : f = order[i]
      BY ONLY <3>1, order \in [1 .. n -> DOMAIN layout]
    <3>4. v[i] = Setter(layout, v[k], f, m[f])
      BY ONLY <1>1, <2>2, <3>1, <3>3 DEF Called
    <3>5. PICK o \in Nat, w \in Nat : layout[f] = <<o, w>>
      <4>1. layout[f] \in Nat \X Nat
        BY ONLY Apart(layout, at), f \in DOMAIN layout DEF Apart
      <4>2. QED
        BY ONLY <4>1
    <3>6. o + w <= at
      <4>1. layout[f][1] + layout[f][2] <= at
        BY ONLY Apart(layout, at), f \in DOMAIN layout DEF Apart
      <4>2. QED
        BY ONLY <3>5, <4>1
    <3>7. m[f] \in Nat
      OBVIOUS
    <3>8. /\ Sized(v[i], at) /\ Has(v[i], o, ToBytes(m[f], w))
          /\ \A p \in Nat, s \in Seq(Octet) :
               Has(v[k], p, s) /\ (p + Len(s) <= o \/ o + w <= p) => Has(v[i], p, s)
      BY ONLY <3>2, <3>4, <3>5, <3>6, <3>7, SetterKept, at \in Nat, o \in Nat, w \in Nat
    <3>9. ASSUME NEW j \in 1 .. i  PROVE There(j, v[i])
      <4>1. CASE j = i
        BY ONLY <3>3, <3>5, <3>8, <4>1 DEF There
      <4>2. CASE j # i
        <5>1. j \in 1 .. k /\ j \in 1 .. n
          BY ONLY <2>2, <3>1, <4>2, j \in 1 .. i, n \in Nat, k \in Nat
        <5>2. PICK g \in DOMAIN layout : g = order[j]
          BY ONLY <5>1, order \in [1 .. n -> DOMAIN layout]
        <5>3. g # f
          BY ONLY <3>1, <3>3, <4>2, <5>1, <5>2,
                  \A a, b \in 1 .. n : order[a] = order[b] => a = b
        <5>4. PICK p \in Nat, l \in Nat : layout[g] = <<p, l>>
          <6>1. layout[g] \in Nat \X Nat
            BY ONLY Apart(layout, at), g \in DOMAIN layout DEF Apart
          <6>2. QED
            BY ONLY <6>1
        <5>5. p + l <= o \/ o + w <= p
          <6>1. \/ layout[f][1] + layout[f][2] <= layout[g][1]
                \/ layout[g][1] + layout[g][2] <= layout[f][1]
            BY ONLY <5>3, Apart(layout, at), f \in DOMAIN layout, g \in DOMAIN layout DEF Apart
          <6>2. QED
            BY ONLY <3>5, <5>4, <6>1
        <5>6. PICK s : s = ToBytes(m[g], l)
          OBVIOUS
        <5>7. s \in Seq(Octet) /\ Len(s) = l
          <6>1. m[g] \in Nat
            OBVIOUS
          <6>2. QED
            BY ONLY <5>6, <6>1, BytesOf, l \in Nat
        <5>8. Has(v[k], p, s)
          <6>1. There(j, v[k])
            BY ONLY <3>2, <5>1
          <6>2. QED
            BY ONLY <5>2, <5>4, <5>6, <6>1 DEF There
        <5>9. Has(v[i], p, s)
          BY ONLY <3>8, <5>5, <5>7, <5>8, p \in Nat
        <5>10. QED
          BY ONLY <5>2, <5>4, <5>6, <5>9 DEF There
      <4>3. QED
        BY ONLY <4>1, <4>2
    <3>10. QED
      BY ONLY <3>8, <3>9
  <2>4. QED
    BY ONLY <2>2, <2>3 DEF S
<1>4. n \in S
  <2>1. S \in SUBSET Nat
    OBVIOUS
  <2> HIDE DEF S
  <2>2. S = Nat
    BY ONLY <1>2, <1>3, <2>1, AllNumbers
  <2>3. QED
    BY <2>2
<1>5. Sized(v[n], at) /\ \A j \in 1 .. n : There(j, v[n])
  <2> HIDE DEF There
  <2>1. QED
    BY ONLY <1>4, n \in Nat, n <= n
<1>6. ASSUME NEW f \in DOMAIN layout  PROVE Has(v[n], layout[f][1], ToBytes(m[f], layout[f][2]))
  <2>1. PICK j \in 1 .. n : order[j] = f
    OBVIOUS
  <2>2. There(j, v[n])
    BY ONLY <1>5, j \in 1 .. n
  <2>3. QED
    BY ONLY <2>1, <2>2 DEF There
<1>7. QED
  BY ONLY <1>1, <1>5, <1>6 DEF Begun

(* Each of the bytes of a sequence is where it stands. *)
LEMMA BytesIn ==
  ASSUME NEW s, NEW k, Sized(s, k), NEW r \in Seq(Octet), NEW q \in Nat, Has(r, q, s),
         NEW i \in Nat, 1 <= i, i <= k
  PROVE  Has(r, q + i - 1, ToBytes(s[i], 1))
<1>1. s \in Seq(Octet) /\ Len(s) = k /\ k \in Nat
  BY DEF Sized
<1>2. i \in 1 .. Len(s)
  BY ONLY <1>1, i \in Nat, 1 <= i, i <= k
<1>3. PICK x \in Octet : x = s[i]
  BY ONLY <1>1, <1>2
<1>4. r[q + i] = x
  BY ONLY <1>3, HasAt, Sized(s, k), Has(r, q, s), q \in Nat, i \in Nat, 1 <= i, i <= k
<1>5. ToBytes(x, 1) = <<x>>
  <2>1. x \in Nat /\ x < 256
    BY ONLY OctetType, x \in Octet
  <2>2. x \in 0 .. 255
    BY ONLY <2>1
  <2>3. QED
    BY ONLY <2>2, OneByte
<1>6. PICK p \in Nat : p = q + i - 1
  BY ONLY q \in Nat, i \in Nat, 1 <= i
<1>7. p + 1 = q + i /\ q + i <= Len(r)
  <2>1. q + Len(s) <= Len(r)
    BY DEF Has
  <2>2. QED
    BY ONLY <1>1, <1>6, <2>1, q \in Nat, i \in Nat, i <= k, r \in Seq(Octet)
<1>8. Has(r, p, <<x>>)
  BY ONLY <1>4, <1>7, HasByte, p \in Nat, x \in Octet, r \in Seq(Octet)
<1>9. QED
  BY ONLY <1>3, <1>5, <1>6, <1>8

(* All of a message stands in b at the offsets of its layout. *)
Carrying(layout, at, b, m) ==
  /\ b \in Seq(Octet)
  /\ \A f \in DOMAIN layout : Has(b, layout[f][1], ToBytes(m[f], layout[f][2]))
  /\ Has(b, at, m.asdu)

(* Its fields are numbers that fit, its length that of its asdu. *)
Sendable(layout, m) ==
  /\ \A f \in DOMAIN layout : m[f] \in Nat /\ Fitting(m[f], layout[f][2])
  /\ Sized(m.asdu, m.asduLen)

(* The getters find what stands there. *)
LEMMA CarriesRead ==
  ASSUME NEW layout, NEW at \in Nat, NEW b, NEW m, Apart(layout, at), Sendable(layout, m),
         Carrying(layout, at, b, m)
  PROVE  Carries(layout, at, b, m)
<1>1. ASSUME NEW f \in DOMAIN layout  PROVE Getter(layout, b, f) = m[f]
  <2>1. PICK o \in Nat, w \in Nat : layout[f] = <<o, w>>
    <3>1. layout[f] \in Nat \X Nat
      BY ONLY Apart(layout, at), f \in DOMAIN layout DEF Apart
    <3>2. QED
      BY ONLY <3>1
  <2>2. m[f] \in Nat /\ Fitting(m[f], layout[f][2])
    BY ONLY Sendable(layout, m), f \in DOMAIN layout DEF Sendable
  <2>3. b \in Seq(Octet) /\ Has(b, layout[f][1], ToBytes(m[f], layout[f][2]))
    BY ONLY Carrying(layout, at, b, m), f \in DOMAIN layout DEF Carrying
  <2>4. PICK x \in Nat : x = m[f]
    BY ONLY <2>2
  <2>5. layout[f][1] = o /\ layout[f][2] = w
    BY ONLY <2>1
  <2>6. Fitting(x, w) /\ Has(b, o, ToBytes(x, w))
    BY ONLY <2>2, <2>3, <2>4, <2>5
  <2>7. FromBytes(SubSeq(b, o + 1, o + w)) = x
    BY ONLY <2>3, <2>6, FieldKept, o \in Nat, w \in Nat, x \in Nat
  <2>8. QED
    BY ONLY <2>4, <2>5, <2>7 DEF Getter
<1>2. SubSeq(b, at + 1, at + m.asduLen) = m.asdu
  <2>1. m.asdu \in Seq(Octet) /\ Len(m.asdu) = m.asduLen
    BY DEF Sendable, Sized
  <2>2. b \in Seq(Octet) /\ Has(b, at, m.asdu)
    BY DEF Carrying
  <2>3. QED
    BY ONLY <2>1, <2>2, HasFound, at \in Nat
<1>3. QED
  BY ONLY <1>1, <1>2 DEF Carries

(* So does a message object, if every setter was called once. *)
LEMMA ObjectCarries ==
  ASSUME NEW layout, NEW at \in Nat, NEW m, NEW n \in Nat, NEW order, Apart(layout, at),
         Sendable(layout, m), order \in [1 .. n -> DOMAIN layout],
         \A f \in DOMAIN layout : \E j \in 1 .. n : order[j] = f,
         \A i, j \in 1 .. n : order[i] = order[j] => i = j
  PROVE  Carries(layout, at, Object(layout, at, m, order), m)
<1>1. \A f \in DOMAIN layout : m[f] \in Nat
  BY DEF Sendable
<1>2. PICK d : /\ Sized(d, at) /\ Object(layout, at, m, order) = d \o m.asdu
               /\ \A f \in DOMAIN layout : Has(d, layout[f][1], ToBytes(m[f], layout[f][2]))
  <2>1. Begun(layout, at, m, order)
    BY <1>1, ObjectHas
  <2>2. QED
    BY ONLY <2>1 DEF Begun
<1>3. PICK b : b = d \o m.asdu
  OBVIOUS
<1>4. d \in Seq(Octet) /\ Len(d) = at /\ m.asdu \in Seq(Octet)
  BY ONLY <1>2, Sendable(layout, m) DEF Sized, Sendable
<1>5. /\ b \in Seq(Octet) /\ Has(b, at, m.asdu)
      /\ \A p \in Nat : \A s \in Seq(Octet) : Has(d, p, s) => Has(b, p, s)
  BY ONLY <1>3, <1>4, HasMore
<1>6. ASSUME NEW f \in DOMAIN layout
      PROVE  Has(b, layout[f][1], ToBytes(m[f], layout[f][2]))
  <2>1. PICK o \in Nat, w \in Nat : layout[f] = <<o, w>>
    <3>1. layout[f] \in Nat \X Nat
      BY ONLY Apart(layout, at), f \in DOMAIN layout DEF Apart
    <3>2. QED
      BY ONLY <3>1
  <2>2. layout[f][1] = o /\ layout[f][2] = w
    BY ONLY <2>1
  <2>3. ToBytes(m[f], w) \in Seq(Octet)
    <3>1. m[f] \in Nat
      BY ONLY <1>1, f \in DOMAIN layout
    <3>2. QED
      BY ONLY <3>1, BytesOf, w \in Nat
  <2>4. Has(d, o, ToBytes(m[f], w))
    BY ONLY <1>2, <2>2, f \in DOMAIN layout
  <2>5. QED
    BY ONLY <1>5, <2>2, <2>3, <2>4, o \in Nat
<1>7. Carrying(layout, at, b, m)
  BY ONLY <1>5, <1>6 DEF Carrying
<1>8. QED
  BY ONLY <1>2, <1>3, <1>7, CarriesRead, Apart(layout, at), Sendable(layout, m), at \in Nat

(* The fields of KrAf, and its setters. *)
LEMMA AfLayout ==
  /\ Apart(KrAf, KrAfAsdu) /\ KrAfAsdu \in Nat
  /\ APDUSetters \in [1 .. 8 -> DOMAIN KrAf]
  /\ \A f \in DOMAIN KrAf : \E j \in 1 .. 8 : APDUSetters[j] = f
  /\ \A i, j \in 1 .. 8 : APDUSetters[i] = APDUSetters[j] => i = j
<1>1. PICK l : l = KrAf
  OBVIOUS
<1>2. DOMAIN l = {"dstAddr", "dstEndpoint", "srcEndpoint", "clusterId", "tranSeqNum",
                  "options", "radius", "asduLen"}
  BY ONLY <1>1 DEF KrAf
<1>3. /\ l["dstAddr"] = <<0, 2>> /\ l["dstEndpoint"] = <<2, 1>> /\ l["srcEndpoint"] = <<3, 1>>
      /\ l["clusterId"] = <<4, 2>> /\ l["tranSeqNum"] = <<6, 1>> /\ l["options"] = <<7, 1>>
      /\ l["radius"] = <<8, 1>> /\ l["asduLen"] = <<9, 1>>
  BY ONLY <1>1 DEF KrAf
<1>4. ASSUME NEW f \in DOMAIN l
      PROVE  l[f] \in Nat \X Nat /\ l[f][1] + l[f][2] <= 10
  BY ONLY <1>2, <1>3, f \in DOMAIN l
<1>5. ASSUME NEW f \in DOMAIN l, NEW g \in DOMAIN l, f # g
      PROVE  l[f][1] + l[f][2] <= l[g][1] \/ l[g][1] + l[g][2] <= l[f][1]
  <2>1. CASE f = "dstAddr"
    BY ONLY <1>2, <1>3, <1>5, <2>1, g \in DOMAIN l
  <2>2. CASE f = "dstEndpoint"
    BY ONLY <1>2, <1>3, <1>5, <2>2, g \in DOMAIN l
  <2>3. CASE f = "srcEndpoint"
    BY ONLY <1>2, <1>3, <1>5, <2>3, g \in DOMAIN l
  <2>4. CASE f = "clusterId"
    BY ONLY <1>2, <1>3, <1>5, <2>4, g \in DOMAIN l
  <2>5. CASE f = "tranSeqNum"
    BY ONLY <1>2, <1>3, <1>5, <2>5, g \in DOMAIN l
  <2>6. CASE f = "options"
    BY ONLY <1>2, <1>3, <1>5, <2>6, g \in DOMAIN l
  <2>7. CASE f = "radius"
    BY ONLY <1>2, <1>3, <1>5, <2>7, g \in DOMAIN l
  <2>8. CASE f = "asduLen"
    BY ONLY <1>2, <1>3, <1>5, <2>8, g \in DOMAIN l
  <2>9. QED
    BY ONLY <1>2, <2>1, <2>2, <2>3, <2>4, <2>5, <2>6, <2>7, <2>8, f \in DOMAIN l
<1>6. KrAfAsdu = 10 /\ 10 \in Nat
  BY ONLY DEF KrAfAsdu
<1>7. Apart(KrAf, KrAfAsdu)
  BY ONLY <1>1, <1>4, <1>5, <1>6 DEF Apart
<1>8. PICK o : o = APDUSetters
  OBVIOUS
<1>9. /\ o[1] = "clusterId" /\ o[2] = "dstAddr" /\ o[3] = "dstEndpoint" /\ o[4] = "srcEndpoint"
      /\ o[5] = "options" /\ o[6] = "tranSeqNum" /\ o[7] = "radius" /\ o[8] = "asduLen"
  BY ONLY <1>8 DEF APDUSetters
<1>10. o \in [1 .. 8 -> DOMAIN l]
  BY ONLY <1>2, <1>8 DEF APDUSetters
<1>11. ASSUME NEW f \in DOMAIN l  PROVE \E j \in 1 .. 8 : o[j] = f
  <2>1. 1 \in 1 .. 8 /\ 2 \in 1 .. 8 /\ 3 \in 1 .. 8 /\ 4 \in 1 .. 8 /\ 5 \in 1 .. 8 /\ 6 \in 1 .. 8 /\ 7 \in 1 .. 8 /\ 8 \in 1 .. 8
    OBVIOUS
  <2>2. QED
    BY ONLY <1>2, <1>9, <2>1, f \in DOMAIN l
<1>12. ASSUME NEW i \in 1 .. 8, NEW j \in 1 .. 8, o[i] = o[j]  PROVE i = j
  <2>1. CASE i = 1
    BY ONLY <1>9, <1>12, <2>1, j \in 1 .. 8
  <2>2. CASE i = 2
    BY ONLY <1>9, <1>12, <2>2, j \in 1 .. 8
  <2>3. CASE i = 3
    BY ONLY <1>9, <1>12, <2>3, j \in 1 .. 8
  <2>4. CASE i = 4
    BY ONLY <1>9, <1>12, <2>4, j \in 1 .. 8
  <2>5. CASE i = 5
    BY ONLY <1>9, <1>12, <2>5, j \in 1 .. 8
  <2>6. CASE i = 6
    BY ONLY <1>9, <1>12, <2>6, j \in 1 .. 8
  <2>7. CASE i = 7
    BY ONLY <1>9, <1>12, <2>7, j \in 1 .. 8
  <2>8. CASE i = 8
    BY ONLY <1>9, <1>12, <2>8, j \in 1 .. 8
  <2>9. QED
    BY ONLY <2>1, <2>2, <2>3, <2>4, <2>5, <2>6, <2>7, <2>8, i \in 1 .. 8
<1>13. QED
  BY ONLY <1>1, <1>6, <1>7, <1>8, <1>10, <1>11, <1>12

(* The fields of KrAfExt, and its setters. *)
LEMMA ExtLayout ==
  /\ Apart(KrAfExt, KrAfExtAsdu) /\ KrAfExtAsdu \in Nat
  /\ ExtSetters \in [1 .. 10 -> DOMAIN KrAfExt]
  /\ \A f \in DOMAIN KrAfExt : \E j \in 1 .. 10 : ExtSetters[j] = f
  /\ \A i, j \in 1 .. 10 : ExtSetters[i] = ExtSetters[j] => i = j
<1>1. PICK l : l = KrAfExt
  OBVIOUS
<1>2. DOMAIN l = {"addrMode", "dstAddr", "dstEndpoint", "dstPanId", "srcEndpoint",
                  "clusterId", "tranSeqNum", "options", "radius", "asduLen"}
  BY ONLY <1>1 DEF KrAfExt
<1>3. /\ l["addrMode"] = <<0, 1>> /\ l["dstAddr"] = <<1, 8>> /\ l["dstEndpoint"] = <<9, 1>>
      /\ l["dstPanId"] = <<10, 2>> /\ l["srcEndpoint"] = <<12, 1>> /\ l["clusterId"] = <<13, 2>>
      /\ l["tranSeqNum"] = <<15, 1>> /\ l["options"] = <<16, 1>> /\ l["radius"] = <<17, 1>>
      /\ l["asduLen"] = <<18, 2>>
  BY ONLY <1>1 DEF KrAfExt
<1>4. ASSUME NEW f \in DOMAIN l
      PROVE  l[f] \in Nat \X Nat /\ l[f][1] + l[f][2] <= 20
  BY ONLY <1>2, <1>3, f \in DOMAIN l
<1>5. ASSUME NEW f \in DOMAIN l, NEW g \in DOMAIN l, f # g
      PROVE  l[f][1] + l[f][2] <= l[g][1] \/ l[g][1] + l[g][2] <= l[f][1]
  <2>1. CASE f = "addrMode"
    BY ONLY <1>2, <1>3, <1>5, <2>1, g \in DOMAIN l
  <2>2. CASE f = "dstAddr"
    BY ONLY <1>2, <1>3, <1>5, <2>2, g \in DOMAIN l
  <2>3. CASE f = "dstEndpoint"
    BY ONLY <1>2, <1>3, <1>5, <2>3, g \in DOMAIN l
  <2>4. CASE f = "dstPanId"
    BY ONLY <1>2, <1>3, <1>5, <2>4, g \in DOMAIN l
  <2>5. CASE f = "srcEndpoint"
    BY ONLY <1>2, <1>3, <1>5, <2>5, g \in DOMAIN l
  <2>6. CASE f = "clusterId"
    BY ONLY <1>2, <1>3, <1>5, <2>6, g \in DOMAIN l
  <2>7. CASE f = "tranSeqNum"
    BY ONLY <1>2, <1>3, <1>5, <2>7, g \in DOMAIN l
  <2>8. CASE f = "options"
    BY ONLY <1>2, <1>3, <1>5, <2>8, g \in DOMAIN l
  <2>9. CASE f = "radius"
    BY ONLY <1>2, <1>3, <1>5, <2>9, g \in DOMAIN l
  <2>10. CASE f = "asduLen"
    BY ONLY <1>2, <1>3, <1>5, <2>10, g \in DOMAIN l
  <2>11. QED
    BY ONLY <1>2, <2>1, <2>2, <2>3, <2>4, <2>5, <2>6, <2>7, <2>8, <2>9, <2>10, f \in DOMAIN l
<1>6. KrAfExtAsdu = 20 /\ 20 \in Nat
  BY ONLY DEF KrAfExtAsdu
<1>7. Apart(KrAfExt, KrAfExtAsdu)
  BY ONLY <1>1, <1>4, <1>5, <1>6 DEF Apart
<1>8. PICK o : o = ExtSetters
  OBVIOUS
<1>9. /\ o[1] = "asduLen" /\ o[2] = "radius" /\ o[3] = "options" /\ o[4] = "tranSeqNum"
      /\ o[5] = "clusterId" /\ o[6] = "srcEndpoint" /\ o[7] = "dstPanId" /\ o[8] = "dstEndpoint"
      /\ o[9] = "dstAddr" /\ o[10] = "addrMode"
  BY ONLY <1>8 DEF ExtSetters
<1>10. o \in [1 .. 10 -> DOMAIN l]
  BY ONLY <1>2, <1>8 DEF ExtSetters
<1>11. ASSUME NEW f \in DOMAIN l  PROVE \E j \in 1 .. 10 : o[j] = f
  <2>1. 1 \in 1 .. 10 /\ 2 \in 1 .. 10 /\ 3 \in 1 .. 10 /\ 4 \in 1 .. 10 /\ 5 \in 1 .. 10 /\ 6 \in 1 .. 10 /\ 7 \in 1 .. 10 /\ 8 \in 1 .. 10 /\ 9 \in 1 .. 10 /\ 10 \in 1 .. 10
    OBVIOUS
  <2>2. QED
    BY ONLY <1>2, <1>9, <2>1, f \in DOMAIN l
<1>12. ASSUME NEW i \in 1 .. 10, NEW j \in 1 .. 10, o[i] = o[j]  PROVE i = j
  <2>1. CASE i = 1
    BY ONLY <1>9, <1>12, <2>1, j \in 1 .. 10
  <2>2. CASE i = 2
    BY ONLY <1>9, <1>12, <2>2, j \in 1 .. 10
  <2>3. CASE i = 3
    BY ONLY <1>9, <1>12, <2>3, j \in 1 .. 10
  <2>4. CASE i = 4
    BY ONLY <1>9, <1>12, <2>4, j \in 1 .. 10
  <2>5. CASE i = 5
    BY ONLY <1>9, <1>12, <2>5, j \in 1 .. 10
  <2>6. CASE i = 6
    BY ONLY <1>9, <1>12, <2>6, j \in 1 .. 10
  <2>7. CASE i = 7
    BY ONLY <1>9, <1>12, <2>7, j \in 1 .. 10
  <2>8. CASE i = 8
    BY ONLY <1>9, <1>12, <2>8, j \in 1 .. 10
  <2>9. CASE i = 9
    BY ONLY <1>9, <1>12, <2>9, j \in 1 .. 10
  <2>10. CASE i = 10
    BY ONLY <1>9, <1>12, <2>10, j \in 1 .. 10
  <2>11. QED
    BY ONLY <2>1, <2>2, <2>3, <2>4, <2>5, <2>6, <2>7, <2>8, <2>9, <2>10, i \in 1 .. 10
<1>13. QED
  BY ONLY <1>1, <1>6, <1>7, <1>8, <1>10, <1>11, <1>12

(* What the fields of an AF message have room for.                           *)
AfFits(m, n) ==
  /\ m.dstAddr \in Word /\ m.dstEndpoint \in Octet /\ m.srcEndpoint \in Octet
  /\ m.clusterId \in Word /\ m.tranSeqNum \in Octet /\ m.options \in Octet
  /\ m.radius \in Octet /\ m.asduLen \in Octet
  /\ n \in Nat /\ m.asduLen = n /\ Sized(m.asdu, n)

(* They fit.                                                                 *)
LEMMA AfSendable ==
  ASSUME NEW m, NEW n, AfFits(m, n)
  PROVE  Sendable(KrAf, m)
<1>1. DOMAIN KrAf = {"dstAddr", "dstEndpoint", "srcEndpoint", "clusterId", "tranSeqNum",
                  "options", "radius", "asduLen"}
  BY ONLY DEF KrAf
<1>2. /\ KrAf["dstAddr"] = <<0, 2>> /\ KrAf["dstEndpoint"] = <<2, 1>> /\ KrAf["srcEndpoint"] = <<3, 1>>
      /\ KrAf["clusterId"] = <<4, 2>> /\ KrAf["tranSeqNum"] = <<6, 1>> /\ KrAf["options"] = <<7, 1>>
      /\ KrAf["radius"] = <<8, 1>> /\ KrAf["asduLen"] = <<9, 1>>
  BY ONLY DEF KrAf
<1>3. 1 \in Nat /\ 1 >= 1 /\ 2 \in Nat /\ 2 >= 2
  OBVIOUS
<1>4. /\ m.dstAddr \in Nat /\ Fitting(m.dstAddr, 2) /\ m.dstEndpoint \in Nat /\ Fitting(m.dstEndpoint, 1)
      /\ m.srcEndpoint \in Nat /\ Fitting(m.srcEndpoint, 1) /\ m.clusterId \in Nat /\ Fitting(m.clusterId, 2)
      /\ m.tranSeqNum \in Nat /\ Fitting(m.tranSeqNum, 1) /\ m.options \in Nat /\ Fitting(m.options, 1)
      /\ m.radius \in Nat /\ Fitting(m.radius, 1) /\ m.asduLen \in Nat /\ Fitting(m.asduLen, 1)
  BY ONLY <1>3, NumbersFit, AfFits(m, n) DEF AfFits
<1>5. ASSUME NEW f \in DOMAIN KrAf  PROVE m[f] \in Nat /\ Fitting(m[f], KrAf[f][2])
  <2>1. CASE f = "dstAddr"
    BY ONLY <1>2, <1>4, <2>1
  <2>2. CASE f = "dstEndpoint"
    BY ONLY <1>2, <1>4, <2>2
  <2>3. CASE f = "srcEndpoint"
    BY ONLY <1>2, <1>4, <2>3
  <2>4. CASE f = "clusterId"
    BY ONLY <1>2, <1>4, <2>4
  <2>5. CASE f = "tranSeqNum"
    BY ONLY <1>2, <1>4, <2>5
  <2>6. CASE f = "options"
    BY ONLY <1>2, <1>4, <2>6
  <2>7. CASE f = "radius"
    BY ONLY <1>2, <1>4, <2>7
  <2>8. CASE f = "asduLen"
    BY ONLY <1>2, <1>4, <2>8
  <2>9. QED
    BY ONLY <1>1, <2>1, <2>2, <2>3, <2>4, <2>5, <2>6, <2>7, <2>8, f \in DOMAIN KrAf
<1>6. Sized(m.asdu, m.asduLen)
  BY ONLY AfFits(m, n) DEF AfFits
<1>7. QED
  BY ONLY <1>5, <1>6 DEF Sendable

(* The data of the command.                                                  *)
AfData(m) ==
    ToBytes(m.dstAddr, 2) \o <<m.dstEndpoint, m.srcEndpoint>> \o ToBytes(m.clusterId, 2)
      \o <<m.tranSeqNum, m.options, m.radius, m.asduLen>> \o m.asdu

(* They carry all of it.                                                     *)
LEMMA AfCarries ==
  ASSUME NEW m, NEW n, AfFits(m, n)
  PROVE  Carrying(KrAf, KrAfAsdu, AfData(m), m) /\ Len(AfData(m)) = 10 + n
<1>1. n \in Nat /\ m.asduLen = n /\ Sized(m.asdu, n)
  BY DEF AfFits
<1> DEFINE p1 == ToBytes(m.dstAddr, 2)
           p2 == <<m.dstEndpoint, m.srcEndpoint>>
           p3 == ToBytes(m.clusterId, 2)
           p4 == <<m.tranSeqNum, m.options, m.radius, m.asduLen>>
           p5 == m.asdu
           u1 == p1
           u2 == u1 \o p2
           u3 == u2 \o p3
           u4 == u3 \o p4
           u5 == u4 \o p5
<1>2. AfData(m) = u5
  BY ONLY Zenon DEF AfData
<1>3. /\ m.dstAddr \in Nat /\ m.dstEndpoint \in Octet /\ m.srcEndpoint \in Octet
      /\ m.clusterId \in Nat /\ m.tranSeqNum \in Octet /\ m.options \in Octet
      /\ m.radius \in Octet /\ m.asduLen \in Octet
  BY AfFits(m, n) DEF AfFits, Word
<1>4. Sized(p1, 2)
  <2>1. PICK x \in Nat, k \in Nat : x = m.dstAddr /\ k = 2
    BY ONLY <1>3
  <2>2. ToBytes(x, k) \in Seq(Octet) /\ Len(ToBytes(x, k)) = k
    BY ONLY BytesOf, x \in Nat, k \in Nat
  <2>3. QED
    BY ONLY <2>1, <2>2 DEF Sized
<1>5. Sized(p2, 2)
  <2>1. p2 \in Seq(Octet) /\ Len(p2) = 2
    BY ONLY <1>3
  <2>2. QED
    BY ONLY <2>1, 2 \in Nat DEF Sized
<1>6. Sized(p3, 2)
  <2>1. PICK x \in Nat, k \in Nat : x = m.clusterId /\ k = 2
    BY ONLY <1>3
  <2>2. ToBytes(x, k) \in Seq(Octet) /\ Len(ToBytes(x, k)) = k
    BY ONLY BytesOf, x \in Nat, k \in Nat
  <2>3. QED
    BY ONLY <2>1, <2>2 DEF Sized
<1>7. Sized(p4, 4)
  <2>1. p4 \in Seq(Octet) /\ Len(p4) = 4
    BY ONLY <1>3
  <2>2. QED
    BY ONLY <2>1, 4 \in Nat DEF Sized
<1>8. Sized(p5, n)
  BY ONLY <1>1
<1>9. /\ Cat(u2, u1, p2) /\ Cat(u3, u2, p3) /\ Cat(u4, u3, p4) /\ Cat(u5, u4, p5)
  BY ONLY DEF Cat
<1> HIDE DEF p1, p2, p3, p4, p5, u2, u3, u4, u5
<1>10. Parted(u2, u1, p2, 2, 2) /\ Sized(u2, 4)
  <2>1. Parted(u2, u1, p2, 2, 2)
    BY ONLY <1>9, <1>4, <1>5, CatType
  <2>2. Sized(u2, 4)
    BY ONLY <1>1, <2>1 DEF Parted, Sized
  <2>3. QED
    BY ONLY <2>1, <2>2
<1>11. Parted(u3, u2, p3, 4, 2) /\ Sized(u3, 6)
  <2>1. Parted(u3, u2, p3, 4, 2)
    BY ONLY <1>9, <1>10, <1>6, CatType
  <2>2. Sized(u3, 6)
    BY ONLY <1>1, <2>1 DEF Parted, Sized
  <2>3. QED
    BY ONLY <2>1, <2>2
<1>12. Parted(u4, u3, p4, 6, 4) /\ Sized(u4, 10)
  <2>1. Parted(u4, u3, p4, 6, 4)
    BY ONLY <1>9, <1>11, <1>7, CatType
  <2>2. Sized(u4, 10)
    BY ONLY <1>1, <2>1 DEF Parted, Sized
  <2>3. QED
    BY ONLY <2>1, <2>2
<1>13. Parted(u5, u4, p5, 10, n) /\ Sized(u5, 10 + n)
  <2>1. Parted(u5, u4, p5, 10, n)
    BY ONLY <1>9, <1>12, <1>8, CatType
  <2>2. Sized(u5, 10 + n)
    BY ONLY <1>1, <2>1 DEF Parted, Sized
  <2>3. QED
    BY ONLY <2>1, <2>2
<1>14. PICK b : b = u5
  OBVIOUS
<1>15. b \in Seq(Octet) /\ Len(b) = 10 + n /\ Has(b, 0, u5)
  <2>1. b \in Seq(Octet) /\ Len(b) = 10 + n
    BY ONLY <1>14, <1>13 DEF Sized
  <2>2. QED
    BY ONLY <1>14, <2>1, HasSelf
<1>16. Has(b, 0, u4) /\ Has(b, 10, p5)
  <2>1. Has(b, 0, u4) /\ Has(b, 0 + (10), p5)
    BY ONLY <1>15, <1>15, <1>13, 0 \in Nat DEF Parted
  <2>2. 0 + (10) = 10
    BY ONLY <1>1
  <2>3. QED
    BY ONLY <2>1, <2>2
<1>17. Has(b, 0, u3) /\ Has(b, 6, p4)
  <2>1. Has(b, 0, u3) /\ Has(b, 0 + (6), p4)
    BY ONLY <1>15, <1>16, <1>12, 0 \in Nat DEF Parted
  <2>2. 0 + (6) = 6
    BY ONLY <1>1
  <2>3. QED
    BY ONLY <2>1, <2>2
<1>18. Has(b, 0, u2) /\ Has(b, 4, p3)
  <2>1. Has(b, 0, u2) /\ Has(b, 0 + (4), p3)
    BY ONLY <1>15, <1>17, <1>11, 0 \in Nat DEF Parted
  <2>2. 0 + (4) = 4
    BY ONLY <1>1
  <2>3. QED
    BY ONLY <2>1, <2>2
<1>19. Has(b, 0, u1) /\ Has(b, 2, p2)
  <2>1. Has(b, 0, u1) /\ Has(b, 0 + (2), p2)
    BY ONLY <1>15, <1>18, <1>10, 0 \in Nat DEF Parted
  <2>2. 0 + (2) = 2
    BY ONLY <1>1
  <2>3. QED
    BY ONLY <2>1, <2>2
<1>20. Has(b, 0, ToBytes(m.dstAddr, 2))
  BY ONLY <1>19 DEF p1, u1
<1>21. /\ Has(b, 2, ToBytes(m.dstEndpoint, 1)) /\ Has(b, 3, ToBytes(m.srcEndpoint, 1))
  <2>1. ASSUME NEW i \in Nat, 1 <= i, i <= 2  PROVE Has(b, 2 + i - 1, ToBytes(p2[i], 1))
    BY ONLY <1>15, <1>19, <1>5, <2>1, BytesIn, 2 \in Nat, i \in Nat
  <2>2. p2[1] = m.dstEndpoint /\ p2[2] = m.srcEndpoint
    BY ONLY DEF p2
  <2>3. /\ 1 \in Nat /\ 1 <= 1 /\ 1 <= 2 /\ 2 + 1 - 1 = 2
        /\ 2 \in Nat /\ 1 <= 2 /\ 2 <= 2 /\ 2 + 2 - 1 = 3
    OBVIOUS
  <2>4. QED
    BY ONLY <2>1, <2>2, <2>3
<1>22. Has(b, 4, ToBytes(m.clusterId, 2))
  BY ONLY <1>18 DEF p3
<1>23. /\ Has(b, 6, ToBytes(m.tranSeqNum, 1)) /\ Has(b, 7, ToBytes(m.options, 1))
       /\ Has(b, 8, ToBytes(m.radius, 1)) /\ Has(b, 9, ToBytes(m.asduLen, 1))
  <2>1. ASSUME NEW i \in Nat, 1 <= i, i <= 4  PROVE Has(b, 6 + i - 1, ToBytes(p4[i], 1))
    BY ONLY <1>15, <1>17, <1>7, <2>1, BytesIn, 6 \in Nat, i \in Nat
  <2>2. p4[1] = m.tranSeqNum /\ p4[2] = m.options /\ p4[3] = m.radius /\ p4[4] = m.asduLen
    BY ONLY DEF p4
  <2>3. /\ 1 \in Nat /\ 1 <= 1 /\ 1 <= 4 /\ 6 + 1 - 1 = 6
        /\ 2 \in Nat /\ 1 <= 2 /\ 2 <= 4 /\ 6 + 2 - 1 = 7
        /\ 3 \in Nat /\ 1 <= 3 /\ 3 <= 4 /\ 6 + 3 - 1 = 8
        /\ 4 \in Nat /\ 1 <= 4 /\ 4 <= 4 /\ 6 + 4 - 1 = 9
    OBVIOUS
  <2>4. QED
    BY ONLY <2>1, <2>2, <2>3
<1>24. Has(b, 10, m.asdu)
  BY ONLY <1>16 DEF p5
<1>25. ASSUME NEW f \in DOMAIN KrAf  PROVE Has(b, KrAf[f][1], ToBytes(m[f], KrAf[f][2]))
  <2>1. f \in {"dstAddr", "dstEndpoint", "srcEndpoint", "clusterId", "tranSeqNum",
               "options", "radius", "asduLen"}
    BY ONLY f \in DOMAIN KrAf DEF KrAf
  <2>2. CASE f = "dstAddr"
    <3>1. KrAf[f][1] = 0 /\ KrAf[f][2] = 2
      BY ONLY <2>2 DEF KrAf
    <3>2. QED
      BY ONLY <1>20, <2>2, <3>1
  <2>3. CASE f = "dstEndpoint"
    <3>1. KrAf[f][1] = 2 /\ KrAf[f][2] = 1
      BY ONLY <2>3 DEF KrAf
    <3>2. QED
      BY ONLY <1>21, <2>3, <3>1
  <2>4. CASE f = "srcEndpoint"
    <3>1. KrAf[f][1] = 3 /\ KrAf[f][2] = 1
      BY ONLY <2>4 DEF KrAf
    <3>2. QED
      BY ONLY <1>21, <2>4, <3>1
  <2>5. CASE f = "clusterId"
    <3>1. KrAf[f][1] = 4 /\ KrAf[f][2] = 2
      BY ONLY <2>5 DEF KrAf
    <3>2. QED
      BY ONLY <1>22, <2>5, <3>1
  <2>6. CASE f = "tranSeqNum"
    <3>1. KrAf[f][1] = 6 /\ KrAf[f][2] = 1
      BY ONLY <2>6 DEF KrAf
    <3>2. QED
      BY ONLY <1>23, <2>6, <3>1
  <2>7. CASE f = "options"
    <3>1. KrAf[f][1] = 7 /\ KrAf[f][2] = 1
      BY ONLY <2>7 DEF KrAf
    <3>2. QED
      BY ONLY <1>23, <2>7, <3>1
  <2>8. CASE f = "radius"
    <3>1. KrAf[f][1] = 8 /\ KrAf[f][2] = 1
      BY ONLY <2>8 DEF KrAf
    <3>2. QED
      BY ONLY <1>23, <2>8, <3>1
  <2>9. CASE f = "asduLen"
    <3>1. KrAf[f][1] = 9 /\ KrAf[f][2] = 1
      BY ONLY <2>9 DEF KrAf
    <3>2. QED
      BY ONLY <1>23, <2>9, <3>1
  <2>10. QED
    BY ONLY <2>1, <2>2, <2>3, <2>4, <2>5, <2>6, <2>7, <2>8, <2>9
<1>26. Carrying(KrAf, KrAfAsdu, b, m)
  BY ONLY <1>15, <1>24, <1>25 DEF Carrying, KrAfAsdu
<1>27. QED
  BY ONLY <1>2, <1>14, <1>15, <1>26

(* MT_AfDataRequest(): of a message object made by its setters every field   *)
(* arrives, in a frame whose length and check are right, for every asdu the  *)
(* count of the check has room for.                                          *)
LEMMA AfHeard ==
  ASSUME NEW m, NEW n, AfFits(m, n), n <= 242
  PROVE  \E b : /\ Sent(MT_AfDataRequest(Object(KrAf, KrAfAsdu, m, APDUSetters)))
                      = [type |-> 36, id |-> 1, data |-> b]
                /\ Carries(KrAf, KrAfAsdu, b, m)
<1>1. /\ Apart(KrAf, KrAfAsdu) /\ KrAfAsdu \in Nat /\ Sendable(KrAf, m)
  BY ONLY AfLayout, AfSendable, AfFits(m, n)
<1>2. PICK o : o = Object(KrAf, KrAfAsdu, m, APDUSetters)
  OBVIOUS
<1>3. Carries(KrAf, KrAfAsdu, o, m)
  <2>1. PICK k \in Nat : k = 8
    OBVIOUS
  <2>2. /\ APDUSetters \in [1 .. k -> DOMAIN KrAf]
        /\ \A f \in DOMAIN KrAf : \E j \in 1 .. k : APDUSetters[j] = f
        /\ \A i, j \in 1 .. k : APDUSetters[i] = APDUSetters[j] => i = j
    BY ONLY <2>1, AfLayout
  <2>3. Carries(KrAf, KrAfAsdu, Object(KrAf, KrAfAsdu, m, APDUSetters), m)
    BY ONLY <1>1, <2>2, ObjectCarries, k \in Nat
  <2>4. QED
    BY ONLY <1>2, <2>3
<1>4. /\ Getter(KrAf, o, "dstAddr") = m.dstAddr /\ Getter(KrAf, o, "dstEndpoint") = m.dstEndpoint
      /\ Getter(KrAf, o, "srcEndpoint") = m.srcEndpoint /\ Getter(KrAf, o, "clusterId") = m.clusterId
      /\ Getter(KrAf, o, "tranSeqNum") = m.tranSeqNum /\ Getter(KrAf, o, "options") = m.options
      /\ Getter(KrAf, o, "radius") = m.radius /\ Getter(KrAf, o, "asduLen") = m.asduLen
  <2>1. \A f \in DOMAIN KrAf : Getter(KrAf, o, f) = m[f]
    BY ONLY <1>3 DEF Carries
  <2>2. /\ "dstAddr" \in DOMAIN KrAf /\ "dstEndpoint" \in DOMAIN KrAf /\ "srcEndpoint" \in DOMAIN KrAf
        /\ "clusterId" \in DOMAIN KrAf /\ "tranSeqNum" \in DOMAIN KrAf /\ "options" \in DOMAIN KrAf
        /\ "radius" \in DOMAIN KrAf /\ "asduLen" \in DOMAIN KrAf
    BY ONLY DEF KrAf
  <2>3. QED
    BY ONLY <2>1, <2>2
<1>5. SubSeq(o, KrAfAsdu + 1, KrAfAsdu + m.asduLen) = m.asdu
  BY ONLY <1>3 DEF Carries
<1>6. MT_AfDataRequest(o) = Command(36, 1, AfData(m))
  BY ONLY <1>4, <1>5, Zenon DEF MT_AfDataRequest, AfData
<1>7. PICK b : b = AfData(m)
  OBVIOUS
<1>8. Carrying(KrAf, KrAfAsdu, b, m) /\ Len(b) = 10 + n
  BY ONLY <1>7, AfCarries, AfFits(m, n)
<1>9. Carries(KrAf, KrAfAsdu, b, m)
  BY ONLY <1>1, <1>8, CarriesRead
<1>10. b \in Seq(Octet) /\ Len(b) <= 252
  <2>1. n \in Nat
    BY ONLY AfFits(m, n) DEF AfFits
  <2>2. QED
    BY ONLY <1>8, <2>1, n <= 242 DEF Carrying
<1>11. Sent(Command(36, 1, b)) = [type |-> 36, id |-> 1, data |-> b]
  <2>1. 36 \in Octet /\ 1 \in Octet
    BY ONLY DEF Octet
  <2>2. QED
    BY ONLY <1>10, <2>1, SentKept
<1>12. QED
  BY ONLY <1>2, <1>6, <1>7, <1>9, <1>11

(* What the fields of an extended one have room for.                         *)
ExtFits(m, n) ==
  /\ m.addrMode \in Octet /\ m.dstAddr \in Nat /\ Fitting(m.dstAddr, 8) /\ m.dstEndpoint \in Octet
  /\ m.dstPanId \in Word /\ m.srcEndpoint \in Octet /\ m.clusterId \in Word
  /\ m.tranSeqNum \in Octet /\ m.options \in Octet /\ m.radius \in Octet
  /\ m.asduLen \in Word
  /\ n \in Nat /\ m.asduLen = n /\ Sized(m.asdu, n)

(* They fit.                                                                 *)
LEMMA ExtSendable ==
  ASSUME NEW m, NEW n, ExtFits(m, n)
  PROVE  Sendable(KrAfExt, m)
<1>1. DOMAIN KrAfExt = {"addrMode", "dstAddr", "dstEndpoint", "dstPanId", "srcEndpoint",
                  "clusterId", "tranSeqNum", "options", "radius", "asduLen"}
  BY ONLY DEF KrAfExt
<1>2. /\ KrAfExt["addrMode"] = <<0, 1>> /\ KrAfExt["dstAddr"] = <<1, 8>> /\ KrAfExt["dstEndpoint"] = <<9, 1>>
      /\ KrAfExt["dstPanId"] = <<10, 2>> /\ KrAfExt["srcEndpoint"] = <<12, 1>> /\ KrAfExt["clusterId"] = <<13, 2>>
      /\ KrAfExt["tranSeqNum"] = <<15, 1>> /\ KrAfExt["options"] = <<16, 1>> /\ KrAfExt["radius"] = <<17, 1>>
      /\ KrAfExt["asduLen"] = <<18, 2>>
  BY ONLY DEF KrAfExt
<1>3. 1 \in Nat /\ 1 >= 1 /\ 2 \in Nat /\ 2 >= 2
  OBVIOUS
<1>4. /\ m.addrMode \in Nat /\ Fitting(m.addrMode, 1) /\ m.dstAddr \in Nat /\ Fitting(m.dstAddr, 8)
      /\ m.dstEndpoint \in Nat /\ Fitting(m.dstEndpoint, 1) /\ m.dstPanId \in Nat /\ Fitting(m.dstPanId, 2)
      /\ m.srcEndpoint \in Nat /\ Fitting(m.srcEndpoint, 1) /\ m.clusterId \in Nat /\ Fitting(m.clusterId, 2)
      /\ m.tranSeqNum \in Nat /\ Fitting(m.tranSeqNum, 1) /\ m.options \in Nat /\ Fitting(m.options, 1)
      /\ m.radius \in Nat /\ Fitting(m.radius, 1) /\ m.asduLen \in Nat /\ Fitting(m.asduLen, 2)
  BY ONLY <1>3, NumbersFit, ExtFits(m, n) DEF ExtFits
<1>5. ASSUME NEW f \in DOMAIN KrAfExt  PROVE m[f] \in Nat /\ Fitting(m[f], KrAfExt[f][2])
  <2>1. CASE f = "addrMode"
    BY ONLY <1>2, <1>4, <2>1
  <2>2. CASE f = "dstAddr"
    BY ONLY <1>2, <1>4, <2>2
  <2>3. CASE f = "dstEndpoint"
    BY ONLY <1>2, <1>4, <2>3
  <2>4. CASE f = "dstPanId"
    BY ONLY <1>2, <1>4, <2>4
  <2>5. CASE f = "srcEndpoint"
    BY ONLY <1>2, <1>4, <2>5
  <2>6. CASE f = "clusterId"
    BY ONLY <1>2, <1>4, <2>6
  <2>7. CASE f = "tranSeqNum"
    BY ONLY <1>2, <1>4, <2>7
  <2>8. CASE f = "options"
    BY ONLY <1>2, <1>4, <2>8
  <2>9. CASE f = "radius"
    BY ONLY <1>2, <1>4, <2>9
  <2>10. CASE f = "asduLen"
    BY ONLY <1>2, <1>4, <2>10
  <2>11. QED
    BY ONLY <1>1, <2>1, <2>2, <2>3, <2>4, <2>5, <2>6, <2>7, <2>8, <2>9, <2>10, f \in DOMAIN KrAfExt
<1>6. Sized(m.asdu, m.asduLen)
  BY ONLY ExtFits(m, n) DEF ExtFits
<1>7. QED
  BY ONLY <1>5, <1>6 DEF Sendable

(* The data of the command.                                                  *)
ExtData(m) ==
    <<m.addrMode>> \o ToBytes(m.dstAddr, 8) \o <<m.dstEndpoint>>
      \o ToBytes(m.dstPanId, 2) \o <<m.srcEndpoint>> \o ToBytes(m.clusterId, 2)
      \o <<m.tranSeqNum, m.options, m.radius>> \o ToBytes(m.asduLen, 2) \o m.asdu
      \o <<Junk>>

(* They carry all of it.                                                     *)
LEMMA ExtCarries ==
  ASSUME NEW m, NEW n, ExtFits(m, n)
  PROVE  Carrying(KrAfExt, KrAfExtAsdu, ExtData(m), m) /\ Len(ExtData(m)) = 20 + n + 1
<1>1. n \in Nat /\ m.asduLen = n /\ Sized(m.asdu, n)
  BY DEF ExtFits
<1> DEFINE p1 == <<m.addrMode>>
           p2 == ToBytes(m.dstAddr, 8)
           p3 == <<m.dstEndpoint>>
           p4 == ToBytes(m.dstPanId, 2)
           p5 == <<m.srcEndpoint>>
           p6 == ToBytes(m.clusterId, 2)
           p7 == <<m.tranSeqNum, m.options, m.radius>>
           p8 == ToBytes(m.asduLen, 2)
           p9 == m.asdu
           p10 == <<Junk>>
           u1 == p1
           u2 == u1 \o p2
           u3 == u2 \o p3
           u4 == u3 \o p4
           u5 == u4 \o p5
           u6 == u5 \o p6
           u7 == u6 \o p7
           u8 == u7 \o p8
           u9 == u8 \o p9
           u10 == u9 \o p10
<1>2. ExtData(m) = u10
  BY ONLY Zenon DEF ExtData
<1>3. /\ m.addrMode \in Octet /\ m.dstAddr \in Nat /\ m.dstEndpoint \in Octet
      /\ m.dstPanId \in Nat /\ m.srcEndpoint \in Octet /\ m.clusterId \in Nat
      /\ m.tranSeqNum \in Octet /\ m.options \in Octet /\ m.radius \in Octet
      /\ m.asduLen \in Nat
  BY ExtFits(m, n) DEF ExtFits, Word
<1>4. Junk \in Octet
  BY CodecAssumption
<1>5. Sized(p1, 1)
  <2>1. p1 \in Seq(Octet) /\ Len(p1) = 1
    BY ONLY <1>3
  <2>2. QED
    BY ONLY <2>1, 1 \in Nat DEF Sized
<1>6. Sized(p2, 8)
  <2>1. PICK x \in Nat, k \in Nat : x = m.dstAddr /\ k = 8
    BY ONLY <1>3
  <2>2. ToBytes(x, k) \in Seq(Octet) /\ Len(ToBytes(x, k)) = k
    BY ONLY BytesOf, x \in Nat, k \in Nat
  <2>3. QED
    BY ONLY <2>1, <2>2 DEF Sized
<1>7. Sized(p3, 1)
  <2>1. p3 \in Seq(Octet) /\ Len(p3) = 1
    BY ONLY <1>3
  <2>2. QED
    BY ONLY <2>1, 1 \in Nat DEF Sized
<1>8. Sized(p4, 2)
  <2>1. PICK x \in Nat, k \in Nat : x = m.dstPanId /\ k = 2
    BY ONLY <1>3
  <2>2. ToBytes(x, k) \in Seq(Octet) /\ Len(ToBytes(x, k)) = k
    BY ONLY BytesOf, x \in Nat, k \in Nat
  <2>3. QED
    BY ONLY <2>1, <2>2 DEF Sized
<1>9. Sized(p5, 1)
  <2>1. p5 \in Seq(Octet) /\ Len(p5) = 1
    BY ONLY <1>3
  <2>2. QED
    BY ONLY <2>1, 1 \in Nat DEF Sized
<1>10. Sized(p6, 2)
  <2>1. PICK x \in Nat, k \in Nat : x = m.clusterId /\ k = 2
    BY ONLY <1>3
  <2>2. ToBytes(x, k) \in Seq(Octet) /\ Len(ToBytes(x, k)) = k
    BY ONLY BytesOf, x \in Nat, k \in Nat
  <2>3. QED
    BY ONLY <2>1, <2>2 DEF Sized
<1>11. Sized(p7, 3)
  <2>1. p7 \in Seq(Octet) /\ Len(p7) = 3
    BY ONLY <1>3
  <2>2. QED
    BY ONLY <2>1, 3 \in Nat DEF Sized
<1>12. Sized(p8, 2)
  <2>1. PICK x \in Nat, k \in Nat : x = m.asduLen /\ k = 2
    BY ONLY <1>3
  <2>2. ToBytes(x, k) \in Seq(Octet) /\ Len(ToBytes(x, k)) = k
    BY ONLY BytesOf, x \in Nat, k \in Nat
  <2>3. QED
    BY ONLY <2>1, <2>2 DEF Sized
<1>13. Sized(p9, n)
  BY ONLY <1>1
<1>14. Sized(p10, 1)
  <2>1. p10 \in Seq(Octet) /\ Len(p10) = 1
    BY ONLY <1>4
  <2>2. QED
    BY ONLY <2>1, 1 \in Nat DEF Sized
<1>15. /\ Cat(u2, u1, p2) /\ Cat(u3, u2, p3) /\ Cat(u4, u3, p4) /\ Cat(u5, u4, p5)
       /\ Cat(u6, u5, p6) /\ Cat(u7, u6, p7) /\ Cat(u8, u7, p8) /\ Cat(u9, u8, p9)
       /\ Cat(u10, u9, p10)
  BY ONLY DEF Cat
<1> HIDE DEF p1, p2, p3, p4, p5, p6, p7, p8, p9, p10, u2, u3, u4, u5, u6, u7, u8, u9, u10
<1>16. Parted(u2, u1, p2, 1, 8) /\ Sized(u2, 9)
  <2>1. Parted(u2, u1, p2, 1, 8)
    BY ONLY <1>15, <1>5, <1>6, CatType
  <2>2. Sized(u2, 9)
    BY ONLY <1>1, <2>1 DEF Parted, Sized
  <2>3. QED
    BY ONLY <2>1, <2>2
<1>17. Parted(u3, u2, p3, 9, 1) /\ Sized(u3, 10)
  <2>1. Parted(u3, u2, p3, 9, 1)
    BY ONLY <1>15, <1>16, <1>7, CatType
  <2>2. Sized(u3, 10)
    BY ONLY <1>1, <2>1 DEF Parted, Sized
  <2>3. QED
    BY ONLY <2>1, <2>2
<1>18. Parted(u4, u3, p4, 10, 2) /\ Sized(u4, 12)
  <2>1. Parted(u4, u3, p4, 10, 2)
    BY ONLY <1>15, <1>17, <1>8, CatType
  <2>2. Sized(u4, 12)
    BY ONLY <1>1, <2>1 DEF Parted, Sized
  <2>3. QED
    BY ONLY <2>1, <2>2
<1>19. Parted(u5, u4, p5, 12, 1) /\ Sized(u5, 13)
  <2>1. Parted(u5, u4, p5, 12, 1)
    BY ONLY <1>15, <1>18, <1>9, CatType
  <2>2. Sized(u5, 13)
    BY ONLY <1>1, <2>1 DEF Parted, Sized
  <2>3. QED
    BY ONLY <2>1, <2>2
<1>20. Parted(u6, u5, p6, 13, 2) /\ Sized(u6, 15)
  <2>1. Parted(u6, u5, p6, 13, 2)
    BY ONLY <1>15, <1>19, <1>10, CatType
  <2>2. Sized(u6, 15)
    BY ONLY <1>1, <2>1 DEF Parted, Sized
  <2>3. QED
    BY ONLY <2>1, <2>2
<1>21. Parted(u7, u6, p7, 15, 3) /\ Sized(u7, 18)
  <2>1. Parted(u7, u6, p7, 15, 3)
    BY ONLY <1>15, <1>20, <1>11, CatType
  <2>2. Sized(u7, 18)
    BY ONLY <1>1, <2>1 DEF Parted, Sized
  <2>3. QED
    BY ONLY <2>1, <2>2
<1>22. Parted(u8, u7, p8, 18, 2) /\ Sized(u8, 20)
  <2>1. Parted(u8, u7, p8, 18, 2)
    BY ONLY <1>15, <1>21, <1>12, CatType
  <2>2. Sized(u8, 20)
    BY ONLY <1>1, <2>1 DEF Parted, Sized
  <2>3. QED
    BY ONLY <2>1, <2>2
<1>23. Parted(u9, u8, p9, 20, n) /\ Sized(u9, 20 + n)
  <2>1. Parted(u9, u8, p9, 20, n)
    BY ONLY <1>15, <1>22, <1>13, CatType
  <2>2. Sized(u9, 20 + n)
    BY ONLY <1>1, <2>1 DEF Parted, Sized
  <2>3. QED
    BY ONLY <2>1, <2>2
<1>24. Parted(u10, u9, p10, 20 + n, 1) /\ Sized(u10, 20 + n + 1)
  <2>1. Parted(u10, u9, p10, 20 + n, 1)
    BY ONLY <1>15, <1>23, <1>14, CatType
  <2>2. Sized(u10, 20 + n + 1)
    BY ONLY <1>1, <2>1 DEF Parted, Sized
  <2>3. QED
    BY ONLY <2>1, <2>2
<1>25. PICK b : b = u10
  OBVIOUS
<1>26. b \in Seq(Octet) /\ Len(b) = 20 + n + 1 /\ Has(b, 0, u10)
  <2>1. b \in Seq(Octet) /\ Len(b) = 20 + n + 1
    BY ONLY <1>25, <1>24 DEF Sized
  <2>2. QED
    BY ONLY <1>25, <2>1, HasSelf
<1>27. Has(b, 0, u9) /\ Has(b, 20 + n, p10)
  <2>1. Has(b, 0, u9) /\ Has(b, 0 + (20 + n), p10)
    BY ONLY <1>26, <1>26, <1>24, 0 \in Nat DEF Parted
  <2>2. 0 + (20 + n) = 20 + n
    BY ONLY <1>1
  <2>3. QED
    BY ONLY <2>1, <2>2
<1>28. Has(b, 0, u8) /\ Has(b, 20, p9)
  <2>1. Has(b, 0, u8) /\ Has(b, 0 + (20), p9)
    BY ONLY <1>26, <1>27, <1>23, 0 \in Nat DEF Parted
  <2>2. 0 + (20) = 20
    BY ONLY <1>1
  <2>3. QED
    BY ONLY <2>1, <2>2
<1>29. Has(b, 0, u7) /\ Has(b, 18, p8)
  <2>1. Has(b, 0, u7) /\ Has(b, 0 + (18), p8)
    BY ONLY <1>26, <1>28, <1>22, 0 \in Nat DEF Parted
  <2>2. 0 + (18) = 18
    BY ONLY <1>1
  <2>3. QED
    BY ONLY <2>1, <2>2
<1>30. Has(b, 0, u6) /\ Has(b, 15, p7)
  <2>1. Has(b, 0, u6) /\ Has(b, 0 + (15), p7)
    BY ONLY <1>26, <1>29, <1>21, 0 \in Nat DEF Parted
  <2>2. 0 + (15) = 15
    BY ONLY <1>1
  <2>3. QED
    BY ONLY <2>1, <2>2
<1>31. Has(b, 0, u5) /\ Has(b, 13, p6)
  <2>1. Has(b, 0, u5) /\ Has(b, 0 + (13), p6)
    BY ONLY <1>26, <1>30, <1>20, 0 \in Nat DEF Parted
  <2>2. 0 + (13) = 13
    BY ONLY <1>1
  <2>3. QED
    BY ONLY <2>1, <2>2
<1>32. Has(b, 0, u4) /\ Has(b, 12, p5)
  <2>1. Has(b, 0, u4) /\ Has(b, 0 + (12), p5)
    BY ONLY <1>26, <1>31, <1>19, 0 \in Nat DEF Parted
  <2>2. 0 + (12) = 12
    BY ONLY <1>1
  <2>3. QED
    BY ONLY <2>1, <2>2
<1>33. Has(b, 0, u3) /\ Has(b, 10, p4)
  <2>1. Has(b, 0, u3) /\ Has(b, 0 + (10), p4)
    BY ONLY <1>26, <1>32, <1>18, 0 \in Nat DEF Parted
  <2>2. 0 + (10) = 10
    BY ONLY <1>1
  <2>3. QED
    BY ONLY <2>1, <2>2
<1>34. Has(b, 0, u2) /\ Has(b, 9, p3)
  <2>1. Has(b, 0, u2) /\ Has(b, 0 + (9), p3)
    BY ONLY <1>26, <1>33, <1>17, 0 \in Nat DEF Parted
  <2>2. 0 + (9) = 9
    BY ONLY <1>1
  <2>3. QED
    BY ONLY <2>1, <2>2
<1>35. Has(b, 0, u1) /\ Has(b, 1, p2)
  <2>1. Has(b, 0, u1) /\ Has(b, 0 + (1), p2)
    BY ONLY <1>26, <1>34, <1>16, 0 \in Nat DEF Parted
  <2>2. 0 + (1) = 1
    BY ONLY <1>1
  <2>3. QED
    BY ONLY <2>1, <2>2
<1>36. /\ Has(b, 0, ToBytes(m.addrMode, 1))
  <2>1. ASSUME NEW i \in Nat, 1 <= i, i <= 1  PROVE Has(b, 0 + i - 1, ToBytes(p1[i], 1))
    BY ONLY <1>26, <1>35, <1>5, <2>1, BytesIn, 0 \in Nat, i \in Nat DEF u1
  <2>2. p1[1] = m.addrMode
    BY ONLY DEF p1
  <2>3. /\ 1 \in Nat /\ 1 <= 1 /\ 1 <= 1 /\ 0 + 1 - 1 = 0
    OBVIOUS
  <2>4. QED
    BY ONLY <2>1, <2>2, <2>3
<1>37. Has(b, 1, ToBytes(m.dstAddr, 8))
  BY ONLY <1>35 DEF p2
<1>38. /\ Has(b, 9, ToBytes(m.dstEndpoint, 1))
  <2>1. ASSUME NEW i \in Nat, 1 <= i, i <= 1  PROVE Has(b, 9 + i - 1, ToBytes(p3[i], 1))
    BY ONLY <1>26, <1>34, <1>7, <2>1, BytesIn, 9 \in Nat, i \in Nat
  <2>2. p3[1] = m.dstEndpoint
    BY ONLY DEF p3
  <2>3. /\ 1 \in Nat /\ 1 <= 1 /\ 1 <= 1 /\ 9 + 1 - 1 = 9
    OBVIOUS
  <2>4. QED
    BY ONLY <2>1, <2>2, <2>3
<1>39. Has(b, 10, ToBytes(m.dstPanId, 2))
  BY ONLY <1>33 DEF p4
<1>40. /\ Has(b, 12, ToBytes(m.srcEndpoint, 1))
  <2>1. ASSUME NEW i \in Nat, 1 <= i, i <= 1  PROVE Has(b, 12 + i - 1, ToBytes(p5[i], 1))
    BY ONLY <1>26, <1>32, <1>9, <2>1, BytesIn, 12 \in Nat, i \in Nat
  <2>2. p5[1] = m.srcEndpoint
    BY ONLY DEF p5
  <2>3. /\ 1 \in Nat /\ 1 <= 1 /\ 1 <= 1 /\ 12 + 1 - 1 = 12
    OBVIOUS
  <2>4. QED
    BY ONLY <2>1, <2>2, <2>3
<1>41. Has(b, 13, ToBytes(m.clusterId, 2))
  BY ONLY <1>31 DEF p6
<1>42. /\ Has(b, 15, ToBytes(m.tranSeqNum, 1)) /\ Has(b, 16, ToBytes(m.options, 1))
       /\ Has(b, 17, ToBytes(m.radius, 1))
  <2>1. ASSUME NEW i \in Nat, 1 <= i, i <= 3  PROVE Has(b, 15 + i - 1, ToBytes(p7[i], 1))
    BY ONLY <1>26, <1>30, <1>11, <2>1, BytesIn, 15 \in Nat, i \in Nat
  <2>2. p7[1] = m.tranSeqNum /\ p7[2] = m.options /\ p7[3] = m.radius
    BY ONLY DEF p7
  <2>3. /\ 1 \in Nat /\ 1 <= 1 /\ 1 <= 3 /\ 15 + 1 - 1 = 15
        /\ 2 \in Nat /\ 1 <= 2 /\ 2 <= 3 /\ 15 + 2 - 1 = 16
        /\ 3 \in Nat /\ 1 <= 3 /\ 3 <= 3 /\ 15 + 3 - 1 = 17
    OBVIOUS
  <2>4. QED
    BY ONLY <2>1, <2>2, <2>3
<1>43. Has(b, 18, ToBytes(m.asduLen, 2))
  BY ONLY <1>29 DEF p8
<1>44. Has(b, 20, m.asdu)
  BY ONLY <1>28 DEF p9
<1>45. ASSUME NEW f \in DOMAIN KrAfExt  PROVE Has(b, KrAfExt[f][1], ToBytes(m[f], KrAfExt[f][2]))
  <2>1. f \in {"addrMode", "dstAddr", "dstEndpoint", "dstPanId", "srcEndpoint",
               "clusterId", "tranSeqNum", "options", "radius", "asduLen"}
    BY ONLY f \in DOMAIN KrAfExt DEF KrAfExt
  <2>2. CASE f = "addrMode"
    <3>1. KrAfExt[f][1] = 0 /\ KrAfExt[f][2] = 1
      BY ONLY <2>2 DEF KrAfExt
    <3>2. QED
      BY ONLY <1>36, <2>2, <3>1
  <2>3. CASE f = "dstAddr"
    <3>1. KrAfExt[f][1] = 1 /\ KrAfExt[f][2] = 8
      BY ONLY <2>3 DEF KrAfExt
    <3>2. QED
      BY ONLY <1>37, <2>3, <3>1
  <2>4. CASE f = "dstEndpoint"
    <3>1. KrAfExt[f][1] = 9 /\ KrAfExt[f][2] = 1
      BY ONLY <2>4 DEF KrAfExt
    <3>2. QED
      BY ONLY <1>38, <2>4, <3>1
  <2>5. CASE f = "dstPanId"
    <3>1. KrAfExt[f][1] = 10 /\ KrAfExt[f][2] = 2
      BY ONLY <2>5 DEF KrAfExt
    <3>2. QED
      BY ONLY <1>39, <2>5, <3>1
  <2>6. CASE f = "srcEndpoint"
    <3>1. KrAfExt[f][1] = 12 /\ KrAfExt[f][2] = 1
      BY ONLY <2>6 DEF KrAfExt
    <3>2. QED
      BY ONLY <1>40, <2>6, <3>1
  <2>7. CASE f = "clusterId"
    <3>1. KrAfExt[f][1] = 13 /\ KrAfExt[f][2] = 2
      BY ONLY <2>7 DEF KrAfExt
    <3>2. QED
      BY ONLY <1>41, <2>7, <3>1
  <2>8. CASE f = "tranSeqNum"
    <3>1. KrAfExt[f][1] = 15 /\ KrAfExt[f][2] = 1
      BY ONLY <2>8 DEF KrAfExt
    <3>2. QED
      BY ONLY <1>42, <2>8, <3>1
  <2>9. CASE f = "options"
    <3>1. KrAfExt[f][1] = 16 /\ KrAfExt[f][2] = 1
      BY ONLY <2>9 DEF KrAfExt
    <3>2. QED
      BY ONLY <1>42, <2>9, <3>1
  <2>10. CASE f = "radius"
    <3>1. KrAfExt[f][1] = 17 /\ KrAfExt[f][2] = 1
      BY ONLY <2>10 DEF KrAfExt
    <3>2. QED
      BY ONLY <1>42, <2>10, <3>1
  <2>11. CASE f = "asduLen"
    <3>1. KrAfExt[f][1] = 18 /\ KrAfExt[f][2] = 2
      BY ONLY <2>11 DEF KrAfExt
    <3>2. QED
      BY ONLY <1>43, <2>11, <3>1
  <2>12. QED
    BY ONLY <2>1, <2>2, <2>3, <2>4, <2>5, <2>6, <2>7, <2>8, <2>9, <2>10, <2>11
<1>46. Carrying(KrAfExt, KrAfExtAsdu, b, m)
  BY ONLY <1>26, <1>44, <1>45 DEF Carrying, KrAfExtAsdu
<1>47. QED
  BY ONLY <1>2, <1>25, <1>26, <1>46

(* DataRequestExt(): of a message object made by its setters every field     *)
(* arrives, in a frame whose length and check are right, for every asdu the  *)
(* count of the check has room for.                                          *)
LEMMA ExtHeard ==
  ASSUME NEW m, NEW n, ExtFits(m, n), n <= 231
  PROVE  \E b : /\ Sent(DataRequestExt(Object(KrAfExt, KrAfExtAsdu, m, ExtSetters)))
                      = [type |-> 36, id |-> 2, data |-> b]
                /\ Carries(KrAfExt, KrAfExtAsdu, b, m)
<1>1. /\ Apart(KrAfExt, KrAfExtAsdu) /\ KrAfExtAsdu \in Nat /\ Sendable(KrAfExt, m)
  BY ONLY ExtLayout, ExtSendable, ExtFits(m, n)
<1>2. PICK o : o = Object(KrAfExt, KrAfExtAsdu, m, ExtSetters)
  OBVIOUS
<1>3. Carries(KrAfExt, KrAfExtAsdu, o, m)
  <2>1. PICK k \in Nat : k = 10
    OBVIOUS
  <2>2. /\ ExtSetters \in [1 .. k -> DOMAIN KrAfExt]
        /\ \A f \in DOMAIN KrAfExt : \E j \in 1 .. k : ExtSetters[j] = f
        /\ \A i, j \in 1 .. k : ExtSetters[i] = ExtSetters[j] => i = j
    BY ONLY <2>1, ExtLayout
  <2>3. Carries(KrAfExt, KrAfExtAsdu, Object(KrAfExt, KrAfExtAsdu, m, ExtSetters), m)
    BY ONLY <1>1, <2>2, ObjectCarries, k \in Nat
  <2>4. QED
    BY ONLY <1>2, <2>3
<1>4. /\ Getter(KrAfExt, o, "addrMode") = m.addrMode /\ Getter(KrAfExt, o, "dstAddr") = m.dstAddr
      /\ Getter(KrAfExt, o, "dstEndpoint") = m.dstEndpoint /\ Getter(KrAfExt, o, "dstPanId") = m.dstPanId
      /\ Getter(KrAfExt, o, "srcEndpoint") = m.srcEndpoint /\ Getter(KrAfExt, o, "clusterId") = m.clusterId
      /\ Getter(KrAfExt, o, "tranSeqNum") = m.tranSeqNum /\ Getter(KrAfExt, o, "options") = m.options
      /\ Getter(KrAfExt, o, "radius") = m.radius /\ Getter(KrAfExt, o, "asduLen") = m.asduLen
  <2>1. \A f \in DOMAIN KrAfExt : Getter(KrAfExt, o, f) = m[f]
    BY ONLY <1>3 DEF Carries
  <2>2. /\ "addrMode" \in DOMAIN KrAfExt /\ "dstAddr" \in DOMAIN KrAfExt /\ "dstEndpoint" \in DOMAIN KrAfExt
        /\ "dstPanId" \in DOMAIN KrAfExt /\ "srcEndpoint" \in DOMAIN KrAfExt /\ "clusterId" \in DOMAIN KrAfExt
        /\ "tranSeqNum" \in DOMAIN KrAfExt /\ "options" \in DOMAIN KrAfExt /\ "radius" \in DOMAIN KrAfExt
        /\ "asduLen" \in DOMAIN KrAfExt
    BY ONLY DEF KrAfExt
  <2>3. QED
    BY ONLY <2>1, <2>2
<1>5. SubSeq(o, KrAfExtAsdu + 1, KrAfExtAsdu + m.asduLen) = m.asdu
  BY ONLY <1>3 DEF Carries
<1>6. DataRequestExt(o) = Command(36, 2, ExtData(m))
  BY ONLY <1>4, <1>5, Zenon DEF DataRequestExt, ExtData
<1>7. PICK b : b = ExtData(m)
  OBVIOUS
<1>8. Carrying(KrAfExt, KrAfExtAsdu, b, m) /\ Len(b) = 20 + n + 1
  BY ONLY <1>7, ExtCarries, ExtFits(m, n)
<1>9. Carries(KrAfExt, KrAfExtAsdu, b, m)
  BY ONLY <1>1, <1>8, CarriesRead
<1>10. b \in Seq(Octet) /\ Len(b) <= 252
  <2>1. n \in Nat
    BY ONLY ExtFits(m, n) DEF ExtFits
  <2>2. QED
    BY ONLY <1>8, <2>1, n <= 231 DEF Carrying
<1>11. Sent(Command(36, 2, b)) = [type |-> 36, id |-> 2, data |-> b]
  <2>1. 36 \in Octet /\ 2 \in Octet
    BY ONLY DEF Octet
  <2>2. QED
    BY ONLY <1>10, <2>1, SentKept
<1>12. QED
  BY ONLY <1>2, <1>6, <1>7, <1>9, <1>11

(* One sequence behind another. *)
LEMMA SizedCat ==
  ASSUME NEW s, NEW t, NEW k, NEW m, Sized(s, k), Sized(t, m)
  PROVE  Sized(s \o t, k + m)
<1>1. PICK u : Cat(u, s, t)
  BY DEF Cat
<1>2. Parted(u, s, t, k, m)
  BY ONLY <1>1, CatType, Sized(s, k), Sized(t, m)
<1>3. Sized(u, k + m)
  BY ONLY <1>2 DEF Parted, Sized
<1>4. QED
  BY ONLY <1>1, <1>3 DEF Cat

(* A byte alone, and a number. *)
LEMMA SizedOne ==
  /\ \A x \in Octet : Sized(<<x>>, 1)
  /\ \A x \in Nat, n \in Nat : Sized(ToBytes(x, n), n)
<1>1. ASSUME NEW x \in Octet  PROVE Sized(<<x>>, 1)
  <2>1. <<x>> \in Seq(Octet) /\ Len(<<x>>) = 1
    OBVIOUS
  <2>2. QED
    BY ONLY <2>1, 1 \in Nat DEF Sized
<1>2. ASSUME NEW x \in Nat, NEW n \in Nat  PROVE Sized(ToBytes(x, n), n)
  BY BytesOf DEF Sized
<1>3. QED
  BY ONLY <1>1, <1>2

(* ZDO::APDU: its fields have room. *)
LEMMA ApduFits ==
  ASSUME NEW nwk \in Word, NEW cluster \in Word, NEW n \in Octet, NEW asdu, Sized(asdu, n)
  PROVE  AfFits(APDU(nwk, cluster, asdu), n)
<1>1. PICK m : m = APDU(nwk, cluster, asdu)
  OBVIOUS
<1>2. Len(asdu) = n /\ Byte(n) = n /\ n \in Nat
  BY ONLY OctetType, n \in Octet, Sized(asdu, n) DEF Sized
<1>3. /\ m.dstAddr = nwk /\ m.dstEndpoint = 0 /\ m.srcEndpoint = 0 /\ m.clusterId = cluster
      /\ m.tranSeqNum = 0 /\ m.options = 0 /\ m.radius = 3 /\ m.asduLen = n /\ m.asdu = asdu
  BY ONLY <1>1, <1>2 DEF APDU
<1>4. 0 \in Octet /\ 3 \in Octet
  BY ONLY DEF Octet
<1>5. AfFits(m, n)
  BY ONLY <1>2, <1>3, <1>4, nwk \in Word, cluster \in Word, n \in Octet, Sized(asdu, n) DEF AfFits
<1>6. QED
  BY ONLY <1>1, <1>5

(* So do those of the messages to the coordinator. *)
LEMMA MessageFits ==
  /\ \A n \in Octet : AfFits(Message(n), n)
  /\ \A n \in Octet : ExtFits(MessageExt(n), n)
<1>1. ASSUME NEW n \in Octet  PROVE AfFits(Message(n), n)
  <2>1. PICK v : v = Asdu(n)
    OBVIOUS
  <2>2. Sized(v, n)
    BY ONLY <2>1, OctetType, AsduType, n \in Octet
  <2>3. Len(v) = n /\ Byte(n) = n /\ n \in Nat
    BY ONLY <2>2, OctetType, n \in Octet DEF Sized
  <2>4. PICK m : m = Message(n)
    OBVIOUS
  <2>5. PICK a : a = APDU(513, 1284, v)
    OBVIOUS
  <2>6. /\ a.dstAddr = 513 /\ a.clusterId = 1284 /\ a.radius = 3 /\ a.asduLen = n /\ a.asdu = v
        /\ DOMAIN a = {"dstAddr", "dstEndpoint", "srcEndpoint", "clusterId", "tranSeqNum",
                       "options", "radius", "asduLen", "asdu"}
    BY ONLY <2>3, <2>5, SMT DEF APDU
  <2>7. m = [a EXCEPT !.dstEndpoint = 7, !.srcEndpoint = 8, !.tranSeqNum = 9, !.options = 48]
    BY ONLY <2>1, <2>4, <2>5, SMT DEF Message
  <2>8. /\ m.dstAddr = 513 /\ m.dstEndpoint = 7 /\ m.srcEndpoint = 8 /\ m.clusterId = 1284
        /\ m.tranSeqNum = 9 /\ m.options = 48 /\ m.radius = 3 /\ m.asduLen = n /\ m.asdu = v
    BY ONLY <2>6, <2>7, SMT
  <2>9. /\ 7 \in Octet /\ 8 \in Octet /\ 9 \in Octet /\ 48 \in Octet /\ 3 \in Octet
        /\ 513 \in Word /\ 1284 \in Word
    BY ONLY SMT DEF Octet, Word
  <2>10. AfFits(m, n)
    BY ONLY <2>2, <2>3, <2>8, <2>9, n \in Octet, SMT DEF AfFits
  <2>11. QED
    BY ONLY <2>4, <2>10
<1>2. ASSUME NEW n \in Octet  PROVE ExtFits(MessageExt(n), n)
  <2>1. PICK v : v = Asdu(n)
    OBVIOUS
  <2>2. Sized(v, n) /\ n \in Nat /\ n < 256
    BY ONLY <2>1, OctetType, AsduType, n \in Octet
  <2>3. PICK y \in Nat : y = 67305985 /\ Fitting(y, 8)
    BY ONLY NumbersFit, 8 \in Nat, 8 >= 4, SMT
  <2>4. PICK m : m = MessageExt(n)
    OBVIOUS
  <2>5. /\ m.addrMode = 3 /\ m.dstAddr = y /\ m.dstEndpoint = 7 /\ m.dstPanId = 4386
        /\ m.srcEndpoint = 8 /\ m.clusterId = 1284 /\ m.tranSeqNum = 9 /\ m.options = 48
        /\ m.radius = 30 /\ m.asduLen = n /\ m.asdu = v
    BY ONLY <2>1, <2>3, <2>4, SMT DEF MessageExt
  <2>6. /\ 3 \in Octet /\ 7 \in Octet /\ 8 \in Octet /\ 9 \in Octet /\ 48 \in Octet /\ 30 \in Octet
        /\ 4386 \in Word /\ 1284 \in Word /\ n \in Word
    BY ONLY <2>2, SMT DEF Octet, Word
  <2>7. ExtFits(m, n)
    BY ONLY <2>2, <2>3, <2>5, <2>6, SMT DEF ExtFits
  <2>8. QED
    BY ONLY <2>4, <2>7
<1>3. QED
  BY ONLY <1>1, <1>2

(* And those of the requests of the device profile. *)
LEMMA RequestFits ==
  ASSUME NEW x \in Word, NEW m \in Requests(x)
  PROVE  \E n \in Octet : n <= 242 /\ AfFits(m, n)
<1>1. /\ 0 \in Octet /\ 1 \in Octet /\ 2 \in Octet /\ 3 \in Octet /\ 4 \in Octet /\ 11 \in Octet
      /\ 17 \in Octet /\ 60 \in Octet /\ 255 \in Octet
      /\ 0 \in Word /\ 2 \in Word /\ 4 \in Word /\ 5 \in Word /\ 52 \in Word /\ 54 \in Word
  BY ONLY SMT DEF Octet, Word
<1>2. x \in Nat /\ 0 \in Nat /\ 2 \in Nat /\ 8 \in Nat
  BY ONLY WordType, x \in Word
<1>3. ASSUME NEW c \in Octet  PROVE Sized(zdpHdr(c, x), 3)
  <2>1. Sized(<<c>> \o ToBytes(x, 2), 1 + 2)
    BY ONLY <1>2, SizedOne, SizedCat, c \in Octet
  <2>2. QED
    BY ONLY <2>1, 1 + 2 = 3 DEF zdpHdr
<1>4. Sized(simple_desc_frm(1, x, 11), 4)
  <2>1. Sized(zdpHdr(1, x) \o <<11>>, 3 + 1)
    BY ONLY <1>1, <1>3, SizedOne, SizedCat
  <2>2. QED
    BY ONLY <2>1, 3 + 1 = 4 DEF simple_desc_frm
<1>5. Sized(Mgmt_Permit_Joining_req_frm(2, 60, 0), 3)
  <2>1. <<2, 60, 0>> \in Seq(Octet) /\ Len(<<2, 60, 0>>) = 3
    BY ONLY <1>1
  <2>2. QED
    BY ONLY <2>1, 3 \in Nat DEF Sized, Mgmt_Permit_Joining_req_frm
<1>6. Sized(Mgmt_Leave_req_frm(3, x), 17)
  <2>1. Sized(<<3>> \o ToBytes(x, 8), 1 + 8)
    BY ONLY <1>1, <1>2, SizedOne, SizedCat
  <2>2. Sized(<<3>> \o ToBytes(x, 8) \o ToBytes(0, 8), (1 + 8) + 8)
    BY ONLY <1>2, <2>1, SizedOne, SizedCat
  <2>3. QED
    BY ONLY <2>2, (1 + 8) + 8 = 17 DEF Mgmt_Leave_req_frm
<1>7. 3 <= 242 /\ 4 <= 242 /\ 17 <= 242
  OBVIOUS
<1>8. /\ AfFits(APDU(x, 2, zdpHdr(255, x)), 3)
      /\ AfFits(APDU(x, 5, zdpHdr(0, x)), 3)
      /\ AfFits(APDU(x, 4, simple_desc_frm(1, x, 11)), 4)
      /\ AfFits(APDU(0, 54, Mgmt_Permit_Joining_req_frm(2, 60, 0)), 3)
      /\ AfFits(APDU(0, 52, Mgmt_Leave_req_frm(3, x)), 17)
  <2>1. Sized(zdpHdr(255, x), 3) /\ Sized(zdpHdr(0, x), 3)
    BY ONLY <1>1, <1>3
  <2>2. QED
    BY ONLY <1>1, <1>4, <1>5, <1>6, <2>1, ApduFits, x \in Word
<1>9. \/ m = APDU(x, 2, zdpHdr(255, x)) \/ m = APDU(x, 5, zdpHdr(0, x))
      \/ m = APDU(x, 4, simple_desc_frm(1, x, 11))
      \/ m = APDU(0, 54, Mgmt_Permit_Joining_req_frm(2, 60, 0))
      \/ m = APDU(0, 52, Mgmt_Leave_req_frm(3, x))
  BY ONLY m \in Requests(x), Zenon DEF Requests
<1>10. AfFits(m, 3) \/ AfFits(m, 4) \/ AfFits(m, 17)
  BY ONLY <1>8, <1>9
<1>11. QED
  BY ONLY <1>1, <1>7, <1>10

(* Bytes setIn together from two sequences. *)
Joins(s, k, t, m, u) ==
  /\ Sized(s, k) /\ Sized(t, m) /\ Sized(u, k + m)
  /\ (\A i \in 1 .. k : u[i] = s[i]) /\ \A i \in 1 .. m : u[k + i] = t[i]

(* They are one behind the other. *)
LEMMA CatBytes ==
  ASSUME NEW s, NEW k, NEW t, NEW m, NEW u, Joins(s, k, t, m, u)
  PROVE  s \o t = u
<1>0. /\ Sized(s, k) /\ Sized(t, m) /\ Sized(u, k + m)
      /\ (\A i \in 1 .. k : u[i] = s[i]) /\ \A i \in 1 .. m : u[k + i] = t[i]
  BY DEF Joins
<1>1. PICK r : r = s \o t
  OBVIOUS
<1>2. s \in Seq(Octet) /\ t \in Seq(Octet) /\ k \in Nat /\ m \in Nat /\ Len(s) = k /\ Len(t) = m
  BY <1>0 DEF Sized
<1>3. /\ r \in Seq(Octet) /\ Len(r) = k + m /\ \A i \in 1 .. k : r[i] = s[i]
      /\ \A i \in 1 .. m : r[k + i] = t[i]
  <2>1. /\ s \o t \in Seq(Octet) /\ Len(s \o t) = Len(s) + Len(t)
        /\ \A i \in 1 .. Len(s) : (s \o t)[i] = s[i]
        /\ \A i \in 1 .. Len(t) : (s \o t)[Len(s) + i] = t[i]
    BY ONLY <1>2
  <2>2. QED
    BY ONLY <1>1, <1>2, <2>1
<1>4. u \in Seq(Octet) /\ Len(u) = k + m
  BY <1>0 DEF Sized
<1>5. ASSUME NEW i \in 1 .. k + m  PROVE r[i] = u[i]
  <2>1. CASE i <= k
    <3>1. i \in 1 .. k
      BY ONLY <1>2, <2>1, i \in 1 .. k + m
    <3>2. u[i] = s[i]
      BY ONLY <1>0, <3>1
    <3>3. QED
      BY ONLY <1>3, <3>1, <3>2
  <2>2. CASE ~ (i <= k)
    <3>1. PICK j \in 1 .. m : i = k + j
      <4>1. i - k \in 1 .. m /\ i = k + (i - k)
        BY ONLY <1>2, <2>2, i \in 1 .. k + m
      <4>2. QED
        BY ONLY <4>1
    <3>2. u[k + j] = t[j]
      BY ONLY <1>0, j \in 1 .. m
    <3>3. QED
      BY ONLY <1>3, <3>1, <3>2
  <2>3. QED
    BY ONLY <2>1, <2>2
<1>6. r = u
  <2>1. \A i \in 1 .. Len(r) : r[i] = u[i]
    BY ONLY <1>3, <1>5
  <2>2. QED
    BY ONLY <1>3, <1>4, <2>1, SeqEqual
<1>7. QED
  BY ONLY <1>1, <1>6

(* Sequences of one to five bytes. *)
LEMMA Tuples ==
  /\ Sized(<< >>, 0)
  /\ \A a \in Octet : Sized(<<a>>, 1)
  /\ \A a, b \in Octet : Sized(<<a, b>>, 2)
  /\ \A a, b, c \in Octet : Sized(<<a, b, c>>, 3)
  /\ \A a, b, c, d \in Octet : Sized(<<a, b, c, d>>, 4)
  /\ \A a, b, c, d, e \in Octet : Sized(<<a, b, c, d, e>>, 5)
<1>1. Sized(<< >>, 0)
  <2>1. << >> \in Seq(Octet) /\ Len(<< >>) = 0 /\ 0 \in Nat
    OBVIOUS
  <2>2. QED
    BY ONLY <2>1 DEF Sized
<1>2. ASSUME NEW a \in Octet
      PROVE  Sized(<<a>>, 1)
  <2>1. <<a>> \in Seq(Octet) /\ Len(<<a>>) = 1 /\ 1 \in Nat
    OBVIOUS
  <2>2. QED
    BY ONLY <2>1 DEF Sized
<1>3. ASSUME NEW a \in Octet, NEW b \in Octet
      PROVE  Sized(<<a, b>>, 2)
  <2>1. <<a, b>> \in Seq(Octet) /\ Len(<<a, b>>) = 2 /\ 2 \in Nat
    OBVIOUS
  <2>2. QED
    BY ONLY <2>1 DEF Sized
<1>4. ASSUME NEW a \in Octet, NEW b \in Octet, NEW c \in Octet
      PROVE  Sized(<<a, b, c>>, 3)
  <2>1. <<a, b, c>> \in Seq(Octet) /\ Len(<<a, b, c>>) = 3 /\ 3 \in Nat
    OBVIOUS
  <2>2. QED
    BY ONLY <2>1 DEF Sized
<1>5. ASSUME NEW a \in Octet, NEW b \in Octet, NEW c \in Octet, NEW d \in Octet
      PROVE  Sized(<<a, b, c, d>>, 4)
  <2>1. <<a, b, c, d>> \in Seq(Octet) /\ Len(<<a, b, c, d>>) = 4 /\ 4 \in Nat
    OBVIOUS
  <2>2. QED
    BY ONLY <2>1 DEF Sized
<1>6. ASSUME NEW a \in Octet, NEW b \in Octet, NEW c \in Octet, NEW d \in Octet, NEW e \in Octet
      PROVE  Sized(<<a, b, c, d, e>>, 5)
  <2>1. <<a, b, c, d, e>> \in Seq(Octet) /\ Len(<<a, b, c, d, e>>) = 5 /\ 5 \in Nat
    OBVIOUS
  <2>2. QED
    BY ONLY <2>1 DEF Sized
<1>7. QED
  BY ONLY <1>1, <1>2, <1>3, <1>4, <1>5, <1>6

(* Where the fields of an endpoint stand that is registered.                *)
LEMMA JoinEndpoint ==
  ASSUME NEW xs, \A k \in 1 .. 7 : xs[k] \in Nat,
         NEW b, b = Join(<<1, 2, 2, 1, 1, 1, 1>>, xs)
  PROVE  /\ Sized(b, 9)
         /\ Has(b, 0, ToBytes(xs[1], 1)) /\ Has(b, 1, ToBytes(xs[2], 2))
         /\ Has(b, 3, ToBytes(xs[3], 2)) /\ Has(b, 5, ToBytes(xs[4], 1))
         /\ Has(b, 6, ToBytes(xs[5], 1)) /\ Has(b, 7, ToBytes(xs[6], 1))
         /\ Has(b, 8, ToBytes(xs[7], 1))
<1>1. PICK w : w = <<1, 2, 2, 1, 1, 1, 1>>
  OBVIOUS
<1>2. w \in Seq(Nat) /\ Len(w) = 7
  BY <1>1
<1>3. /\ w[1] = 1 /\ w[2] = 2 /\ w[3] = 2 /\ w[4] = 1 /\ w[5] = 1
      /\ w[6] = 1 /\ w[7] = 1
  BY <1>1
<1>4. PICK at \in [0 .. 7 -> Nat] : Joined(w, xs, at)
  <2>1. \A k \in 1 .. Len(w) : xs[k] \in Nat
    BY <1>2
  <2>2. \E at \in [0 .. Len(w) -> Nat] : Joined(w, xs, at)
    BY ONLY <1>2, <2>1, JoinParts
  <2>3. QED
    BY ONLY <1>2, <2>2
<1>5. /\ at[0] = 0 /\ \A k \in 1 .. 7 : at[k] = at[k - 1] + w[k]
      /\ b \in Seq(Octet) /\ Len(b) = at[7]
      /\ \A k \in 1 .. 7 : Has(b, at[k - 1], ToBytes(xs[k], w[k]))
  BY ONLY <1>1, <1>2, <1>4, b = Join(<<1, 2, 2, 1, 1, 1, 1>>, xs) DEF Joined, Placed
<1>6. /\ 1 \in 1 .. 7 /\ 2 \in 1 .. 7 /\ 3 \in 1 .. 7 /\ 4 \in 1 .. 7 /\ 5 \in 1 .. 7
      /\ 6 \in 1 .. 7 /\ 7 \in 1 .. 7
  OBVIOUS
<1>7. /\ 1 - 1 = 0 /\ 2 - 1 = 1 /\ 3 - 1 = 2 /\ 4 - 1 = 3 /\ 5 - 1 = 4
      /\ 6 - 1 = 5 /\ 7 - 1 = 6
  OBVIOUS
<1>8. /\ at[1] = at[0] + w[1] /\ at[2] = at[1] + w[2] /\ at[3] = at[2] + w[3]
      /\ at[4] = at[3] + w[4] /\ at[5] = at[4] + w[5] /\ at[6] = at[5] + w[6]
      /\ at[7] = at[6] + w[7]
  BY ONLY <1>5, <1>6, <1>7
<1>9. /\ at[0] = 0 /\ at[1] = 1 /\ at[2] = 3 /\ at[3] = 5 /\ at[4] = 6
      /\ at[5] = 7 /\ at[6] = 8 /\ at[7] = 9
  BY ONLY <1>3, <1>5, <1>8
<1>10. /\ Has(b, at[0], ToBytes(xs[1], w[1])) /\ Has(b, at[1], ToBytes(xs[2], w[2]))
       /\ Has(b, at[2], ToBytes(xs[3], w[3])) /\ Has(b, at[3], ToBytes(xs[4], w[4]))
       /\ Has(b, at[4], ToBytes(xs[5], w[5])) /\ Has(b, at[5], ToBytes(xs[6], w[6]))
       /\ Has(b, at[6], ToBytes(xs[7], w[7]))
  BY ONLY <1>5, <1>6, <1>7
<1>11. Sized(b, 9)
  <2>1. 9 \in Nat
    OBVIOUS
  <2>2. QED
    BY ONLY <1>5, <1>9, <2>1 DEF Sized
<1>12. QED
  BY ONLY <1>3, <1>9, <1>10, <1>11

(* register_endpoint_TI() *)
LEMMA EndpointBytes ==
  Join(<<1, 2, 2, 1, 1, 1, 1>>, <<11, 260, 513, 2, 0, 0, 0>>) = <<11, 4, 1, 1, 2, 2, 0, 0, 0>>
<1> DEFINE xs == <<11, 260, 513, 2, 0, 0, 0>>
           u == <<11, 4, 1, 1, 2, 2, 0, 0, 0>>
<1>1. /\ xs[1] = 11 /\ xs[2] = 260 /\ xs[3] = 513 /\ xs[4] = 2 /\ xs[5] = 0
      /\ xs[6] = 0 /\ xs[7] = 0
  BY ONLY SMT
<1>2. \A k \in 1 .. 7 : xs[k] \in Nat
  BY ONLY SMT
<1>3. /\ u[1] = 11 /\ u[2] = 4 /\ u[3] = 1 /\ u[4] = 1 /\ u[5] = 2 /\ u[6] = 2 /\ u[7] = 0
      /\ u[8] = 0 /\ u[9] = 0 /\ Len(u) = 9 /\ u \in Seq(Octet)
  <2>1. 11 \in Octet /\ 4 \in Octet /\ 1 \in Octet /\ 2 \in Octet /\ 0 \in Octet
    BY ONLY SMT DEF Octet
  <2>2. QED
    BY ONLY <2>1, SMT
<1>4. xs = <<11, 260, 513, 2, 0, 0, 0>> /\ u = <<11, 4, 1, 1, 2, 2, 0, 0, 0>>
  OBVIOUS
<1> HIDE DEF xs, u
<1>5. PICK b : b = Join(<<1, 2, 2, 1, 1, 1, 1>>, xs)
  OBVIOUS
<1>6. /\ Sized(b, 9)
      /\ Has(b, 0, ToBytes(11, 1)) /\ Has(b, 1, ToBytes(260, 2)) /\ Has(b, 3, ToBytes(513, 2))
      /\ Has(b, 5, ToBytes(2, 1)) /\ Has(b, 6, ToBytes(0, 1)) /\ Has(b, 7, ToBytes(0, 1))
      /\ Has(b, 8, ToBytes(0, 1))
  BY ONLY <1>1, <1>2, <1>5, JoinEndpoint, SMT
<1>7. /\ 11 \in Octet /\ 2 \in Octet /\ 0 \in Octet /\ 4 \in Octet /\ 1 \in Octet
      /\ 260 \in Word /\ 513 \in Word
  BY ONLY SMT DEF Octet, Word
<1>8. ToBytes(11, 1) = <<11>> /\ ToBytes(2, 1) = <<2>> /\ ToBytes(0, 1) = <<0>>
  BY ONLY OneByte, 11 \in 0 .. 255, 2 \in 0 .. 255, 0 \in 0 .. 255, SMT
<1>9. ToBytes(260, 2) = <<4, 1>> /\ ToBytes(513, 2) = <<1, 2>>
  <2>1. 260 % 256 = 4 /\ 260 \div 256 = 1 /\ 513 % 256 = 1 /\ 513 \div 256 = 2
    BY ONLY SMT
  <2>2. QED
    BY ONLY <1>7, <2>1, TwoBytes, SMT
<1>10. b \in Seq(Octet) /\ Len(b) = 9
  BY ONLY <1>6 DEF Sized
<1>11. b[0 + 1] = 11 /\ b[5 + 1] = 2 /\ b[6 + 1] = 0 /\ b[7 + 1] = 0 /\ b[8 + 1] = 0
  <2>1. 0 \in Nat /\ 5 \in Nat /\ 6 \in Nat /\ 7 \in Nat /\ 8 \in Nat
    OBVIOUS
  <2>2. QED
    BY ONLY <1>6, <1>7, <1>8, <1>10, <2>1, HasByte
<1>12. b[1 + 1] = 4 /\ b[1 + 2] = 1 /\ b[3 + 1] = 1 /\ b[3 + 2] = 2
  <2>1. PICK z \in Nat, y \in Nat, k \in Nat : z = 1 /\ y = 3 /\ k = 2
    OBVIOUS
  <2>2. PICK s, r : s = <<4, 1>> /\ r = <<1, 2>>
    OBVIOUS
  <2>3. Sized(s, k) /\ Sized(r, k)
    BY ONLY <1>7, <2>1, <2>2, Tuples
  <2>4. Has(b, z, s) /\ Has(b, y, r)
    BY ONLY <1>6, <1>9, <2>1, <2>2
  <2>5. 1 <= z /\ z <= k /\ 1 <= k /\ k <= k
    BY ONLY <2>1
  <2>6. b[z + z] = s[z] /\ b[z + k] = s[k] /\ b[y + z] = r[z] /\ b[y + k] = r[k]
    BY ONLY <2>3, <2>4, <2>5, HasAt, z \in Nat, y \in Nat, k \in Nat
  <2>7. s[1] = 4 /\ s[2] = 1 /\ r[1] = 1 /\ r[2] = 2
    BY ONLY <2>2
  <2>8. QED
    BY ONLY <2>1, <2>6, <2>7
<1>13. /\ b[1] = u[1] /\ b[2] = u[2] /\ b[3] = u[3] /\ b[4] = u[4] /\ b[5] = u[5] /\ b[6] = u[6]
       /\ b[7] = u[7] /\ b[8] = u[8] /\ b[9] = u[9]
  <2>1. /\ 0 + 1 = 1 /\ 1 + 1 = 2 /\ 1 + 2 = 3 /\ 3 + 1 = 4 /\ 3 + 2 = 5 /\ 5 + 1 = 6
        /\ 6 + 1 = 7 /\ 7 + 1 = 8 /\ 8 + 1 = 9
    OBVIOUS
  <2>2. QED
    BY ONLY <1>3, <1>11, <1>12, <2>1
<1>14. ASSUME NEW i \in 1 .. 9  PROVE b[i] = u[i]
  <2>1. \/ i = 1 \/ i = 2 \/ i = 3 \/ i = 4 \/ i = 5 \/ i = 6 \/ i = 7 \/ i = 8 \/ i = 9
    OBVIOUS
  <2>2. QED
    BY ONLY <1>13, <2>1
<1>15. b = u
  <2>1. Len(b) = Len(u) /\ \A i \in 1 .. Len(b) : b[i] = u[i]
    BY ONLY <1>3, <1>10, <1>14
  <2>2. QED
    BY ONLY <1>3, <1>10, <2>1, SeqEqual
<1>16. QED
  BY ONLY <1>4, <1>5, <1>15

(* mtUtilAssocGetWithAddress() *)
LEMMA AssocBytes ==
  ToBytes(258, 8) \o <<0, 0>> = <<2, 1, 0, 0, 0, 0, 0, 0, 0, 0>>
<1>1. PICK x \in Nat, n \in Nat : x = 258 /\ n = 8
  BY ONLY SMT
<1>2. PICK h : h \in [0 .. n -> Nat] /\ Left(x, n, h)
  BY ONLY HighPart, x \in Nat, n \in Nat
<1> DEFINE Rest(y) == y \div 256
<1>3. h[0] = x /\ \A k \in 1 .. 8 : h[k] = Rest(h[k - 1])
  BY ONLY <1>1, <1>2 DEF Left
<1>4. ToBytes(258, 8) = [i \in 1 .. 8 |-> Byte(h[i - 1])]
  BY ONLY <1>1, <1>2 DEF Left
<1>5. Rest(x) = 1 /\ Rest(1) = 0 /\ Rest(0) = 0
  BY ONLY <1>1
<1> HIDE DEF Rest
<1>6. /\ 1 \in 1 .. 8 /\ 2 \in 1 .. 8 /\ 3 \in 1 .. 8 /\ 4 \in 1 .. 8 /\ 5 \in 1 .. 8
      /\ 6 \in 1 .. 8 /\ 7 \in 1 .. 8 /\ 8 \in 1 .. 8
      /\ 1 - 1 = 0 /\ 2 - 1 = 1 /\ 3 - 1 = 2 /\ 4 - 1 = 3 /\ 5 - 1 = 4 /\ 6 - 1 = 5
      /\ 7 - 1 = 6 /\ 8 - 1 = 7
  OBVIOUS
<1>7. /\ h[1] = Rest(h[0]) /\ h[2] = Rest(h[1]) /\ h[3] = Rest(h[2]) /\ h[4] = Rest(h[3])
      /\ h[5] = Rest(h[4]) /\ h[6] = Rest(h[5]) /\ h[7] = Rest(h[6])
  BY ONLY <1>3, <1>6
<1>8. h[1] = 1 /\ h[2] = 0 /\ h[3] = 0 /\ h[4] = 0 /\ h[5] = 0 /\ h[6] = 0 /\ h[7] = 0
  <2>1. h[1] = 1
    BY ONLY <1>3, <1>5, <1>7
  <2>2. h[2] = 0
    BY ONLY <1>5, <1>7, <2>1
  <2>3. h[3] = 0 /\ h[4] = 0 /\ h[5] = 0
    BY ONLY <1>5, <1>7, <2>2
  <2>4. h[6] = 0 /\ h[7] = 0
    BY ONLY <1>5, <1>7, <2>3
  <2>5. QED
    BY ONLY <2>1, <2>2, <2>3, <2>4
<1>9. PICK s : s = ToBytes(258, 8)
  OBVIOUS
<1>10. /\ s[1] = 2 /\ s[2] = 1 /\ s[3] = 0 /\ s[4] = 0 /\ s[5] = 0 /\ s[6] = 0 /\ s[7] = 0
       /\ s[8] = 0
  <2>1. Byte(x) = 2 /\ Byte(1) = 1 /\ Byte(0) = 0
    BY ONLY <1>1 DEF Byte
  <2>2. \A i \in 1 .. 8 : s[i] = Byte(h[i - 1])
    BY ONLY <1>4, <1>9
  <2>3. /\ s[1] = Byte(h[0]) /\ s[2] = Byte(h[1]) /\ s[3] = Byte(h[2]) /\ s[4] = Byte(h[3])
        /\ s[5] = Byte(h[4]) /\ s[6] = Byte(h[5]) /\ s[7] = Byte(h[6]) /\ s[8] = Byte(h[7])
    <3>1. s[1] = Byte(h[1 - 1]) /\ s[2] = Byte(h[2 - 1]) /\ s[3] = Byte(h[3 - 1])
      BY ONLY <1>6, <2>2
    <3>2. s[4] = Byte(h[4 - 1]) /\ s[5] = Byte(h[5 - 1]) /\ s[6] = Byte(h[6 - 1])
      BY ONLY <1>6, <2>2
    <3>3. s[7] = Byte(h[7 - 1]) /\ s[8] = Byte(h[8 - 1])
      BY ONLY <1>6, <2>2
    <3>4. QED
      BY ONLY <1>6, <3>1, <3>2, <3>3
  <2>4. QED
    BY ONLY <1>3, <1>8, <2>1, <2>3
<1>11. Sized(s, n)
  BY ONLY <1>1, <1>9, SizedOne
<1> DEFINE u == <<2, 1, 0, 0, 0, 0, 0, 0, 0, 0>>
           t == <<0, 0>>
<1>12. /\ u[1] = 2 /\ u[2] = 1 /\ u[3] = 0 /\ u[4] = 0 /\ u[5] = 0 /\ u[6] = 0 /\ u[7] = 0
       /\ u[8] = 0 /\ u[9] = 0 /\ u[10] = 0 /\ t[1] = 0 /\ t[2] = 0
  OBVIOUS
<1>13. Sized(u, 8 + 2) /\ Sized(t, 2)
  <2>1. 0 \in Octet /\ 1 \in Octet /\ 2 \in Octet
    BY ONLY DEF Octet
  <2>2. u \in Seq(Octet) /\ Len(u) = 10 /\ t \in Seq(Octet) /\ Len(t) = 2
    BY ONLY <2>1
  <2> HIDE DEF u, t
  <2>3. QED
    BY ONLY <2>2, 8 + 2 = 10, 10 \in Nat, 2 \in Nat DEF Sized
<1> HIDE DEF u, t
<1>14. \A i \in 1 .. 8 : u[i] = s[i]
  <2>1. ASSUME NEW i \in 1 .. 8  PROVE u[i] = s[i]
    <3>1. i = 1 \/ i = 2 \/ i = 3 \/ i = 4 \/ i = 5 \/ i = 6 \/ i = 7 \/ i = 8
      OBVIOUS
    <3>2. QED
      BY ONLY <1>10, <1>12, <3>1
  <2>2. QED
    BY ONLY <2>1
<1>15. \A i \in 1 .. 2 : u[8 + i] = t[i]
  <2>1. ASSUME NEW i \in 1 .. 2  PROVE u[8 + i] = t[i]
    <3>1. i = 1 \/ i = 2
      OBVIOUS
    <3>2. 8 + 1 = 9 /\ 8 + 2 = 10
      OBVIOUS
    <3>3. QED
      BY ONLY <1>12, <3>1, <3>2
  <2>2. QED
    BY ONLY <2>1
<1>16. s \o t = u
  <2>1. PICK m \in Nat : m = 2
    OBVIOUS
  <2>2. Sized(u, n + m) /\ Sized(t, m) /\ Sized(s, n)
    BY ONLY <1>1, <1>11, <1>13, <2>1
  <2>3. (\A i \in 1 .. n : u[i] = s[i]) /\ \A i \in 1 .. m : u[n + i] = t[i]
    BY ONLY <1>1, <1>14, <1>15, <2>1
  <2>4. Joins(s, n, t, m, u)
    BY ONLY <2>2, <2>3 DEF Joins
  <2>5. QED
    BY ONLY <2>4, CatBytes
<1>17. QED
  BY ONLY <1>9, <1>16, SMT DEF u, t

(* OsalNvRead() of the network item, zcdStartupOptions() *)
LEMMA NvBytes ==
  /\ ToBytes(33, 2) \o <<0>> = <<33, 0, 0>>
  /\ ToBytes(3, 2) \o <<0, 1>> \o <<3>> = <<3, 0, 0, 1, 3>>
<1>1. /\ 0 \in Octet /\ 1 \in Octet /\ 3 \in Octet /\ 33 \in Octet /\ 33 \in Word
      /\ 3 \in Word
  BY ONLY SMT DEF Octet, Word
<1>2. ToBytes(33, 2) = <<33, 0>> /\ ToBytes(3, 2) = <<3, 0>>
  <2>1. 33 % 256 = 33 /\ 33 \div 256 = 0 /\ 3 % 256 = 3 /\ 3 \div 256 = 0
    BY ONLY SMT
  <2>2. QED
    BY ONLY <1>1, <2>1, TwoBytes, SMT
<1>3. PICK k \in Nat, l \in Nat, m \in Nat : k = 1 /\ l = 2 /\ m = 4
  OBVIOUS
<1>4. PICK s : s = <<33, 0>>
  OBVIOUS
<1>5. PICK z : z = <<0>>
  OBVIOUS
<1>6. PICK u : u = <<33, 0, 0>>
  OBVIOUS
<1>7. s \o z = u
  <2>1. Sized(s, l) /\ Sized(z, k) /\ Sized(u, l + k)
    <3>1. l + k = 3
      BY ONLY <1>3
    <3>2. QED
      BY ONLY <1>1, <1>3, <1>4, <1>5, <1>6, <3>1, Tuples
  <2>2. u[1] = s[1] /\ u[2] = s[2] /\ u[3] = z[1]
    BY ONLY <1>4, <1>5, <1>6
  <2>3. \A i \in 1 .. l : u[i] = s[i]
    BY ONLY <1>3, <2>2
  <2>4. \A i \in 1 .. k : u[l + i] = z[i]
    BY ONLY <1>3, <2>2
  <2>5. Joins(s, l, z, k, u)
    BY ONLY <2>1, <2>3, <2>4 DEF Joins
  <2>6. QED
    BY ONLY <2>5, CatBytes
<1>8. PICK a : a = <<3, 0>>
  OBVIOUS
<1>9. PICK b : b = <<0, 1>>
  OBVIOUS
<1>10. PICK c : c = <<3>>
  OBVIOUS
<1>11. PICK v : v = <<3, 0, 0, 1>>
  OBVIOUS
<1>12. PICK w : w = <<3, 0, 0, 1, 3>>
  OBVIOUS
<1>13. a \o b = v
  <2>1. Sized(a, l) /\ Sized(b, l) /\ Sized(v, l + l)
    <3>1. l + l = 4
      BY ONLY <1>3
    <3>2. QED
      BY ONLY <1>1, <1>3, <1>8, <1>9, <1>11, <3>1, Tuples
  <2>2. v[1] = a[1] /\ v[2] = a[2] /\ v[3] = b[1] /\ v[4] = b[2]
    BY ONLY <1>8, <1>9, <1>11
  <2>3. \A i \in 1 .. l : v[i] = a[i]
    BY ONLY <1>3, <2>2
  <2>4. \A i \in 1 .. l : v[l + i] = b[i]
    BY ONLY <1>3, <2>2
  <2>5. Joins(a, l, b, l, v)
    BY ONLY <2>1, <2>3, <2>4 DEF Joins
  <2>6. QED
    BY ONLY <2>5, CatBytes
<1>14. v \o c = w
  <2>1. Sized(v, m) /\ Sized(c, k) /\ Sized(w, m + k)
    <3>1. m + k = 5
      BY ONLY <1>3
    <3>2. QED
      BY ONLY <1>1, <1>3, <1>10, <1>11, <1>12, <3>1, Tuples
  <2>2. w[1] = v[1] /\ w[2] = v[2] /\ w[3] = v[3] /\ w[4] = v[4] /\ w[5] = c[1]
    BY ONLY <1>10, <1>11, <1>12
  <2>3. \A i \in 1 .. m : w[i] = v[i]
    BY ONLY <1>3, <2>2
  <2>4. \A i \in 1 .. k : w[m + i] = c[i]
    BY ONLY <1>3, <2>2
  <2>5. Joins(v, m, c, k, w)
    BY ONLY <2>1, <2>3, <2>4 DEF Joins
  <2>6. QED
    BY ONLY <2>5, CatBytes
<1>15. ToBytes(33, 2) \o <<0>> = <<33, 0, 0>>
  BY ONLY <1>2, <1>4, <1>5, <1>6, <1>7
<1>16. (ToBytes(3, 2) \o <<0, 1>>) \o <<3>> = <<3, 0, 0, 1, 3>>
  BY ONLY <1>2, <1>8, <1>9, <1>10, <1>12, <1>13, <1>14
<1>17. QED
  BY ONLY <1>15, <1>16

-----------------------------------------------------------------------------
(* Commands of fixed length *)

(* The coordinator is told the data of the command c = <<command, data>>, of n bytes. *)
Tells(c) == Sent(c[1]) = [type |-> c[1].type, id |-> c[1].id, data |-> c[2]]
Plain(c, type, id, d, n) ==
  type \in Octet /\ id \in Octet /\ Sized(d, n) /\ n <= 252 /\ c = <<Command(type, id, d), d>>

(* MTBuildAndSendCmd() of a command of known length *)
LEMMA PlainTells ==
  ASSUME NEW c, NEW type, NEW id, NEW d, NEW n, Plain(c, type, id, d, n)
  PROVE  Tells(c)
<1>1. type \in Octet /\ id \in Octet /\ d \in Seq(Octet) /\ Len(d) <= 252
  BY DEF Plain, Sized
<1>2. c[1] = Command(type, id, d) /\ c[2] = d
  BY DEF Plain
<1>3. Sent(c[1]) = [type |-> type, id |-> id, data |-> d]
  BY ONLY <1>1, <1>2, SentKept
<1>4. c[1].type = type /\ c[1].id = id
  BY ONLY <1>2 DEF Command
<1>5. QED
  BY ONLY <1>2, <1>3, <1>4 DEF Tells

(* The data of the commands, in bytes. *)
LEMMA DataSized ==
  /\ Sized(<< >>, 0)
  /\ Sized(<<11, 4, 1, 1, 2, 2, 0, 0, 0>>, 9)
  /\ Sized(<<2, 12>>, 2)
  /\ Sized(<<1, 25>>, 2)
  /\ Sized(<<0>>, 1)
  /\ Sized(<<0, 0, 60, 1>>, 4)
  /\ Sized(<<0, 0>>, 2)
  /\ Sized(<<2, 1, 0, 0, 0, 0, 0, 0, 0, 0>>, 10)
  /\ Sized(<<0, Junk>>, 2)
  /\ Sized(<<3>>, 1)
  /\ Sized(<<4, 3>>, 2)
  /\ Sized(<<3, 0, 0, 1, 3>>, 5)
  /\ Sized(<<33, 0, 0>>, 3)
<1>1. /\ 0 \in Octet /\ 1 \in Octet /\ 2 \in Octet /\ 3 \in Octet /\ 4 \in Octet /\ 8 \in Octet
      /\ 9 \in Octet /\ 11 \in Octet /\ 12 \in Octet /\ 16 \in Octet /\ 25 \in Octet /\ 33 \in Octet
      /\ 36 \in Octet /\ 37 \in Octet /\ 39 \in Octet /\ 54 \in Octet /\ 60 \in Octet /\ 64 \in Octet
      /\ 65 \in Octet /\ 68 \in Octet /\ 72 \in Octet /\ 73 \in Octet /\ 74 \in Octet
      /\ Junk \in Octet
  BY CodecAssumption, SMT DEF Octet
<1>2. Sized(<<11, 4, 1, 1, 2, 2, 0, 0, 0>>, 9)
  <2>1. <<11, 4, 1, 1, 2, 2, 0, 0, 0>> \in Seq(Octet) /\ Len(<<11, 4, 1, 1, 2, 2, 0, 0, 0>>) = 9 /\ 9 \in Nat
    BY ONLY <1>1, SMT
  <2>2. QED
    BY ONLY <2>1 DEF Sized
<1>3. Sized(<<2, 1, 0, 0, 0, 0, 0, 0, 0, 0>>, 10)
  <2>1. <<2, 1, 0, 0, 0, 0, 0, 0, 0, 0>> \in Seq(Octet) /\ Len(<<2, 1, 0, 0, 0, 0, 0, 0, 0, 0>>) = 10 /\ 10 \in Nat
    BY ONLY <1>1, SMT
  <2>2. QED
    BY ONLY <2>1 DEF Sized
<1>4. Sized(<< >>, 0)
  BY ONLY <1>1, Tuples
<1>5. Sized(<<2, 12>>, 2)
  BY ONLY <1>1, Tuples
<1>6. Sized(<<1, 25>>, 2)
  BY ONLY <1>1, Tuples
<1>7. Sized(<<0>>, 1)
  BY ONLY <1>1, Tuples
<1>8. Sized(<<0, 0, 60, 1>>, 4)
  BY ONLY <1>1, Tuples
<1>9. Sized(<<0, 0>>, 2)
  BY ONLY <1>1, Tuples
<1>10. Sized(<<0, Junk>>, 2)
  BY ONLY <1>1, Tuples
<1>11. Sized(<<3>>, 1)
  BY ONLY <1>1, Tuples
<1>12. Sized(<<4, 3>>, 2)
  BY ONLY <1>1, Tuples
<1>13. Sized(<<3, 0, 0, 1, 3>>, 5)
  BY ONLY <1>1, Tuples
<1>14. Sized(<<33, 0, 0>>, 3)
  BY ONLY <1>1, Tuples
<1>15. QED
  BY ONLY <1>2, <1>3, <1>4, <1>5, <1>6, <1>7, <1>8, <1>9, <1>10, <1>11, <1>12, <1>13, <1>14

(* The commands without fields that vary, registrations and settings *)
LEMMA SimpleTells ==
  ASSUME NEW c \in Simple
  PROVE  Tells(c)
<1>1. /\ 0 \in Octet /\ 1 \in Octet /\ 2 \in Octet /\ 3 \in Octet /\ 4 \in Octet /\ 8 \in Octet
      /\ 9 \in Octet /\ 11 \in Octet /\ 12 \in Octet /\ 16 \in Octet /\ 25 \in Octet /\ 33 \in Octet
      /\ 36 \in Octet /\ 37 \in Octet /\ 39 \in Octet /\ 54 \in Octet /\ 60 \in Octet /\ 64 \in Octet
      /\ 65 \in Octet /\ 68 \in Octet /\ 72 \in Octet /\ 73 \in Octet /\ 74 \in Octet
  BY ONLY SMT DEF Octet
<1>2. 0 <= 252 /\ 1 <= 252 /\ 2 <= 252 /\ 3 <= 252 /\ 4 <= 252 /\ 5 <= 252 /\ 9 <= 252 /\ 10 <= 252
  OBVIOUS
<1>4. ToBytes(772, 2) = <<4, 3>>
  <2>1. 772 \in Word /\ 772 % 256 = 4 /\ 772 \div 256 = 3
    BY ONLY SMT DEF Word
  <2>2. QED
    BY ONLY <2>1, TwoBytes, SMT
<1>5. OsalNvWrite(3, 0, <<3>>) = Command(33, 9, ToBytes(3, 2) \o <<0, 1>> \o <<3>>)
  <2>1. Len(<<3>>) = 1 /\ 1 \in 1 .. NvLimit
    BY ONLY SMT DEF NvLimit
  <2>2. QED
    BY ONLY <2>1, SMT DEF OsalNvWrite
<1>6. Tells(<<mt_sysping_req, << >>>>)
  <2>1. mt_sysping_req = Command(33, 1, << >>)
    BY ONLY SMT DEF mt_sysping_req
  <2>2. Plain(<<mt_sysping_req, << >>>>, 33, 1, << >>, 0)
    BY ONLY <1>1, <1>2, <2>1, DataSized, Zenon DEF Plain
  <2>3. QED
    BY ONLY <2>2, PlainTells
<1>7. Tells(<<mt_sys_wdtkick_req, << >>>>)
  <2>1. mt_sys_wdtkick_req = Command(33, 68, << >>)
    BY ONLY SMT DEF mt_sys_wdtkick_req
  <2>2. Plain(<<mt_sys_wdtkick_req, << >>>>, 33, 68, << >>, 0)
    BY ONLY <1>1, <1>2, <2>1, DataSized, Zenon DEF Plain
  <2>3. QED
    BY ONLY <2>2, PlainTells
<1>8. Tells(<<mt_getextaddr_req, << >>>>)
  <2>1. mt_getextaddr_req = Command(33, 4, << >>)
    BY ONLY SMT DEF mt_getextaddr_req
  <2>2. Plain(<<mt_getextaddr_req, << >>>>, 33, 4, << >>, 0)
    BY ONLY <1>1, <1>2, <2>1, DataSized, Zenon DEF Plain
  <2>3. QED
    BY ONLY <2>2, PlainTells
<1>9. Tells(<<mt_sysreset_req, << >>>>)
  <2>1. mt_sysreset_req = Command(33, 0, << >>)
    BY ONLY SMT DEF mt_sysreset_req
  <2>2. Plain(<<mt_sysreset_req, << >>>>, 33, 0, << >>, 0)
    BY ONLY <1>1, <1>2, <2>1, DataSized, Zenon DEF Plain
  <2>3. QED
    BY ONLY <2>2, PlainTells
<1>10. Tells(<<register_endpoint_TI(11, 260, 513, 2), <<11, 4, 1, 1, 2, 2, 0, 0, 0>>>>)
  <2>1. register_endpoint_TI(11, 260, 513, 2) = Command(36, 0, <<11, 4, 1, 1, 2, 2, 0, 0, 0>>)
    BY ONLY EndpointBytes, SMT DEF register_endpoint_TI
  <2>2. Plain(<<register_endpoint_TI(11, 260, 513, 2), <<11, 4, 1, 1, 2, 2, 0, 0, 0>>>>, 36, 0, <<11, 4, 1, 1, 2, 2, 0, 0, 0>>, 9)
    BY ONLY <1>1, <1>2, <2>1, DataSized, Zenon DEF Plain
  <2>3. QED
    BY ONLY <2>2, PlainTells
<1>11. Tells(<<register_interpan_cb_TI(12), <<2, 12>>>>)
  <2>1. register_interpan_cb_TI(12) = Command(36, 16, <<2, 12>>)
    BY ONLY SMT DEF register_interpan_cb_TI
  <2>2. Plain(<<register_interpan_cb_TI(12), <<2, 12>>>>, 36, 16, <<2, 12>>, 2)
    BY ONLY <1>1, <1>2, <2>1, DataSized, Zenon DEF Plain
  <2>3. QED
    BY ONLY <2>2, PlainTells
<1>12. Tells(<<interPanSet(25), <<1, 25>>>>)
  <2>1. interPanSet(25) = Command(36, 16, <<1, 25>>)
    BY ONLY SMT DEF interPanSet
  <2>2. Plain(<<interPanSet(25), <<1, 25>>>>, 36, 16, <<1, 25>>, 2)
    BY ONLY <1>1, <1>2, <2>1, DataSized, Zenon DEF Plain
  <2>3. QED
    BY ONLY <2>2, PlainTells
<1>13. Tells(<<intraPanSet, <<0>>>>)
  <2>1. intraPanSet = Command(36, 16, <<0>>)
    BY ONLY SMT DEF intraPanSet
  <2>2. Plain(<<intraPanSet, <<0>>>>, 36, 16, <<0>>, 1)
    BY ONLY <1>1, <1>2, <2>1, DataSized, Zenon DEF Plain
  <2>3. QED
    BY ONLY <2>2, PlainTells
<1>14. Tells(<<PermitJoinReq(60, 1), <<0, 0, 60, 1>>>>)
  <2>1. PermitJoinReq(60, 1) = Command(37, 54, <<0, 0, 60, 1>>)
    BY ONLY SMT DEF PermitJoinReq
  <2>2. Plain(<<PermitJoinReq(60, 1), <<0, 0, 60, 1>>>>, 37, 54, <<0, 0, 60, 1>>, 4)
    BY ONLY <1>1, <1>2, <2>1, DataSized, Zenon DEF Plain
  <2>3. QED
    BY ONLY <2>2, PlainTells
<1>15. Tells(<<StartupFromAppReq, <<0, 0>>>>)
  <2>1. StartupFromAppReq = Command(37, 64, <<0, 0>>)
    BY ONLY SMT DEF StartupFromAppReq
  <2>2. Plain(<<StartupFromAppReq, <<0, 0>>>>, 37, 64, <<0, 0>>, 2)
    BY ONLY <1>1, <1>2, <2>1, DataSized, Zenon DEF Plain
  <2>3. QED
    BY ONLY <2>2, PlainTells
<1>16. Tells(<<mtUtilAssocGetWithAddress(258), <<2, 1, 0, 0, 0, 0, 0, 0, 0, 0>>>>)
  <2>1. mtUtilAssocGetWithAddress(258) = Command(39, 74, <<2, 1, 0, 0, 0, 0, 0, 0, 0, 0>>)
    BY ONLY AssocBytes, Zenon DEF mtUtilAssocGetWithAddress
  <2>2. Plain(<<mtUtilAssocGetWithAddress(258), <<2, 1, 0, 0, 0, 0, 0, 0, 0, 0>>>>, 39, 74, <<2, 1, 0, 0, 0, 0, 0, 0, 0, 0>>, 10)
    BY ONLY <1>1, <1>2, <2>1, DataSized, Zenon DEF Plain
  <2>3. QED
    BY ONLY <2>2, PlainTells
<1>17. Tells(<<mtUtilGetAssocCount, <<0, Junk>>>>)
  <2>1. mtUtilGetAssocCount = Command(39, 72, <<0, Junk>>)
    BY ONLY SMT DEF mtUtilGetAssocCount
  <2>2. Plain(<<mtUtilGetAssocCount, <<0, Junk>>>>, 39, 72, <<0, Junk>>, 2)
    BY ONLY <1>1, <1>2, <2>1, DataSized, Zenon DEF Plain
  <2>3. QED
    BY ONLY <2>2, PlainTells
<1>18. Tells(<<mtUtilAssocFindDevice(3), <<3>>>>)
  <2>1. mtUtilAssocFindDevice(3) = Command(39, 73, <<3>>)
    BY ONLY SMT DEF mtUtilAssocFindDevice
  <2>2. Plain(<<mtUtilAssocFindDevice(3), <<3>>>>, 39, 73, <<3>>, 1)
    BY ONLY <1>1, <1>2, <2>1, DataSized, Zenon DEF Plain
  <2>3. QED
    BY ONLY <2>2, PlainTells
<1>19. Tells(<<mtUtilGetDeviceInfo, << >>>>)
  <2>1. mtUtilGetDeviceInfo = Command(39, 0, << >>)
    BY ONLY SMT DEF mtUtilGetDeviceInfo
  <2>2. Plain(<<mtUtilGetDeviceInfo, << >>>>, 39, 0, << >>, 0)
    BY ONLY <1>1, <1>2, <2>1, DataSized, Zenon DEF Plain
  <2>3. QED
    BY ONLY <2>2, PlainTells
<1>20. Tells(<<GetNvInfoReq, << >>>>)
  <2>1. GetNvInfoReq = Command(39, 1, << >>)
    BY ONLY SMT DEF GetNvInfoReq
  <2>2. Plain(<<GetNvInfoReq, << >>>>, 39, 1, << >>, 0)
    BY ONLY <1>1, <1>2, <2>1, DataSized, Zenon DEF Plain
  <2>3. QED
    BY ONLY <2>2, PlainTells
<1>21. Tells(<<mtUtilAddrmgrNwkAddrLookup(772), <<4, 3>>>>)
  <2>1. mtUtilAddrmgrNwkAddrLookup(772) = Command(39, 65, <<4, 3>>)
    BY ONLY <1>4, SMT DEF mtUtilAddrmgrNwkAddrLookup
  <2>2. Plain(<<mtUtilAddrmgrNwkAddrLookup(772), <<4, 3>>>>, 39, 65, <<4, 3>>, 2)
    BY ONLY <1>1, <1>2, <2>1, DataSized, Zenon DEF Plain
  <2>3. QED
    BY ONLY <2>2, PlainTells
<1>22. Tells(<<zcdStartupOptions(3), <<3, 0, 0, 1, 3>>>>)
  <2>1. zcdStartupOptions(3) = Command(33, 9, <<3, 0, 0, 1, 3>>)
    BY ONLY <1>5, NvBytes, Zenon DEF zcdStartupOptions
  <2>2. Plain(<<zcdStartupOptions(3), <<3, 0, 0, 1, 3>>>>, 33, 9, <<3, 0, 0, 1, 3>>, 5)
    BY ONLY <1>1, <1>2, <2>1, DataSized, Zenon DEF Plain
  <2>3. QED
    BY ONLY <2>2, PlainTells
<1>23. Tells(<<OsalNvRead(NIB, 0), <<33, 0, 0>>>>)
  <2>1. OsalNvRead(NIB, 0) = Command(33, 8, <<33, 0, 0>>)
    BY ONLY NvBytes, Zenon DEF OsalNvRead, NIB
  <2>2. Plain(<<OsalNvRead(NIB, 0), <<33, 0, 0>>>>, 33, 8, <<33, 0, 0>>, 3)
    BY ONLY <1>1, <1>2, <2>1, DataSized, Zenon DEF Plain
  <2>3. QED
    BY ONLY <2>2, PlainTells
<1> DEFINE a == <<mt_sysping_req, << >>>>
           b == <<mt_sys_wdtkick_req, << >>>>
           d == <<mt_getextaddr_req, << >>>>
           e == <<mt_sysreset_req, << >>>>
           f == <<register_endpoint_TI(11, 260, 513, 2), <<11, 4, 1, 1, 2, 2, 0, 0, 0>>>>
           g == <<register_interpan_cb_TI(12), <<2, 12>>>>
           h == <<interPanSet(25), <<1, 25>>>>
           i == <<intraPanSet, <<0>>>>
           j == <<PermitJoinReq(60, 1), <<0, 0, 60, 1>>>>
           k == <<StartupFromAppReq, <<0, 0>>>>
           l == <<mtUtilAssocGetWithAddress(258), <<2, 1, 0, 0, 0, 0, 0, 0, 0, 0>>>>
           m == <<mtUtilGetAssocCount, <<0, Junk>>>>
           n == <<mtUtilAssocFindDevice(3), <<3>>>>
           o == <<mtUtilGetDeviceInfo, << >>>>
           p == <<GetNvInfoReq, << >>>>
           q == <<mtUtilAddrmgrNwkAddrLookup(772), <<4, 3>>>>
           r == <<zcdStartupOptions(3), <<3, 0, 0, 1, 3>>>>
           s == <<OsalNvRead(NIB, 0), <<33, 0, 0>>>>
<1>24. c \in {a, b, d, e, f, g, h, i, j, k, l, m, n, o, p, q, r, s}
  BY ONLY c \in Simple, Zenon DEF Simple
<1>25. /\ Tells(a) /\ Tells(b) /\ Tells(d) /\ Tells(e) /\ Tells(f) /\ Tells(g)
       /\ Tells(h) /\ Tells(i) /\ Tells(j) /\ Tells(k) /\ Tells(l) /\ Tells(m)
       /\ Tells(n) /\ Tells(o) /\ Tells(p) /\ Tells(q) /\ Tells(r) /\ Tells(s)
  BY ONLY <1>6, <1>7, <1>8, <1>9, <1>10, <1>11, <1>12, <1>13, <1>14, <1>15, <1>16, <1>17, <1>18, <1>19, <1>20, <1>21, <1>22, <1>23
<1> HIDE DEF a, b, d, e, f, g, h, i, j, k, l, m, n, o, p, q, r, s
<1>26. QED
  BY ONLY <1>24, <1>25

-----------------------------------------------------------------------------
(* What is heard is not a frame refused. *)
LEMMA NotRefused ==
  ASSUME NEW type, NEW id, NEW b, NEW h, h = [type |-> type, id |-> id, data |-> b]
  PROVE  h # Refused
<1>1. "type" \in DOMAIN h
  OBVIOUS
<1>2. "type" \notin DOMAIN Refused
  BY ONLY DEF Refused
<1>3. QED
  BY ONLY <1>1, <1>2

(* OsalNvWrite() of as many bytes as it lets through: the coordinator finds  *)
(* them behind the four bytes that say where they go.                        *)
LEMMA WriteHeard ==
  ASSUME NEW n \in Nat, OsalNvWrite(NIB, 0, Asdu(n)) # Refused,
         NEW h, h = Sent(OsalNvWrite(NIB, 0, Asdu(n)))
  PROVE  h # Refused /\ SubSeq(h.data, 5, 4 + n) = Asdu(n)
<1>1. PICK v : v = Asdu(n)
  OBVIOUS
<1>2. Sized(v, n)
  BY ONLY <1>1, AsduType, n \in Nat
<1>3. v \in Seq(Octet) /\ Len(v) = n
  BY ONLY <1>2 DEF Sized
<1>4. 1 <= n /\ n <= NvLimit
  <2>1. Len(v) \in 1 .. NvLimit
    BY ONLY <1>1, OsalNvWrite(NIB, 0, Asdu(n)) # Refused DEF OsalNvWrite
  <2>2. QED
    BY ONLY <1>3, <2>1 DEF NvLimit
<1>5. 33 \in Octet /\ 9 \in Octet /\ 0 \in Octet
  BY ONLY SMT DEF Octet
<1>6. PICK d : Writes(d, 0, v, n)
  BY ONLY <1>2, <1>4, <1>5, NvWritten, n \in Nat
<1>7. /\ OsalNvWrite(NIB, 0, v) = Command(33, 9, d) /\ Sized(d, 4 + n) /\ Has(d, 4, v)
  BY ONLY <1>6 DEF Writes
<1>8. d \in Seq(Octet) /\ Len(d) <= 252
  <2>1. d \in Seq(Octet) /\ Len(d) = 4 + n
    BY ONLY <1>7 DEF Sized
  <2>2. QED
    BY ONLY <1>4, <2>1, n \in Nat DEF NvLimit
<1>9. h = [type |-> 33, id |-> 9, data |-> d]
  <2>1. Sent(Command(33, 9, d)) = [type |-> 33, id |-> 9, data |-> d]
    BY ONLY <1>5, <1>8, SentKept
  <2>2. QED
    BY ONLY <1>1, <1>7, <2>1, h = Sent(OsalNvWrite(NIB, 0, Asdu(n)))
<1>10. SubSeq(d, 4 + 1, 4 + n) = v
  BY ONLY <1>3, <1>7, <1>8, HasFound, 4 \in Nat
<1>11. SubSeq(d, 5, 4 + n) = v
  <2>1. 4 + 1 = 5
    OBVIOUS
  <2>2. QED
    BY ONLY <1>10, <2>1
<1>12. h # Refused /\ h.data = d
  BY ONLY <1>9, NotRefused
<1>13. QED
  BY ONLY <1>1, <1>11, <1>12

(* FrameHeard: what the host sends is what the coordinator is told. *)
THEOREM FrameKept ==
  CodecSpec => []FrameHeard
<1>1. CodecInit => FrameHeard
  BY DEF CodecInit, Unused, FrameHeard
<1>2. FrameHeard /\ [UseLine]_line => FrameHeard'
  <2>1. ASSUME UseLine  PROVE FrameHeard'
    <3>1. ASSUME line'.op \notin {"af", "ext", "write", "zdp", "simple"}  PROVE FrameHeard'
      BY ONLY <3>1 DEF FrameHeard
    <3>2. ASSUME NEW n \in AsduLens, SendMessage(n)  PROVE FrameHeard'
      <4>1. PICK h : h = Sent(MT_AfDataRequest(Object(KrAf, KrAfAsdu, Message(n), APDUSetters)))
        OBVIOUS
      <4>2. line' = [op |-> "af", n |-> n, heard |-> h]
        BY ONLY <3>2, <4>1 DEF SendMessage
      <4>3. ASSUME n <= AfLimit
            PROVE  h # Refused /\ h.type = 36 /\ h.id = 1
                   /\ Carries(KrAf, KrAfAsdu, h.data, Message(n))
        <5>1. n \in Octet /\ n <= 242
          <6>1. n \in Nat
            BY CodecAssumption DEF Word
          <6>2. QED
            BY ONLY <4>3, <6>1 DEF AfLimit, Octet
        <5>2. AfFits(Message(n), n)
          BY ONLY <5>1, MessageFits
        <5>3. PICK b : h = [type |-> 36, id |-> 1, data |-> b]
                       /\ Carries(KrAf, KrAfAsdu, b, Message(n))
          BY ONLY <4>1, <5>1, <5>2, AfHeard
        <5>4. QED
          BY ONLY <5>3, NotRefused
      <4>4. line'.op = "af" /\ line'.n = n /\ line'.heard = h
        BY ONLY <4>2
      <4>5. QED
        BY ONLY <4>3, <4>4 DEF FrameHeard
    <3>3. ASSUME NEW n \in AsduLens, SendMessageExt(n)  PROVE FrameHeard'
      <4>1. PICK h : h = Sent(DataRequestExt(
                                Object(KrAfExt, KrAfExtAsdu, MessageExt(n), ExtSetters)))
        OBVIOUS
      <4>2. line' = [op |-> "ext", n |-> n, heard |-> h]
        BY ONLY <3>3, <4>1 DEF SendMessageExt
      <4>3. ASSUME n <= AfExtLimit
            PROVE  h # Refused /\ h.type = 36 /\ h.id = 2
                   /\ Carries(KrAfExt, KrAfExtAsdu, h.data, MessageExt(n))
        <5>1. n \in Octet /\ n <= 231
          <6>1. n \in Nat
            BY CodecAssumption DEF Word
          <6>2. QED
            BY ONLY <4>3, <6>1 DEF AfExtLimit, Octet
        <5>2. ExtFits(MessageExt(n), n)
          BY ONLY <5>1, MessageFits
        <5>3. PICK b : h = [type |-> 36, id |-> 2, data |-> b]
                       /\ Carries(KrAfExt, KrAfExtAsdu, b, MessageExt(n))
          BY ONLY <4>1, <5>1, <5>2, ExtHeard
        <5>4. QED
          BY ONLY <5>3, NotRefused
      <4>4. line'.op = "ext" /\ line'.n = n /\ line'.heard = h
        BY ONLY <4>2
      <4>5. QED
        BY ONLY <4>3, <4>4 DEF FrameHeard
    <3>4. ASSUME NEW n \in AsduLens, WriteItem(n)  PROVE FrameHeard'
      <4>1. PICK h : h = Sent(OsalNvWrite(NIB, 0, Asdu(n)))
        OBVIOUS
      <4>2. line' = [op |-> "write", n |-> n, heard |-> h] /\ OsalNvWrite(NIB, 0, Asdu(n)) # Refused
        BY ONLY <3>4, <4>1 DEF WriteItem
      <4>3. n \in Nat
        BY CodecAssumption DEF Word
      <4>4. h # Refused /\ SubSeq(h.data, 5, 4 + n) = Asdu(n)
        BY ONLY <4>1, <4>2, <4>3, WriteHeard
      <4>5. line'.op = "write" /\ line'.n = n /\ line'.heard = h
        BY ONLY <4>2
      <4>6. QED
        BY ONLY <4>4, <4>5 DEF FrameHeard
    <3>5. ASSUME NEW x \in Ints, NEW m \in Requests(x), SendRequest(m)  PROVE FrameHeard'
      <4>1. PICK h : h = Sent(MT_AfDataRequest(Object(KrAf, KrAfAsdu, m, APDUSetters)))
        OBVIOUS
      <4>2. line' = [op |-> "zdp", message |-> m, heard |-> h]
        BY ONLY <3>5, <4>1 DEF SendRequest
      <4>3. x \in Word
        BY CodecAssumption
      <4>4. PICK n \in Octet : n <= 242 /\ AfFits(m, n)
        BY ONLY <4>3, RequestFits, m \in Requests(x)
      <4>5. PICK b : h = [type |-> 36, id |-> 1, data |-> b] /\ Carries(KrAf, KrAfAsdu, b, m)
        BY ONLY <4>1, <4>4, AfHeard
      <4>6. h.data = b
        BY ONLY <4>5
      <4>7. line'.op = "zdp" /\ line'.message = m /\ line'.heard = h
        BY ONLY <4>2
      <4>8. QED
        BY ONLY <4>5, <4>6, <4>7 DEF FrameHeard
    <3>6. ASSUME NEW c \in Simple, SendSimple(c)  PROVE FrameHeard'
      <4>1. PICK h : h = Sent(c[1])
        OBVIOUS
      <4>2. line' = [op |-> "simple", command |-> c[1], data |-> c[2], heard |-> h]
        BY ONLY <3>6, <4>1 DEF SendSimple
      <4>3. h = [type |-> c[1].type, id |-> c[1].id, data |-> c[2]]
        BY ONLY <4>1, SimpleTells, c \in Simple DEF Tells
      <4>4. line'.op = "simple" /\ line'.command = c[1] /\ line'.data = c[2] /\ line'.heard = h
        BY ONLY <4>2
      <4>5. QED
        BY ONLY <4>3, <4>4 DEF FrameHeard
    <3>7. line'.op \in {"af", "ext", "write", "zdp", "simple"} =>
            \/ \E n \in AsduLens : SendMessage(n)
            \/ \E n \in AsduLens : SendMessageExt(n)
            \/ \E n \in AsduLens : WriteItem(n)
            \/ \E x \in Ints : \E m \in Requests(x) : SendRequest(m)
            \/ \E c \in Simple : SendSimple(c)
      BY ONLY <2>1, OpOf
    <3>8. QED
      BY ONLY <3>1, <3>2, <3>3, <3>4, <3>5, <3>6, <3>7, Zenon
  <2>2. ASSUME FrameHeard, line' = line  PROVE FrameHeard'
    BY ONLY <2>2 DEF FrameHeard
  <2>3. QED
    BY ONLY <2>1, <2>2
<1>3. QED
  BY <1>1, <1>2, PTL DEF CodecSpec
-----------------------------------------------------------------------------
(* The archived answer of a device that lists the endpoint e lists it still. *)
LEMMA ActiveEpKept ==
  ASSUME HighFirst, NEW e \in 0 .. 255
  PROVE  e \in ToSet(ActiveEps(hexStrToByteVec(kByteToHexString(ActiveEpApdu(<<e>>)))))
<1> DEFINE b == ActiveEpApdu(<<e>>)
           v == hexStrToByteVec(kByteToHexString(b))
<1>1. b \in Seq(0 .. 255) /\ Len(b) = 2 /\ b[1] = 1 /\ b[2] = e
  BY DEF ActiveEpApdu
<1> HIDE DEF b
<1>2. v[1] = 1 /\ v[2] = e
  BY <1>1, HexKept
<1> HIDE DEF v
<1>3. SubSeq(v, 2, 2) \in Seq({e}) /\ Len(SubSeq(v, 2, 2)) = 1 /\ SubSeq(v, 2, 2)[1] = e
  <2>1. \A i \in 2 .. 2 : v[i] \in {e}
    BY <1>2
  <2>2. QED
    BY <1>2, <2>1, SubSeqProperties
<1>4. 1 \in DOMAIN SubSeq(v, 2, 2)
  BY <1>3
<1>5. ActiveEps(v) = SubSeq(v, 2, 2)
  BY <1>2 DEF ActiveEps
<1>6. e \in ToSet(ActiveEps(v))
  BY <1>3, <1>4, <1>5 DEF ToSet
<1>7. QED
  BY <1>6 DEF v, b

(* The walk over this device's endpoints ends at one that fits, if any does.*)
LEMMA ChosenTrue ==
  ASSUME locals \in Seq(LocalEps), NEW d
  PROVE  /\ Chosen(d).joined \in BOOLEAN
         /\ Chosen(d).joined =>
              /\ Chosen(d).peer \in DOMAIN locals
              /\ locals[Chosen(d).peer].profile = d.profile
              /\ locals[Chosen(d).peer].out \cap d.in # {}
         /\ ~Chosen(d).joined => \A l \in ToSet(locals) :
              ~ (l.profile = d.profile /\ l.out \cap d.in # {})
<1> DEFINE same == {i \in DOMAIN locals : locals[i].profile = d.profile}
           fits == {i \in same : locals[i].out \cap d.in # {}}
<1>1. /\ Chosen(d).joined = (fits # {})
      /\ fits # {} => Chosen(d).peer = Min(fits)
  BY DEF Chosen
<1>2. fits \in SUBSET Nat
  BY InList
<1>3. fits # {} => Min(fits) \in fits
  <2> HIDE DEF fits
  <2>1. QED
    BY <1>2, MinIn
<1>4. QED
  BY <1>1, <1>3 DEF ToSet
-----------------------------------------------------------------------------
(* Objects and endpoints that are looked up *)

(* A new object is free, and an old one has the address it is found by. *)
LEMMA PlacesTrue ==
  ASSUME PeerTypes, DevicesInv, NEW field \in {"ieee", "addr"}, NEW x,
         NEW o \in Places(field, x)
  PROVE  /\ o \in Objs
         /\ \/ object[o] = Freed
            \/ (object[o][field] = x /\ o \in ToSet(assocs))
         /\ Endpoints(o) = object[o].eps
<1> DEFINE hits == {i \in DOMAIN assocs : object[assocs[i]][field] = x}
<1>1. hits \in SUBSET Nat /\ \A i \in DOMAIN assocs : assocs[i] \in Objs /\ assocs[i] \in ToSet(assocs)
  BY InList DEF PeerTypes, ToSet
<1>2. CASE hits # {}
  <2>1. o = assocs[Min(hits)]
    BY <1>2 DEF Places
  <2>2. Min(hits) \in hits
    <3> HIDE DEF hits
    <3>1. QED
      BY <1>1, <1>2, MinIn
  <2>3. QED
    BY <1>1, <2>1, <2>2 DEF Endpoints
<1>3. CASE hits = {}
  <2>1. o \in Objs /\ object[o] = Freed
    BY <1>3 DEF Places
  <2>2. o \notin ToSet(assocs)
    BY <2>1 DEF DevicesInv
  <2>3. Freed.eps = << >>
    BY DEF Freed
  <2>4. QED
    BY <2>1, <2>2, <2>3 DEF Endpoints
<1>4. QED
  BY <1>2, <1>3

(* The list of devices with one more, if it is not there. *)
LEMMA EnteredTrue ==
  ASSUME PeerTypes, NEW o \in Objs
  PROVE  /\ Entered(o) \in Seq(Objs) /\ Entered(o) # << >>
         /\ ToSet(Entered(o)) = {o} \cup ToSet(assocs)
<1>1. assocs \in Seq(Objs)
  BY DEF PeerTypes
<1>2. CASE o \in ToSet(assocs)
  <2>1. assocs # << >>
    BY <1>1, <1>2, InList
  <2>2. QED
    BY <1>1, <1>2, <2>1 DEF Entered
<1>3. CASE o \notin ToSet(assocs)
  BY <1>1, <1>3, InFront DEF Entered
<1>4. QED
  BY <1>2, <1>3

(* This device's endpoints with one more, if it is not there. *)
LEMMA FoundTrue ==
  ASSUME PeerTypes, NEW i \in Nat, locals' = Found(i)
  PROVE  /\ locals' \in Seq(LocalEps)
         /\ ToSet(locals') \subseteq {Blank(i)} \cup ToSet(locals)
         /\ ToSet(locals) \subseteq ToSet(locals')
         /\ \E l \in ToSet(locals') : l.id = i
<1>1. locals \in Seq(LocalEps)
  BY DEF PeerTypes
<1>2. CASE EndpointExist(i)
  BY <1>1, <1>2 DEF Found, EndpointExist
<1>3. CASE ~EndpointExist(i)
  <2>1. Blank(i) \in LocalEps /\ Blank(i).id = i
    BY DEF Blank, LocalEps
  <2>2. locals' = <<Blank(i)>> \o locals
    BY <1>3 DEF Found
  <2> HIDE DEF Blank
  <2>3. QED
    BY <1>1, <2>1, <2>2, InFront
<1>4. QED
  BY <1>2, <1>3

(* More of this device's endpoints, blank ones. *)
LEMMA MoreLocals ==
  ASSUME PeerTypes, LocalsInv, NEW i \in Nat, locals' = Found(i),
         UNCHANGED <<loaded, got>>, zdo' => loaded = Apps
  PROVE  LocalsInv'
<1>1. \A l \in ToSet(locals') : l \in ToSet(locals) \/ l = Blank(l.id)
  <2>1. Blank(i) = Blank(Blank(i).id)
    BY DEF Blank
  <2>2. QED
    BY <2>1, FoundTrue
<1>2. \A l \in ToSet(locals') : l = Blank(l.id) \/ \E a \in loaded : l = AppEntry(a)
  BY <1>1 DEF LocalsInv
<1>3. ToSet(locals) \subseteq ToSet(locals')
  BY FoundTrue
<1>4. \A a \in loaded : AppEntry(a)' = AppEntry(a)
  BY DEF AppEntry
<1>5. QED
  BY <1>2, <1>3, <1>4 DEF LocalsInv, EndpointExist
-----------------------------------------------------------------------------
(* The steps *)

(* A step that pairs endpoint e of object o, which is at n. *)
LEMMA PairStep ==
  ASSUME PeerInv, zdo, NEW o \in Objs, NEW n \in Addrs, NEW e, NEW d, NEW ep,
         object[o] = Freed \/ object[o].addr = n,
         object' = [p \in Objs |-> object'[p]],
         object'[o].addr = n,
         e \in DOMAIN object'[o].eps, object'[o].eps[e] = Paired(ep, d),
         \A k \in DOMAIN object[o].eps :
           /\ k \in DOMAIN object'[o].eps
           /\ k # e => object'[o].eps[k] = object[o].eps[k],
         \A p \in Objs : p # o => object'[p] = object[p],
         uri' = Handlers(o, n, d), told' = News(o, n, e, d),
         UNCHANGED <<got, zdo>>
  PROVE  /\ uri' \in [Addrs -> Objs \cup {None}]
         /\ told' = [p \in Objs |-> told'[p]]
         /\ NewsInv'
<1> DEFINE c == Chosen(d)
           x == IF c.joined THEN locals[c.peer].id ELSE None
<1>0. locals \in Seq(LocalEps)
  BY DEF PeerInv, PeerTypes
<1>1. /\ c.joined \in BOOLEAN
      /\ c.joined => /\ c.peer \in DOMAIN locals
                     /\ locals[c.peer].profile = d.profile
                     /\ locals[c.peer].out \cap d.in # {}
      /\ ~c.joined => \A l \in ToSet(locals) : ~ (l.profile = d.profile /\ l.out \cap d.in # {})
  BY <1>0, ChosenTrue
<1>2. Paired(ep, d).desc = d /\ (c.joined => Paired(ep, d).peer = x)
  <2>1. c.joined => c.peer # 0
    BY <1>0, <1>1, InList
  <2> HIDE DEF c
  <2>2. Paired(ep, d) = [desc |-> d,
           peer |-> IF c.peer = 0 THEN ep.peer ELSE locals[c.peer].id,
           attrs |-> ep.attrs \cup (IF c.joined THEN Established(d.in) ELSE {})]
    BY DEF Paired, c
  <2>3. QED
    BY <2>1, <2>2
<1>3. c.joined => \E a \in Apps : got[a] = x /\ Fits(a, d) /\ x # None
  <2> HIDE DEF c
  <2> SUFFICES ASSUME c.joined  PROVE \E a \in Apps : got[a] = x /\ Fits(a, d) /\ x # None
    OBVIOUS
  <2>1. locals[c.peer] \in ToSet(locals)
    BY <1>1 DEF ToSet
  <2>2. locals[c.peer] # Blank(locals[c.peer].id)
    <3>1. Blank(locals[c.peer].id).out = {}
      BY DEF Blank
    <3>2. QED
      BY <1>1, <3>1
  <2>3. PICK a \in loaded : locals[c.peer] = AppEntry(a)
    BY <2>1, <2>2 DEF PeerInv, LocalsInv
  <2>4. AppEntry(a).id = got[a] /\ AppEntry(a).profile = AppDesc[a].profile
        /\ AppEntry(a).out = AppDesc[a].out
    BY DEF AppEntry
  <2>5. a \in Apps /\ got[a] # None
    BY DEF PeerInv, PeerTypes, LocalsInv
  <2>6. QED
    BY <1>1, <2>3, <2>4, <2>5 DEF Fits
<1>4. ~c.joined => \A a \in Apps : Fits(a, d) => \E b \in Apps \ {a} : got[b] = got[a]
  <2> HIDE DEF c
  <2> SUFFICES ASSUME ~c.joined, NEW a \in Apps, Fits(a, d)
               PROVE  \E b \in Apps \ {a} : got[b] = got[a]
    OBVIOUS
  <2>1. a \in loaded /\ loaded \subseteq Apps
    BY DEF PeerInv, PeerTypes, LocalsInv
  <2>2. PICK b \in loaded : got[b] = got[a] /\ AppEntry(b) \in ToSet(locals)
    BY <2>1 DEF PeerInv, LocalsInv
  <2>3. AppEntry(b).profile = AppDesc[b].profile /\ AppEntry(b).out = AppDesc[b].out
    BY DEF AppEntry
  <2>4. b # a
    BY <1>1, <2>2, <2>3 DEF Fits
  <2>5. QED
    BY <2>1, <2>2, <2>4
<1>5. uri' = (IF c.joined THEN [uri EXCEPT ![n] = o] ELSE uri)
  BY DEF Handlers
<1>6. uri' \in [Addrs -> Objs \cup {None}]
  <2> HIDE DEF c
  <2>1. QED
    BY <1>5 DEF PeerInv, PeerTypes
<1>7. /\ told' = [p \in Objs |-> told'[p]]
      /\ told'[o] = Noted(told[o], e, x)
      /\ \A p \in Objs : p # o =>
           told'[p] = IF c.joined /\ object[p].addr = n THEN << >> ELSE told[p]
  <2>1. told' = IF c.joined
                THEN [OutOfDate(o, n) EXCEPT ![o] = Noted(@, e, x)]
                ELSE [told EXCEPT ![o] = Noted(@, e, x)]
    <3>1. told' = IF c.joined
                  THEN [OutOfDate(o, n) EXCEPT ![o] = Noted(@, e, locals[c.peer].id)]
                  ELSE [told EXCEPT ![o] = Noted(@, e, None)]
      BY DEF News
    <3> HIDE DEF c
    <3>2. QED
      BY <3>1
  <2> HIDE DEF c, x
  <2>2. OutOfDate(o, n) = [p \in Objs |-> IF p # o /\ object[p].addr = n THEN << >> ELSE told[p]]
    BY DEF OutOfDate
  <2>3. told = [p \in Objs |-> told[p]]
    BY DEF PeerInv, PeerTypes
  <2>4. CASE c.joined
    BY <2>1, <2>2, <2>4
  <2>5. CASE ~c.joined
    BY <2>1, <2>3, <2>5
  <2>6. QED
    BY <2>4, <2>5
<1>8. /\ DOMAIN told'[o] = DOMAIN told[o] \cup {e}
      /\ told'[o][e] = x
      /\ \A k \in DOMAIN told[o] : k # e => told'[o][k] = told[o][k]
  <2>1. Noted(told[o], e, x) =
          [k \in DOMAIN told[o] \cup {e} |-> IF k = e THEN x ELSE told[o][k]]
    BY DEF Noted
  <2> HIDE DEF x
  <2>2. QED
    BY <1>7, <2>1
<1> HIDE DEF c
<1>9. ASSUME NEW k \in DOMAIN told'[o]
      PROVE  k \in DOMAIN object'[o].eps /\ zdo' /\ HeardOf(o, k)'
  <2>1. CASE k = e
    <3>1. object'[o].eps[k].desc = d
      BY <1>2, <2>1
    <3>2. CASE c.joined
      <4>1. told'[o][k] = x /\ x # None
        BY <1>3, <1>8, <2>1, <3>2
      <4>2. uri'[n] = o
        BY <1>5, <3>2 DEF PeerInv, PeerTypes
      <4>3. object'[o].eps[k].peer = x
        BY <1>2, <2>1, <3>2
      <4> HIDE DEF x
      <4>4. QED
        BY <1>3, <2>1, <3>1, <3>2, <4>1, <4>2, <4>3 DEF HeardOf
    <3>3. CASE ~c.joined
      <4>1. told'[o][k] = None
        BY <1>8, <2>1, <3>3
      <4>2. QED
        BY <1>4, <2>1, <3>1, <3>3, <4>1 DEF HeardOf
    <3>4. QED
      BY <1>1, <3>2, <3>3
  <2>2. CASE k # e
    <3>1. k \in DOMAIN told[o] /\ told'[o][k] = told[o][k]
      BY <1>8, <2>2
    <3>2. k \in DOMAIN object[o].eps /\ HeardOf(o, k)
      BY <3>1 DEF PeerInv, NewsInv
    <3>3. object'[o].eps[k] = object[o].eps[k] /\ k \in DOMAIN object'[o].eps
      BY <2>2, <3>2
    <3>4. object[o].addr = n
      <4>1. DOMAIN Freed.eps = {}
        BY DEF Freed
      <4>2. QED
        BY <3>2, <4>1
    <3>5. uri[n] = o => uri'[n] = o
      BY <1>5 DEF PeerInv, PeerTypes
    <3>6. QED
      BY <3>1, <3>2, <3>3, <3>4, <3>5 DEF HeardOf
  <2>3. QED
    BY <2>1, <2>2
<1>10. ASSUME NEW p \in Objs, p # o, NEW k \in DOMAIN told'[p]
       PROVE  k \in DOMAIN object'[p].eps /\ zdo' /\ HeardOf(p, k)'
  <2>1. told'[p] = told[p] /\ ~ (c.joined /\ object[p].addr = n)
    <3>1. DOMAIN << >> = {}
      OBVIOUS
    <3>2. QED
      BY <1>7, <1>10, <3>1
  <2>2. k \in DOMAIN object[p].eps /\ HeardOf(p, k)
    BY <1>10, <2>1 DEF PeerInv, NewsInv
  <2>3. object'[p] = object[p]
    BY <1>10
  <2>4. uri'[object[p].addr] = uri[object[p].addr]
    BY <1>5, <2>1 DEF PeerInv, PeerTypes
  <2>5. QED
    BY <2>1, <2>2, <2>3, <2>4 DEF HeardOf
<1>11. NewsInv'
  BY <1>9, <1>10 DEF NewsInv
<1>12. QED
  BY <1>6, <1>7, <1>11
(* Nothing is loaded, and no device is known. *)
LEMMA PeersInitInv == PeersInit => PeerInv
<1> SUFFICES ASSUME PeersInit  PROVE PeerInv
  OBVIOUS
<1>1. PeerTypes
  <2>1. archive \in Seq(Entries)
    BY PeersAssumption DEF PeersInit, Entries
  <2>2. locals \in Seq(LocalEps) /\ assocs \in Seq(Objs)
    BY DEF PeersInit
  <2>3. /\ got \in [Apps -> Nat \cup {None}] /\ uri \in [Addrs -> Objs \cup {None}]
        /\ told = [o \in Objs |-> told[o]]
    BY DEF PeersInit
  <2>4. object = [o \in Objs |-> object[o]] /\ \A o \in Objs : Device(object[o])
    BY DEF PeersInit, Device
  <2>5. QED
    BY <2>1, <2>2, <2>3, <2>4 DEF PeersInit, PeerTypes
<1>2. ToSet(locals) = {} /\ ToSet(assocs) = {}
  BY DEF PeersInit, ToSet
<1>3. LocalsInv
  BY <1>2 DEF PeersInit, LocalsInv
<1>4. DevicesInv
  BY <1>2 DEF PeersInit, DevicesInv
<1>5. NewsInv
  <2>1. \A o \in Objs : DOMAIN told[o] = {}
    BY DEF PeersInit
  <2>2. QED
    BY <2>1 DEF NewsInv
<1>6. QED
  BY <1>1, <1>3, <1>4, <1>5 DEF PeerInv

(* The ids that newEndpoint() can settle on. *)
LEMMA IdForNat ==
  ASSUME NEW a \in Apps
  PROVE  IdFor(AskedId[a]) \in Nat
<1> DEFINE free == {j \in 1 .. LastId : ~EndpointExist(j)}
<1>1. free \in SUBSET Nat /\ AskedId[a] \in Nat /\ SpareId \in Nat
  BY PeersAssumption
<1>2. free # {} => Min(free) \in Nat
  <2> HIDE DEF free
  <2>1. QED
    BY <1>1, MinIn
<1>3. IdFor(AskedId[a]) = IF ~EndpointExist(AskedId[a]) THEN AskedId[a]
                          ELSE IF free # {} THEN Min(free) ELSE SpareId
  BY DEF IdFor
<1>4. QED
  BY <1>1, <1>2, <1>3

(* The steps that only this device's endpoints see: while an application    *)
(* is being loaded nothing is known of other devices.                       *)
LEMMA LocalStep ==
  ASSUME PeerInv,
         \/ \E a \in Apps : NewEndpoint(a) \/ Describe(a)
         \/ \E i \in Strays : Unserved(i)
         \/ StartZDO
  PROVE  PeerInv'
<1>1. Strays \subseteq Nat
  <2>1. 0 .. 255 \subseteq Nat
    OBVIOUS
  <2>2. QED
    BY <2>1, PeersAssumption
<1> USE DEF PeerInv
<1>2. ASSUME NEW a \in Apps, NewEndpoint(a)  PROVE PeerInv'
  <2>1. /\ got[a] = None /\ got' = [got EXCEPT ![a] = IdFor(AskedId[a])]
        /\ locals' = Found(IdFor(AskedId[a]))
        /\ UNCHANGED <<loaded, zdo, archive, assocs, object, uri, told>>
    BY <1>2 DEF NewEndpoint
  <2>2. a \notin loaded /\ ~zdo
    BY <2>1 DEF LocalsInv
  <2>3. IdFor(AskedId[a]) \in Nat
    BY IdForNat
  <2>4. /\ locals' \in Seq(LocalEps)
        /\ ToSet(locals') \subseteq {Blank(IdFor(AskedId[a]))} \cup ToSet(locals)
        /\ ToSet(locals) \subseteq ToSet(locals')
        /\ \E l \in ToSet(locals') : l.id = IdFor(AskedId[a])
    BY <2>1, <2>3, FoundTrue
  <2>5. got' \in [Apps -> Nat \cup {None}] /\ got'[a] = IdFor(AskedId[a])
        /\ \A b \in Apps : b # a => got'[b] = got[b]
    BY <2>1, <2>3 DEF PeerTypes
  <2>6. PeerTypes'
    BY <2>1, <2>4, <2>5 DEF PeerTypes
  <2>7. LocalsInv'
    <3>1. \A b \in loaded : b \in Apps /\ b # a /\ got'[b] = got[b] /\ AppEntry(b)' = AppEntry(b)
      BY <2>2, <2>5 DEF AppEntry, PeerTypes
    <3>2. \A l \in ToSet(locals') : l = Blank(l.id) \/ \E b \in loaded' : l = AppEntry(b)'
      <4>1. Blank(IdFor(AskedId[a])).id = IdFor(AskedId[a])
        BY DEF Blank
      <4>2. ASSUME NEW l \in ToSet(locals)
            PROVE  l = Blank(l.id) \/ \E b \in loaded' : l = AppEntry(b)'
        BY <2>1, <3>1 DEF LocalsInv
      <4>3. QED
        BY <2>4, <4>1, <4>2
    <3>3. (\A b \in Apps : got[b] # None => EndpointExist(got[b]))'
      BY <2>4, <2>5 DEF LocalsInv, EndpointExist
    <3>4. ASSUME NEW c \in loaded
          PROVE  \E b \in loaded : got'[b] = got'[c] /\ AppEntry(b)' \in ToSet(locals')
      <4>1. PICK b \in loaded : got[b] = got[c] /\ AppEntry(b) \in ToSet(locals)
        BY DEF LocalsInv
      <4>2. QED
        BY <2>4, <3>1, <4>1
    <3>5. QED
      BY <2>1, <2>2, <3>1, <3>2, <3>3, <3>4 DEF LocalsInv
  <2>8. NewsInv'
    BY <2>1, <2>2 DEF NewsInv
  <2>9. DevicesInv'
    BY <2>1 DEF DevicesInv
  <2>10. QED
    BY <2>6, <2>7, <2>8, <2>9
<1>3. ASSUME NEW a \in Apps, Describe(a)  PROVE PeerInv'
  <2> DEFINE Filled(l) == IF l.id = got[a] THEN AppEntry(a) ELSE l
  <2>1. /\ got[a] # None /\ a \notin loaded /\ loaded' = loaded \cup {a}
        /\ locals' = [i \in DOMAIN locals |-> Filled(locals[i])]
        /\ UNCHANGED <<got, zdo, archive, assocs, object, uri, told>>
    BY <1>3 DEF Describe, AppEntry
  <2>2. ~zdo
    BY <2>1 DEF LocalsInv
  <2>3. got[a] \in Nat /\ \A b \in Apps : AppEntry(b)' = AppEntry(b) /\ AppEntry(b).id = got[b]
    BY <2>1 DEF PeerTypes, AppEntry
  <2>4. AppEntry(a) \in LocalEps
    BY <2>3 DEF AppEntry, LocalEps
  <2>5. DOMAIN locals = 1 .. Len(locals) /\ Len(locals) \in Nat
        /\ \A i \in DOMAIN locals : locals[i] \in LocalEps
    BY DEF PeerTypes
  <2> HIDE DEF Filled
  <2>6. \A i \in DOMAIN locals : Filled(locals[i]) \in LocalEps
    BY <2>4, <2>5 DEF Filled
  <2>7. locals' \in Seq(LocalEps)
    <3>1. locals' \in [1 .. Len(locals) -> LocalEps]
      BY <2>1, <2>5, <2>6
    <3>2. QED
      BY <2>5, <3>1
  <2>8. /\ \A l \in ToSet(locals) : Filled(l) \in ToSet(locals')
        /\ \A l \in ToSet(locals') : \E k \in ToSet(locals) : l = Filled(k)
    BY <2>1 DEF ToSet
  <2>9. PeerTypes'
    BY <2>1, <2>7 DEF PeerTypes
  <2>10. LocalsInv'
    <3>1. \A l \in ToSet(locals') : l = Blank(l.id) \/ \E b \in loaded' : l = AppEntry(b)'
      <4> SUFFICES ASSUME NEW l \in ToSet(locals)
                   PROVE  \/ Filled(l) = Blank(Filled(l).id)
                          \/ \E b \in loaded' : Filled(l) = AppEntry(b)'
        BY <2>8
      <4>1. CASE l.id = got[a]
        BY <2>1, <2>3, <4>1 DEF Filled
      <4>2. CASE l.id # got[a]
        <5>1. Filled(l) = l
          BY <4>2 DEF Filled
        <5>2. l = Blank(l.id) \/ \E b \in loaded : l = AppEntry(b)
          BY DEF LocalsInv
        <5>3. loaded \subseteq loaded' /\ loaded \subseteq Apps
          BY <2>1 DEF PeerTypes
        <5>4. QED
          BY <2>3, <5>1, <5>2, <5>3
      <4>3. QED
        BY <4>1, <4>2
    <3>2. \A l \in ToSet(locals) : Filled(l).id = l.id
      BY <2>3 DEF Filled
    <3>3. (\A b \in Apps : got[b] # None => EndpointExist(got[b]))'
      BY <2>1, <2>8, <3>2 DEF LocalsInv, EndpointExist
    <3>4. AppEntry(a) \in ToSet(locals')
      <4>1. PICK l \in ToSet(locals) : l.id = got[a]
        BY <2>1 DEF LocalsInv, EndpointExist
      <4>2. Filled(l) = AppEntry(a)
        BY <4>1 DEF Filled
      <4>3. QED
        BY <2>8, <4>2
    <3>5. ASSUME NEW c \in loaded'
          PROVE  \E b \in loaded' : got[b] = got[c] /\ AppEntry(b) \in ToSet(locals')
      <4>1. CASE got[c] = got[a]
        BY <2>1, <3>4, <4>1
      <4>2. CASE got[c] # got[a]
        <5>1. PICK b \in loaded : got[b] = got[c] /\ AppEntry(b) \in ToSet(locals)
          BY <2>1, <4>2 DEF LocalsInv
        <5>2. Filled(AppEntry(b)) = AppEntry(b) /\ b \in loaded'
          BY <2>1, <2>3, <4>2, <5>1 DEF Filled, PeerTypes
        <5>3. QED
          BY <2>8, <5>1, <5>2
      <4>3. QED
        BY <4>1, <4>2
    <3>6. \A b \in loaded' : b \in Apps /\ got'[b] # None
      BY <2>1 DEF LocalsInv, PeerTypes
    <3>7. QED
      BY <2>1, <2>2, <2>3, <3>1, <3>3, <3>5, <3>6 DEF LocalsInv
  <2>11. NewsInv'
    BY <2>1, <2>2 DEF NewsInv
  <2>12. DevicesInv'
    BY <2>1 DEF DevicesInv
  <2>13. QED
    BY <2>9, <2>10, <2>11, <2>12
<1>4. ASSUME NEW i \in Nat, locals' = Found(i), zdo => zdo', zdo' \in BOOLEAN, zdo' => loaded = Apps,
             UNCHANGED <<loaded, got, archive, assocs, object, uri, told>>
      PROVE  PeerInv'
  <2>1. locals' \in Seq(LocalEps)
    BY <1>4, FoundTrue
  <2>2. PeerTypes'
    BY <1>4, <2>1 DEF PeerTypes
  <2>3. LocalsInv'
    BY <1>4, MoreLocals
  <2>4. NewsInv'
    BY <1>4 DEF NewsInv, HeardOf
  <2>5. DevicesInv'
    BY <1>4 DEF DevicesInv
  <2>6. QED
    BY <2>2, <2>3, <2>4, <2>5
<1>5. ASSUME NEW i \in Strays, Unserved(i)  PROVE PeerInv'
  <2>1. i \in Nat
    BY <1>1
  <2>2. /\ locals' = Found(i) /\ zdo' = zdo
        /\ UNCHANGED <<loaded, got, archive, assocs, object, uri, told>>
    BY <1>5 DEF Unserved
  <2>3. zdo' \in BOOLEAN /\ (zdo' => loaded = Apps)
    BY <2>2 DEF LocalsInv, PeerTypes
  <2>4. QED
    BY <1>4, <2>1, <2>2, <2>3
<1>6. CASE StartZDO
  <2>1. /\ loaded = Apps /\ zdo' = TRUE /\ locals' = Found(0)
        /\ UNCHANGED <<loaded, got, archive, assocs, object, uri, told>>
    BY <1>6 DEF StartZDO
  <2>2. QED
    BY <1>4, <2>1
<1>7. QED
  BY <1>2, <1>3, <1>5, <1>6

(* A device that is entered is a Device object, and stays where it is. *)
LEMMA DeviceMade ==
  ASSUME PeerTypes, NEW o \in Objs, NEW v \in Devs, NEW n \in Addrs, NEW eps,
         object' = [object EXCEPT ![o] = [ieee |-> v, addr |-> n, eps |-> eps]]
  PROVE  /\ object' = [p \in Objs |-> object'[p]] /\ \A p \in Objs : Device(object'[p])
         /\ object'[o].addr = n /\ object'[o].eps = eps /\ object'[o] # Freed
         /\ \A p \in Objs : p # o => object'[p] = object[p]
<1>1. object = [p \in Objs |-> object[p]] /\ \A p \in Objs : Device(object[p])
  BY DEF PeerTypes
<1> DEFINE r == [ieee |-> v, addr |-> n, eps |-> eps]
<1>2. r.ieee = v /\ r.addr = n /\ r.eps = eps
  OBVIOUS
<1>3. Device(r)
  BY <1>2 DEF Device
<1>4. Freed.addr = None /\ None \notin Addrs
  BY PeersAssumption DEF Freed
<1>5. r # Freed
  BY <1>2, <1>4
<1> HIDE DEF r
<1>6. object' = [object EXCEPT ![o] = r]
  BY DEF r
<1>7. object' = [p \in Objs |-> IF p = o THEN r ELSE object[p]]
  BY <1>1, <1>6
<1>8. QED
  BY <1>1, <1>2, <1>3, <1>5, <1>7

(* device_annce_proc() *)
LEMMA AnnounceStep ==
  ASSUME PeerInv, NEW v \in Devs, NEW n \in Addrs, Announce(v, n)
  PROVE  PeerInv'
<1> USE DEF PeerInv
<1>1. PICK o \in Places("ieee", v) :
        /\ assocs' = Entered(o)
        /\ object' = [object EXCEPT ![o] = [ieee |-> v, addr |-> n, eps |-> Endpoints(o)]]
        /\ told' = [OutOfDate(o, n) EXCEPT ![o] = << >>]
  BY DEF Announce
<1>2. zdo /\ UNCHANGED <<loaded, got, zdo, locals, archive, uri>>
  BY DEF Announce
<1>3. o \in Objs /\ Endpoints(o) = object[o].eps
  BY PlacesTrue
<1>4. /\ assocs' \in Seq(Objs) /\ ToSet(assocs') = {o} \cup ToSet(assocs)
  BY <1>1, <1>3, EnteredTrue
<1>5. /\ object' = [p \in Objs |-> object'[p]] /\ \A p \in Objs : Device(object'[p])
      /\ object'[o] # Freed
      /\ \A p \in Objs : p # o => object'[p] = object[p]
  BY <1>1, <1>3, DeviceMade
<1>6. told' = [p \in Objs |-> IF p = o \/ object[p].addr = n THEN << >> ELSE told[p]]
  <2>1. OutOfDate(o, n) = [p \in Objs |-> IF p # o /\ object[p].addr = n THEN << >> ELSE told[p]]
    BY DEF OutOfDate
  <2>2. QED
    BY <1>1, <2>1
<1>7. PeerTypes'
  BY <1>2, <1>4, <1>5, <1>6 DEF PeerTypes
<1>8. LocalsInv'
  BY <1>2 DEF LocalsInv, AppEntry, EndpointExist
<1>9. DevicesInv'
  BY <1>2, <1>4, <1>5, InList DEF DevicesInv, PeerTypes
<1>10. NewsInv'
  <2> SUFFICES ASSUME NEW p \in Objs, NEW e \in DOMAIN told'[p]
               PROVE  e \in DOMAIN object'[p].eps /\ zdo' /\ HeardOf(p, e)'
    BY DEF NewsInv
  <2>1. p # o /\ told'[p] = told[p]
    <3>1. DOMAIN << >> = {}
      OBVIOUS
    <3>2. QED
      BY <1>6, <3>1
  <2>2. object'[p] = object[p]
    BY <1>5, <2>1
  <2>3. QED
    BY <1>2, <2>1, <2>2 DEF NewsInv, HeardOf
<1>11. QED
  BY <1>7, <1>8, <1>9, <1>10

(* active_ep_req_apdu_process() *)
LEMMA EndpointsStep ==
  ASSUME PeerInv, NEW o \in Objs, ListEndpoints(o)
  PROVE  PeerInv'
<1> USE DEF PeerInv
<1>1. o \in ToSet(assocs) /\ UNCHANGED <<loaded, got, zdo, locals, archive, assocs, uri, told>>
  BY DEF ListEndpoints
<1>2. PICK apdu : object' = [object EXCEPT ![o].eps = Listed(@, apdu)]
  BY DEF ListEndpoints
<1>3. /\ object[o] = [ieee |-> object[o].ieee, addr |-> object[o].addr, eps |-> object[o].eps]
      /\ object[o].ieee \in Devs /\ object[o].addr \in Addrs
  BY <1>1 DEF DevicesInv, PeerTypes, Device
<1> DEFINE eps == Listed(object[o].eps, apdu)
<1>4. object' = [object EXCEPT ![o] = [ieee |-> object[o].ieee, addr |-> object[o].addr, eps |-> eps]]
  <2>1. [object[o] EXCEPT !.eps = eps]
           = [ieee |-> object[o].ieee, addr |-> object[o].addr, eps |-> eps]
    <3> HIDE DEF eps
    <3>1. QED
      BY <1>3
  <2>2. object' = [object EXCEPT ![o] = [object[o] EXCEPT !.eps = eps]]
    BY <1>2
  <2>3. QED
    BY <2>1, <2>2
<1>5. \A e \in DOMAIN object[o].eps : e \in DOMAIN eps /\ eps[e] = object[o].eps[e]
  BY DEF Listed
<1> HIDE DEF eps
<1>6. /\ object' = [p \in Objs |-> object'[p]] /\ \A p \in Objs : Device(object'[p])
      /\ object'[o] # Freed /\ object'[o].addr = object[o].addr /\ object'[o].eps = eps
      /\ \A p \in Objs : p # o => object'[p] = object[p]
  BY <1>3, <1>4, DeviceMade
<1>7. PeerTypes'
  BY <1>1, <1>6 DEF PeerTypes
<1>8. LocalsInv'
  BY <1>1 DEF LocalsInv, AppEntry, EndpointExist
<1>9. DevicesInv'
  BY <1>1, <1>6, InList DEF DevicesInv, PeerTypes
<1>10. NewsInv'
  <2> SUFFICES ASSUME NEW p \in Objs, NEW e \in DOMAIN told[p]
               PROVE  e \in DOMAIN object'[p].eps /\ zdo' /\ HeardOf(p, e)'
    BY <1>1 DEF NewsInv
  <2>1. e \in DOMAIN object[p].eps /\ zdo /\ HeardOf(p, e)
    BY DEF NewsInv
  <2>2. /\ e \in DOMAIN object'[p].eps /\ object'[p].eps[e] = object[p].eps[e]
        /\ object'[p].addr = object[p].addr
    BY <1>5, <1>6, <2>1
  <2>3. QED
    BY <1>1, <2>1, <2>2 DEF HeardOf
<1>11. QED
  BY <1>7, <1>8, <1>9, <1>10

(* simple_desc_req_apdu_process() and aps_newpeer_handle() *)
LEMMA DescStep ==
  ASSUME PeerInv, NEW o \in Objs, SimpleDescRsp(o)
  PROVE  PeerInv'
<1> USE DEF PeerInv
<1>1. o \in ToSet(assocs) /\ UNCHANGED <<loaded, got, zdo, locals, archive, assocs>>
  BY DEF SimpleDescRsp
<1>2. PICK e, x : /\ e \in DOMAIN object[o].eps
                  /\ object' = [object EXCEPT ![o].eps[e] = Paired(@, x)]
                  /\ uri' = Handlers(o, object[o].addr, x)
                  /\ told' = News(o, object[o].addr, e, x)
  BY DEF SimpleDescRsp
<1>3. /\ object[o] = [ieee |-> object[o].ieee, addr |-> object[o].addr, eps |-> object[o].eps]
      /\ object[o].ieee \in Devs /\ object[o].addr \in Addrs
  BY <1>1 DEF DevicesInv, PeerTypes, Device
<1> DEFINE ep == object[o].eps[e]
           eps == [object[o].eps EXCEPT ![e] = Paired(ep, x)]
<1>4. object' = [object EXCEPT ![o] = [ieee |-> object[o].ieee, addr |-> object[o].addr, eps |-> eps]]
  <2>1. [object[o] EXCEPT !.eps = eps]
           = [ieee |-> object[o].ieee, addr |-> object[o].addr, eps |-> eps]
    <3> HIDE DEF eps
    <3>1. QED
      BY <1>3
  <2>2. object' = [object EXCEPT ![o] = [object[o] EXCEPT !.eps = eps]]
    BY <1>2
  <2>3. QED
    BY <2>1, <2>2
<1>5. /\ DOMAIN eps = DOMAIN object[o].eps /\ eps[e] = Paired(ep, x)
      /\ \A k \in DOMAIN object[o].eps : k # e => eps[k] = object[o].eps[k]
  BY <1>2
<1> HIDE DEF eps, ep
<1>6. /\ object' = [p \in Objs |-> object'[p]] /\ \A p \in Objs : Device(object'[p])
      /\ object'[o] # Freed /\ object'[o].addr = object[o].addr /\ object'[o].eps = eps
      /\ \A p \in Objs : p # o => object'[p] = object[p]
  BY <1>3, <1>4, DeviceMade
<1>7. zdo
  BY <1>1, InList DEF DevicesInv, PeerTypes
<1>8. /\ uri' \in [Addrs -> Objs \cup {None}]
      /\ told' = [p \in Objs |-> told'[p]]
      /\ NewsInv'
  <2>1. e \in DOMAIN object'[o].eps /\ object'[o].eps[e] = Paired(ep, x)
    BY ONLY <1>2, <1>5, <1>6
  <2>2. \A k \in DOMAIN object[o].eps :
           /\ k \in DOMAIN object'[o].eps
           /\ k # e => object'[o].eps[k] = object[o].eps[k]
    BY ONLY <1>5, <1>6
  <2>3. /\ object' = [p \in Objs |-> object'[p]] /\ object'[o].addr = object[o].addr
        /\ \A p \in Objs : p # o => object'[p] = object[p]
    BY ONLY <1>6
  <2>4. /\ object[o].addr \in Addrs /\ UNCHANGED <<got, zdo>>
        /\ uri' = Handlers(o, object[o].addr, x) /\ told' = News(o, object[o].addr, e, x)
    BY ONLY <1>1, <1>2, <1>3
  <2>5. QED
    BY <1>7, <2>1, <2>2, <2>3, <2>4, PairStep
<1>9. PeerTypes'
  BY <1>1, <1>6, <1>8 DEF PeerTypes
<1>10. LocalsInv'
  BY <1>1 DEF LocalsInv, AppEntry, EndpointExist
<1>11. DevicesInv'
  BY <1>1, <1>6, InList DEF DevicesInv, PeerTypes
<1>12. QED
  BY <1>8, <1>9, <1>10, <1>11

(* recoverEndpoint() *)
LEMMA RecoverStep ==
  ASSUME HighFirst, PeerInv, Recover
  PROVE  PeerInv'
<1> USE DEF PeerInv
<1> DEFINE x == Head(archive)
           e == x.desc.endpoint
           list == hexStrToByteVec(kByteToHexString(ActiveEpApdu(<<e>>)))
           d == Desc(hexStrToByteVec(kByteToHexString(SimpleDescApdu(x.desc))))
<1>1. /\ zdo /\ archive # << >> /\ archive' = Tail(archive)
      /\ UNCHANGED <<loaded, got, zdo, locals>>
  BY DEF Recover
<1>2. PICK o \in Places("addr", x.addr) :
        /\ assocs' = Entered(o)
        /\ object' = [object EXCEPT ![o] =
             [ieee |-> x.dev, addr |-> x.addr,
              eps |-> [Listed(Endpoints(o), list) EXCEPT ![e] = Paired(@, d)]]]
        /\ uri' = Handlers(o, x.addr, d)
        /\ told' = News(o, x.addr, e, d)
  <2>1. Recover
    OBVIOUS
  <2>2. QED
    BY ONLY <2>1 DEF Recover
<1>3. archive' \in Seq(Entries) /\ x \in Entries
  BY <1>1 DEF PeerTypes
<1>4. x.dev \in Devs /\ x.addr \in Addrs /\ e \in 0 .. 255
  <2> HIDE DEF x
  <2>1. x.dev \in Devs /\ x.addr \in Addrs /\ x.desc \in Described
    BY <1>3 DEF Entries
  <2>2. QED
    BY <2>1, PeersAssumption
<1>5. e \in ToSet(ActiveEps(list))
  <2> HIDE DEF e
  <2>1. QED
    BY <1>4, ActiveEpKept
<1> HIDE DEF x, e, list, d
<1>6. /\ o \in Objs /\ (object[o] = Freed \/ object[o].addr = x.addr)
      /\ Endpoints(o) = object[o].eps
  BY PlacesTrue
<1> DEFINE listed == Listed(object[o].eps, list)
           ep == listed[e]
           eps == [listed EXCEPT ![e] = Paired(ep, d)]
<1>7. /\ e \in DOMAIN listed
      /\ \A k \in DOMAIN object[o].eps : k \in DOMAIN listed /\ listed[k] = object[o].eps[k]
  BY <1>5 DEF Listed
<1>8. object' = [object EXCEPT ![o] = [ieee |-> x.dev, addr |-> x.addr, eps |-> eps]]
  BY <1>2, <1>6
<1> HIDE DEF listed
<1>9. /\ DOMAIN eps = DOMAIN listed /\ eps[e] = Paired(ep, d)
      /\ \A k \in DOMAIN listed : k # e => eps[k] = listed[k]
  BY <1>7
<1> HIDE DEF eps, ep
<1>10. /\ object' = [p \in Objs |-> object'[p]] /\ \A p \in Objs : Device(object'[p])
       /\ object'[o] # Freed /\ object'[o].addr = x.addr /\ object'[o].eps = eps
       /\ \A p \in Objs : p # o => object'[p] = object[p]
  BY <1>4, <1>6, <1>8, DeviceMade
<1>11. /\ uri' \in [Addrs -> Objs \cup {None}]
       /\ told' = [p \in Objs |-> told'[p]]
       /\ NewsInv'
  <2>1. e \in DOMAIN object'[o].eps /\ object'[o].eps[e] = Paired(ep, d)
    BY <1>7, <1>9, <1>10
  <2>2. \A k \in DOMAIN object[o].eps :
           /\ k \in DOMAIN object'[o].eps
           /\ k # e => object'[o].eps[k] = object[o].eps[k]
    BY <1>7, <1>9, <1>10
  <2>3. /\ o \in Objs /\ x.addr \in Addrs /\ zdo /\ UNCHANGED <<got, zdo>>
        /\ uri' = Handlers(o, x.addr, d) /\ told' = News(o, x.addr, e, d)
    BY ONLY <1>1, <1>2, <1>4, <1>6
  <2>4. /\ object[o] = Freed \/ object[o].addr = x.addr
        /\ object' = [p \in Objs |-> object'[p]] /\ object'[o].addr = x.addr
        /\ \A p \in Objs : p # o => object'[p] = object[p]
    BY ONLY <1>6, <1>10
  <2>5. QED
    BY <2>1, <2>2, <2>3, <2>4, PairStep
<1>12. assocs' \in Seq(Objs) /\ ToSet(assocs') = {o} \cup ToSet(assocs)
  BY <1>2, <1>6, EnteredTrue
<1>13. PeerTypes'
  BY <1>1, <1>3, <1>10, <1>11, <1>12 DEF PeerTypes
<1>14. LocalsInv'
  BY <1>1 DEF LocalsInv, AppEntry, EndpointExist
<1>15. DevicesInv'
  BY <1>1, <1>10, <1>12, InList DEF DevicesInv, PeerTypes
<1>16. QED
  BY <1>11, <1>13, <1>14, <1>15

(* removeAssoc() *)
LEMMA LeaveStep ==
  ASSUME PeerInv, NEW v \in Devs, Leave(v)
  PROVE  PeerInv'
<1> USE DEF PeerInv
<1>1. UNCHANGED <<loaded, got, zdo, locals, archive, uri>>
  BY DEF Leave
<1>2. PICK o \in Places("ieee", v) \cap ToSet(assocs) :
        LET gone == {p \in ToSet(assocs) : object[p].addr = object[o].addr} IN
        /\ assocs' = Keep(assocs, {i \in DOMAIN assocs : assocs[i] \notin gone})
        /\ object' = [p \in Objs |-> IF p \in gone THEN Freed ELSE object[p]]
        /\ told' = [p \in Objs |-> IF p \in gone THEN << >> ELSE told[p]]
  BY DEF Leave
<1> DEFINE gone == {p \in ToSet(assocs) : object[p].addr = object[o].addr}
           stay == {i \in DOMAIN assocs : assocs[i] \notin gone}
<1>3. /\ assocs' = Keep(assocs, stay)
      /\ object' = [p \in Objs |-> IF p \in gone THEN Freed ELSE object[p]]
      /\ told' = [p \in Objs |-> IF p \in gone THEN << >> ELSE told[p]]
  BY <1>2
<1>4. assocs # << >>
  <2>1. assocs \in Seq(Objs) /\ ToSet(assocs) # {}
    BY DEF PeerTypes
  <2>2. QED
    BY <2>1, InList
<1>5. zdo
  BY <1>4 DEF DevicesInv
<1>6. /\ assocs' \in Seq(Objs)
      /\ \A m \in DOMAIN assocs' : \E i \in stay : assocs'[m] = assocs[i]
  <2>1. stay \in SUBSET DOMAIN assocs /\ assocs \in Seq(Objs)
    BY DEF PeerTypes
  <2> HIDE DEF stay
  <2>2. QED
    BY <1>3, <2>1, Kept
<1>7. \A p \in ToSet(assocs') : p \in ToSet(assocs) /\ p \notin gone
  BY <1>6 DEF ToSet
<1> HIDE DEF gone
<1>8. PeerTypes'
  BY <1>1, <1>3, <1>6 DEF PeerTypes, Device
<1>9. LocalsInv'
  BY <1>1 DEF LocalsInv, AppEntry, EndpointExist
<1>10. DevicesInv'
  <2>1. \A p \in ToSet(assocs') : p \in Objs
    BY <1>6, InList
  <2>2. QED
    BY <1>1, <1>3, <1>5, <1>7, <2>1 DEF DevicesInv
<1>11. NewsInv'
  <2> SUFFICES ASSUME NEW p \in Objs, NEW e \in DOMAIN told'[p]
               PROVE  e \in DOMAIN object'[p].eps /\ zdo' /\ HeardOf(p, e)'
    BY DEF NewsInv
  <2>1. p \notin gone
    <3>1. DOMAIN << >> = {}
      OBVIOUS
    <3>2. QED
      BY <1>3, <3>1
  <2>2. told'[p] = told[p] /\ object'[p] = object[p]
    BY <1>3, <2>1
  <2>3. QED
    BY <1>1, <2>2 DEF NewsInv, HeardOf
<1>12. QED
  BY <1>8, <1>9, <1>10, <1>11

(* Every step keeps the invariant. *)
LEMMA PeersNextInv ==
  ASSUME HighFirst
  PROVE  PeerInv /\ [PeersNext]_peersVars => PeerInv'
<1> SUFFICES ASSUME PeerInv, [PeersNext]_peersVars  PROVE PeerInv'
  OBVIOUS
<1>1. CASE UNCHANGED peersVars
  <2>1. PeerTypes' /\ DevicesInv'
    BY <1>1 DEF peersVars, PeerInv, PeerTypes, DevicesInv
  <2>2. LocalsInv'
    BY <1>1 DEF peersVars, PeerInv, LocalsInv, AppEntry, EndpointExist
  <2>3. NewsInv'
    BY <1>1 DEF peersVars, PeerInv, NewsInv, HeardOf
  <2>4. QED
    BY <2>1, <2>2, <2>3 DEF PeerInv
<1>2. CASE PeersNext
  BY <1>2, LocalStep, AnnounceStep, EndpointsStep, DescStep, RecoverStep, LeaveStep DEF PeersNext
<1>3. QED
  BY <1>1, <1>2

(* aps_newpeer_handle(), apsdb.cpp: an application is told of every endpoint *)
(* that fits it, and of no other, whichever way the device became known.     *)
THEOREM AppHeard ==
  ASSUME HighFirst
  PROVE  PeersSpec => []AppHears
<1>1. PeerInv => AppHears
  <2> SUFFICES ASSUME PeerInv, NEW o \in ToSet(assocs), NEW e \in DOMAIN told[o]
               PROVE  LET d == object[o].eps[e].desc IN
                      IF told[o][e] = None
                      THEN \A a \in Apps :
                             Fits(a, d) => \E b \in Apps \ {a} : got[b] = got[a]
                      ELSE \E a \in Apps : got[a] = told[o][e] /\ Fits(a, d)
    BY DEF AppHears
  <2>1. o \in Objs
    BY InList DEF PeerInv, PeerTypes
  <2>2. HeardOf(o, e)
    BY <2>1 DEF PeerInv, NewsInv
  <2>3. QED
    BY <2>2 DEF HeardOf
<1>2. QED
  BY PeersInitInv, PeersNextInv, <1>1, PTL DEF PeersSpec

(* nodeSnapshot(), node_info: an endpoint that an application was told of    *)
(* is shown under the present object of its device, paired with that         *)
(* application's endpoint, though its URI handler holds a bare pointer.      *)
THEOREM ShownCorrect ==
  ASSUME HighFirst
  PROVE  PeersSpec => []ShownTrue
<1>1. PeerInv => ShownTrue
  <2> SUFFICES ASSUME PeerInv, NEW o \in ToSet(assocs), NEW e \in DOMAIN told[o],
                      told[o][e] # None
               PROVE  /\ uri[object[o].addr] = o
                      /\ Snapshot(o).endpoints[e].paired
                      /\ Snapshot(o).endpoints[e].localEndpoint = told[o][e]
    BY DEF ShownTrue
  <2>1. o \in Objs
    BY InList DEF PeerInv, PeerTypes
  <2>2. HeardOf(o, e) /\ e \in DOMAIN object[o].eps
    BY <2>1 DEF PeerInv, NewsInv
  <2>3. /\ Snapshot(o).endpoints[e].paired = (object[o].eps[e].peer # None)
        /\ Snapshot(o).endpoints[e].localEndpoint = object[o].eps[e].peer
    BY <2>2 DEF Snapshot
  <2>4. QED
    BY <2>2, <2>3 DEF HeardOf
<1>2. QED
  BY PeersInitInv, PeersNextInv, <1>1, PTL DEF PeersSpec
=============================================================================
