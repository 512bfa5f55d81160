---------------------- MODULE ConversationServiceProofs ----------------------
(***************************************************************************)
(* Theorems of ConversationService, for every set of starters and all      *)
(* bounds.                                                                 *)
(***************************************************************************)
EXTENDS ConversationService, SequenceTheorems, TLAPS

\* The actions of one starter, as the proofs split them.
OfStarter(s) == StartSession(s) \/ Spawn(s) \/ Starting(s)

\* The starter waits for the process it has spawned, or for its last output.
Watching(s) == pc[s] \in {"grace", "drain"}

\* What it watches is its own, was there for no other, and has its startup
\* pending: an exit that is seen meanwhile is left to it.
Owned ==
  \A s \in Starters :
    Watching(s) =>
      /\ mine[s] \in 1..spawned
      /\ startup[mine[s]]
      /\ mine[s] \notin thrown
      /\ pc[s] = "drain" => exit[mine[s]] = "handled"

Distinct ==
  \A s, t \in Starters : Watching(s) /\ Watching(t) /\ mine[s] = mine[t] => s = t

\* No process has seen an exit before it was spawned.
Unspawned ==
  \A g \in Lives :
    g > spawned => process[g] = "none" /\ exit[g] = "unseen" /\ g \notin thrown

\* Whoever is to report the exit, startup tells: startSession() while it is
\* pending, and for ever if it throws; the exit handler once it is over.
Sided ==
  \A g \in Lives :
    /\ exit[g] = "draining" => ~startup[g]
    /\ g \in told => ~startup[g] /\ exit[g] = "handled"
    /\ g \in thrown => startup[g]

Reports == Owned /\ Distinct /\ Unspawned /\ Sided

-----------------------------------------------------------------------------
(* Types *)

LEMMA InitTyped == Init => TypeOK
<1> SUFFICES ASSUME Init PROVE TypeOK
  OBVIOUS
<1> USE BoundsAssumption DEF Init, None, Lives
<1>1. /\ outbound \in [Lives -> Seq(1..MaxMessages)]
      /\ flying \in [Lives -> Seq(1..MaxMessages)]
      /\ got \in [Lives -> Seq(1..MaxMessages)]
  BY EmptySeq
<1>2. pc \in [Starters -> {"idle", "info", "prepare", "grace", "drain", "metadata"}]
  OBVIOUS
<1>3. /\ current \in {None} \union Lives
      /\ mine \in [Starters -> {None} \union Lives]
      /\ spawned \in 0..MaxSpawns
      /\ accepted \in 0..MaxMessages
  OBVIOUS
<1>4. /\ deleted \in BOOLEAN
      /\ startup \in [Lives -> BOOLEAN]
      /\ connected \in [Lives -> BOOLEAN]
      /\ attached \in [Lives -> {"none", "live", "dead"}]
      /\ closing \in Nat
  OBVIOUS
<1>5. /\ process \in [Lives -> {"none", "running", "killed", "exited"}]
      /\ exit \in [Lives -> {"unseen", "draining", "handled"}]
      /\ thrown \subseteq Lives
      /\ told \subseteq Lives
  OBVIOUS
<1> QED
  BY <1>1, <1>2, <1>3, <1>4, <1>5 DEF TypeOK

LEMMA StarterTyped ==
  ASSUME TypeOK, Owned, NEW s \in Starters, OfStarter(s)
  PROVE  TypeOK'
<1> USE BoundsAssumption DEF TypeOK, Lives, At, Leave,
                             mapVars, startVars, exitVars, linkVars, messageVars, wireVars
<1>1. CASE StartSession(s)
  BY <1>1 DEF StartSession, Guarded
<1>2. CASE LaunchInfo(s)
  BY <1>2 DEF LaunchInfo
<1>3. CASE Spawn(s)
  BY <1>3 DEF Spawn
<1>4. CASE SpawnFails(s)
  BY <1>4 DEF SpawnFails
<1>5. CASE GraceEnds(s)
  BY <1>5 DEF GraceEnds, None
<1>6. CASE StartFails(s)
  <2>1. mine[s] \in Lives
    BY <1>6 DEF StartFails, Owned, Watching
  <2> QED
    BY <1>6, <2>1 DEF StartFails, None
<1>7. CASE StartRetries(s)
  BY <1>7 DEF StartRetries, None
<1>8. CASE MetadataDone(s)
  BY <1>8 DEF MetadataDone
<1> QED
  BY <1>1, <1>2, <1>3, <1>4, <1>5, <1>6, <1>7, <1>8 DEF OfStarter, Starting

LEMMA DropsTyped ==
  ASSUME TypeOK, NEW g \in Lives, Drops(g)
  PROVE  /\ connected' \in [Lives -> BOOLEAN]
         /\ attached' \in [Lives -> {"none", "live", "dead"}]
         /\ closing' \in Nat
         /\ outbound' \in [Lives -> Seq(1..MaxMessages)]
         /\ flying' \in [Lives -> Seq(1..MaxMessages)]
         /\ got' \in [Lives -> Seq(1..MaxMessages)]
         /\ accepted' \in 0..MaxMessages
<1>1. << >> \in Seq(1..MaxMessages)
  BY EmptySeq
<1> QED
  BY <1>1 DEF Drops, TypeOK

LEMMA LifeTyped ==
  ASSUME TypeOK, NEW g \in Lives, Life(g)
  PROVE  TypeOK'
<1> USE DEF mapVars, startVars, exitVars, linkVars, messageVars, wireVars
<1>1. CASE Exit(g)
  BY <1>1, DropsTyped DEF Exit, TypeOK
<1>2. CASE HandleProcessExit(g)
  BY <1>2 DEF HandleProcessExit, TypeOK
<1>3. CASE ExitDrained(g)
  BY <1>3 DEF ExitDrained, None, TypeOK
<1>4. CASE Connect(g)
  <2>1. << >> \in Seq(1..MaxMessages)
    BY EmptySeq
  <2> QED
    BY <1>4, <2>1 DEF Connect, TypeOK
<1>5. CASE Reject(g)
  BY <1>5 DEF Reject, TypeOK
<1>6. CASE Break(g)
  BY <1>6, DropsTyped DEF Break, TypeOK
<1>7. CASE Receive(g)
  <2>1. /\ Head(flying[g]) \in 1..MaxMessages /\ Tail(flying[g]) \in Seq(1..MaxMessages)
        /\ got[g] \in Seq(1..MaxMessages)
    BY <1>7, HeadTailProperties DEF Receive, TypeOK
  <2>2. Append(got[g], Head(flying[g])) \in Seq(1..MaxMessages)
    BY <2>1, AppendProperties
  <2> QED
    BY <1>7, <2>1, <2>2 DEF Receive, TypeOK
<1> QED
  BY <1>1, <1>2, <1>3, <1>4, <1>5, <1>6, <1>7 DEF Life

\* What else may happen: the actions that are no starter's and no process's.
Other == StopSession \/ MarkSessionDeleted \/ UnmarkSessionDeleted \/ Disconnect \/ SendSdkMessage

LEMMA OtherTyped ==
  ASSUME TypeOK, Other
  PROVE  TypeOK'
<1> USE BoundsAssumption DEF TypeOK, Lives, None, mapVars, startVars, exitVars,
                             linkVars, messageVars, wireVars
<1>1. CASE StopSession
  BY <1>1 DEF StopSession, Stop
<1>2. CASE MarkSessionDeleted
  BY <1>2 DEF MarkSessionDeleted, Stop
<1>3. CASE UnmarkSessionDeleted
  BY <1>3 DEF UnmarkSessionDeleted
<1>4. CASE Disconnect
  <2>1. closing' \in Nat
    BY <1>4 DEF Disconnect
  <2>2. attached' \in [Lives -> {"none", "live", "dead"}]
    BY <1>4 DEF Disconnect
  <2>3. UNCHANGED <<mapVars, startVars, process, exitVars, connected, messageVars>>
    BY <1>4 DEF Disconnect
  <2> QED
    BY <2>1, <2>2, <2>3
<1>5. CASE SendSdkMessage
  <2>1. accepted' \in 1..MaxMessages /\ current \in Lives
    BY <1>5 DEF SendSdkMessage
  <2>2. /\ Append(flying[current], accepted') \in Seq(1..MaxMessages)
        /\ Append(outbound[current], accepted') \in Seq(1..MaxMessages)
    BY <2>1, AppendProperties
  <2>3. flying' \in [Lives -> Seq(1..MaxMessages)] /\ outbound' \in [Lives -> Seq(1..MaxMessages)]
    BY <1>5, <2>2 DEF SendSdkMessage
  <2>4. UNCHANGED <<mapVars, startVars, process, exitVars, linkVars, got>>
    BY <1>5 DEF SendSdkMessage
  <2> QED
    BY <2>1, <2>3, <2>4
<1> QED
  BY <1>1, <1>2, <1>3, <1>4, <1>5 DEF Other

LEMMA Typed ==
  ASSUME TypeOK, Owned, [Next]_vars
  PROVE  TypeOK'
<1>1. CASE \E s \in Starters : StartSession(s) \/ Spawn(s) \/ Starting(s)
  BY <1>1, StarterTyped DEF OfStarter
<1>2. CASE \E g \in Lives : Life(g)
  BY <1>2, LifeTyped
<1>3. CASE Other
  BY <1>3, OtherTyped
<1>4. CASE UNCHANGED vars
  BY <1>4 DEF vars, mapVars, startVars, exitVars, linkVars, messageVars, wireVars, TypeOK
<1> QED
  BY <1>1, <1>2, <1>3, <1>4 DEF Next, Other

-----------------------------------------------------------------------------
(* One report *)

LEMMA InitReports == Init => Reports
  BY DEF Init, Reports, Owned, Distinct, Unspawned, Sided, Watching

LEMMA StarterReports ==
  ASSUME TypeOK, Reports, NEW s \in Starters, OfStarter(s)
  PROVE  Reports'
<1> USE BoundsAssumption DEF TypeOK, Lives, At, Leave, mapVars, startVars, exitVars, wireVars
<1> USE DEF Reports, Owned, Distinct, Unspawned, Sided, Watching
<1>1. CASE StartSession(s)
  BY <1>1 DEF StartSession, Guarded
<1>2. CASE LaunchInfo(s)
  <2>1. pc' = [pc EXCEPT ![s] = "prepare"] \/ pc' = [pc EXCEPT ![s] = "idle"]
    BY <1>2 DEF LaunchInfo
  <2>2. UNCHANGED <<mine, spawned, startup, thrown, process, exit, told>>
    BY <1>2 DEF LaunchInfo
  <2>3. \A r \in Starters : (Watching(r))' => Watching(r) /\ pc'[r] = pc[r]
    BY <2>1
  <2> QED
    BY <2>2, <2>3
<1>3. CASE Spawn(s)
  <2>1. /\ spawned' = spawned + 1 /\ spawned + 1 \in Lives
        /\ mine' = [mine EXCEPT ![s] = spawned + 1]
        /\ process' = [process EXCEPT ![spawned + 1] = "running"]
        /\ startup' = [startup EXCEPT ![spawned + 1] = TRUE]
        /\ pc' = [pc EXCEPT ![s] = "grace"]
        /\ UNCHANGED <<thrown, exit, told>>
    BY <1>3 DEF Spawn
  <2>2. Owned'
    BY <2>1
  <2>3. Distinct'
    BY <2>1
  <2>4. Unspawned'
    BY <2>1
  <2>5. Sided'
    BY <2>1
  <2> QED
    BY <2>2, <2>3, <2>4, <2>5
<1>4. CASE SpawnFails(s)
  BY <1>4 DEF SpawnFails
<1>5. CASE GraceEnds(s)
  <2>1. UNCHANGED <<spawned, thrown, process, exit, told>>
    BY <1>5 DEF GraceEnds
  <2>2. CASE exit[mine[s]] # "unseen"
    <3>1. /\ pc' = [pc EXCEPT ![s] = "drain"]
          /\ UNCHANGED <<mine, startup>>
      BY <1>5, <2>2 DEF GraceEnds
    <3>2. exit[mine[s]] = "handled"
      BY <1>5, <2>2 DEF GraceEnds
    <3> QED
      BY <1>5, <2>1, <3>1, <3>2 DEF GraceEnds
  <2>3. CASE exit[mine[s]] = "unseen"
    <3>1. /\ startup' = [startup EXCEPT ![mine[s]] = FALSE]
          /\ mine' = [mine EXCEPT ![s] = None]
          /\ pc' = [pc EXCEPT ![s] = "metadata"] \/ pc' = [pc EXCEPT ![s] = "idle"]
      BY <1>5, <2>3 DEF GraceEnds
    <3>2. mine[s] \in Lives /\ mine[s] \notin thrown
      BY <1>5 DEF GraceEnds
    <3>3. Owned'
      BY <1>5, <2>1, <3>1, <3>2 DEF GraceEnds
    <3>4. Distinct'
      BY <1>5, <2>1, <3>1 DEF GraceEnds
    <3>5. Unspawned' /\ Sided'
      BY <2>1, <3>1, <3>2
    <3> QED
      BY <3>3, <3>4, <3>5
  <2> QED
    BY <2>2, <2>3
<1>6. CASE StartFails(s)
  BY <1>6 DEF StartFails
<1>7. CASE StartRetries(s)
  BY <1>7 DEF StartRetries
<1>8. CASE MetadataDone(s)
  BY <1>8 DEF MetadataDone
<1> QED
  BY <1>1, <1>2, <1>3, <1>4, <1>5, <1>6, <1>7, <1>8 DEF OfStarter, Starting

LEMMA LifeReports ==
  ASSUME TypeOK, Reports, NEW g \in Lives, Life(g)
  PROVE  Reports'
<1> USE DEF TypeOK, mapVars, startVars, exitVars, wireVars
<1> USE DEF Reports, Owned, Distinct, Unspawned, Sided, Watching
<1>1. CASE Exit(g)
  BY <1>1 DEF Exit
<1>2. CASE HandleProcessExit(g)
  BY <1>2 DEF HandleProcessExit
<1>3. CASE ExitDrained(g)
  BY <1>3 DEF ExitDrained
<1>4. CASE Connect(g) \/ Reject(g) \/ Break(g) \/ Receive(g)
  BY <1>4 DEF Connect, Reject, Break, Receive
<1> QED
  BY <1>1, <1>2, <1>3, <1>4 DEF Life

LEMMA OtherReports ==
  ASSUME TypeOK, Reports, Other
  PROVE  Reports'
<1> USE DEF TypeOK, mapVars, startVars, exitVars, wireVars
<1> USE DEF Reports, Owned, Distinct, Unspawned, Sided, Watching
<1>1. CASE StopSession
  BY <1>1 DEF StopSession, Stop
<1>2. CASE MarkSessionDeleted
  BY <1>2 DEF MarkSessionDeleted, Stop
<1>3. CASE UnmarkSessionDeleted \/ Disconnect \/ SendSdkMessage
  BY <1>3 DEF UnmarkSessionDeleted, Disconnect, SendSdkMessage
<1> QED
  BY <1>1, <1>2, <1>3 DEF Other

-----------------------------------------------------------------------------
(* Order of messages *)

Messages == 1..MaxMessages

Ascending(q) == \A i, j \in DOMAIN q : i < j => q[i] < q[j]

Below(q, r) == \A i \in DOMAIN q, j \in DOMAIN r : q[i] < r[j]

UpTo(q, n) == \A i \in DOMAIN q : q[i] <= n

\* What arrived is older than what is on its way, and that than what waits; and
\* nothing waits for a socket that is there, dead or not.
InOrder ==
  \A g \in Lives :
    /\ Ascending(got[g]) /\ Ascending(flying[g]) /\ Ascending(outbound[g])
    /\ Below(got[g], flying[g]) /\ Below(got[g], outbound[g]) /\ Below(flying[g], outbound[g])
    /\ UpTo(got[g], accepted) /\ UpTo(flying[g], accepted) /\ UpTo(outbound[g], accepted)
    /\ attached[g] # "none" => outbound[g] = << >>

LEMMA EmptyInOrder ==
  ASSUME NEW q, NEW n
  PROVE  /\ Ascending(<< >>) /\ UpTo(<< >>, n)
         /\ Below(<< >>, q) /\ Below(q, << >>)
  BY EmptySeq DEF Ascending, UpTo, Below

LEMMA Appended ==
  ASSUME NEW q \in Seq(Messages), NEW r \in Seq(Messages), NEW n \in Nat,
         Ascending(q), UpTo(q, n), UpTo(r, n), Below(r, q)
  PROVE  /\ Ascending(Append(q, n + 1)) /\ UpTo(Append(q, n + 1), n + 1)
         /\ UpTo(r, n + 1) /\ Below(r, Append(q, n + 1))
<1> DEFINE a == Append(q, n + 1)
<1>1. /\ Len(q) \in Nat /\ DOMAIN q = 1..Len(q) /\ DOMAIN a = 1..Len(q) + 1
      /\ \A i \in DOMAIN q : q[i] \in Int /\ a[i] = q[i]
      /\ a[Len(q) + 1] = n + 1
      /\ \A i \in DOMAIN r : r[i] \in Int
  BY BoundsAssumption DEF Messages
<1> HIDE DEF a
<1>2. Ascending(a)
  BY <1>1 DEF Ascending, UpTo
<1>3. UpTo(a, n + 1)
  BY <1>1 DEF UpTo
<1>4. UpTo(r, n + 1)
  BY <1>1 DEF UpTo
<1>5. Below(r, a)
  BY <1>1 DEF UpTo, Below
<1> QED
  BY <1>2, <1>3, <1>4, <1>5 DEF a

\* The oldest of what is on its way arrives.
LEMMA Moved ==
  ASSUME NEW p \in Seq(Messages), NEW q \in Seq(Messages), NEW r \in Seq(Messages), NEW n \in Nat,
         q # << >>, Ascending(p), Ascending(q), Below(p, q), Below(p, r), Below(q, r),
         UpTo(p, n), UpTo(q, n)
  PROVE  /\ Ascending(Append(p, Head(q))) /\ Ascending(Tail(q))
         /\ Below(Append(p, Head(q)), Tail(q))
         /\ Below(Append(p, Head(q)), r) /\ Below(Tail(q), r)
         /\ UpTo(Append(p, Head(q)), n) /\ UpTo(Tail(q), n)
<1> DEFINE a == Append(p, Head(q))
           b == Tail(q)
<1>1. /\ Len(p) \in Nat /\ DOMAIN p = 1..Len(p) /\ DOMAIN a = 1..Len(p) + 1
      /\ \A i \in DOMAIN p : p[i] \in Int /\ a[i] = p[i]
      /\ a[Len(p) + 1] = q[1]
  BY BoundsAssumption DEF Messages
<1>2. /\ Len(q) \in Nat /\ 1 \in DOMAIN q /\ DOMAIN q = 1..Len(q) /\ DOMAIN b = 1..Len(q) - 1
      /\ \A i \in DOMAIN b : b[i] = q[i + 1] /\ i + 1 \in DOMAIN q /\ i \in Nat \ {0}
      /\ \A i \in DOMAIN q : q[i] \in Int
      /\ \A i \in DOMAIN r : r[i] \in Int
  BY BoundsAssumption, HeadTailProperties DEF Messages
<1> HIDE DEF a, b
<1>3. \A i \in DOMAIN a : i \in DOMAIN p \/ i = Len(p) + 1
  BY <1>1
<1>4. Ascending(a)
  BY <1>1, <1>2, <1>3 DEF Ascending, Below
<1>5. Ascending(b)
  BY <1>2 DEF Ascending
<1>6. Below(a, b)
  BY <1>1, <1>2, <1>3 DEF Ascending, Below
<1>7. Below(a, r) /\ Below(b, r)
  BY <1>1, <1>2, <1>3 DEF Below
<1>8. UpTo(a, n) /\ UpTo(b, n)
  BY <1>1, <1>2, <1>3 DEF UpTo
<1> QED
  BY <1>4, <1>5, <1>6, <1>7, <1>8 DEF a, b

LEMMA Joined ==
  ASSUME NEW p \in Seq(Messages), NEW q \in Seq(Messages), NEW r \in Seq(Messages),
         Ascending(p), Ascending(q), Below(p, q), Below(p, r), Below(q, r)
  PROVE  Ascending(p \o q) /\ Below(p \o q, r) /\ p \o q \in Seq(Messages)
<1> DEFINE a == p \o q
<1>1. /\ Len(p) \in Nat /\ DOMAIN p = 1..Len(p)
      /\ Len(q) \in Nat /\ DOMAIN q = 1..Len(q)
      /\ a \in Seq(Messages) /\ DOMAIN a = 1..Len(p) + Len(q)
      /\ \A i \in DOMAIN a : a[i] = IF i <= Len(p) THEN p[i] ELSE q[i - Len(p)]
  BY ConcatProperties, LenProperties
<1>2. \A i \in DOMAIN a : \/ i \in DOMAIN p /\ a[i] = p[i]
                          \/ i > Len(p) /\ i - Len(p) \in DOMAIN q /\ a[i] = q[i - Len(p)]
  BY <1>1
<1> HIDE DEF a
<1>3. Ascending(a)
  <2> SUFFICES ASSUME NEW i \in DOMAIN a, NEW j \in DOMAIN a, i < j
               PROVE  a[i] < a[j]
    BY DEF Ascending
  <2>1. CASE i \in DOMAIN p /\ j \in DOMAIN p
    BY <1>1, <2>1 DEF Ascending
  <2>2. CASE i \in DOMAIN p /\ j \notin DOMAIN p
    BY <1>1, <1>2, <2>2 DEF Below
  <2>3. CASE i \notin DOMAIN p
    <3>1. /\ i - Len(p) \in DOMAIN q /\ j - Len(p) \in DOMAIN q /\ i - Len(p) < j - Len(p)
          /\ a[i] = q[i - Len(p)] /\ a[j] = q[j - Len(p)]
      BY <1>1, <1>2, <2>3
    <3> QED
      BY <3>1 DEF Ascending
  <2> QED
    BY <2>1, <2>2, <2>3
<1>4. Below(a, r)
  BY <1>2 DEF Below
<1> QED
  BY <1>1, <1>3, <1>4 DEF a

LEMMA WireAscends ==
  ASSUME TypeOK, InOrder
  PROVE  MessagesInOrder
<1> SUFFICES ASSUME NEW g \in Lives PROVE Ascending(got[g] \o flying[g] \o outbound[g])
  BY DEF MessagesInOrder, Ascending
<1>1. /\ got[g] \in Seq(Messages) /\ flying[g] \in Seq(Messages) /\ outbound[g] \in Seq(Messages)
      /\ Ascending(got[g]) /\ Ascending(flying[g]) /\ Ascending(outbound[g])
      /\ Below(got[g], flying[g]) /\ Below(got[g], outbound[g]) /\ Below(flying[g], outbound[g])
  BY DEF TypeOK, InOrder, Messages
<1>2. /\ Ascending(got[g] \o flying[g]) /\ Below(got[g] \o flying[g], outbound[g])
      /\ got[g] \o flying[g] \in Seq(Messages)
  BY <1>1, Joined
<1>3. << >> \in Seq(Messages) /\ Below(got[g] \o flying[g], << >>) /\ Below(outbound[g], << >>)
  BY EmptySeq, EmptyInOrder
<1> QED
  BY <1>1, <1>2, <1>3, Joined

LEMMA InitInOrder == Init => InOrder
  BY EmptyInOrder DEF Init, InOrder

\* A handler that writes nothing only matters if it sets a socket.
LEMMA Unwritten ==
  ASSUME TypeOK, InOrder, UNCHANGED <<got, flying, outbound, accepted>>,
         \A g \in Lives : attached'[g] # "none" => attached[g] # "none"
  PROVE  InOrder'
  BY DEF InOrder

LEMMA DropsInOrder ==
  ASSUME TypeOK, InOrder, NEW g \in Lives, Drops(g)
  PROVE  InOrder'
<1>1. /\ flying' = [flying EXCEPT ![g] = << >>]
      /\ UNCHANGED <<got, outbound, accepted>>
      /\ \A h \in Lives : attached'[h] # "none" => attached[h] # "none"
  BY DEF Drops, TypeOK
<1>2. \A h \in Lives : flying'[h] = << >> \/ flying'[h] = flying[h]
  BY <1>1 DEF TypeOK
<1> QED
  BY <1>1, <1>2, EmptyInOrder DEF InOrder

LEMMA ConnectInOrder ==
  ASSUME TypeOK, InOrder, NEW g \in Lives, Connect(g)
  PROVE  InOrder'
<1>1. /\ flying'[g] = outbound[g] /\ outbound'[g] = << >>
      /\ \A h \in Lives \ {g} : /\ flying'[h] = flying[h] /\ outbound'[h] = outbound[h]
                               /\ attached'[h] = attached[h]
      /\ UNCHANGED <<got, accepted>>
  BY DEF Connect, TypeOK
<1> QED
  BY <1>1, EmptyInOrder DEF InOrder

LEMMA ReceiveInOrder ==
  ASSUME TypeOK, InOrder, NEW g \in Lives, Receive(g)
  PROVE  InOrder'
<1>1. /\ flying[g] # << >>
      /\ got'[g] = Append(got[g], Head(flying[g])) /\ flying'[g] = Tail(flying[g])
      /\ \A h \in Lives \ {g} : got'[h] = got[h] /\ flying'[h] = flying[h]
      /\ UNCHANGED <<attached, outbound, accepted>>
  BY DEF Receive, TypeOK, linkVars
<1>2. /\ got[g] \in Seq(Messages) /\ flying[g] \in Seq(Messages) /\ outbound[g] \in Seq(Messages)
      /\ accepted \in Nat
  BY BoundsAssumption DEF TypeOK, Messages
<1>3. /\ Ascending(got'[g]) /\ Ascending(flying'[g]) /\ Below(got'[g], flying'[g])
      /\ Below(got'[g], outbound[g]) /\ Below(flying'[g], outbound[g])
      /\ UpTo(got'[g], accepted) /\ UpTo(flying'[g], accepted)
  BY <1>1, <1>2, Moved DEF InOrder
<1> QED
  BY <1>1, <1>3 DEF InOrder

LEMMA SendInOrder ==
  ASSUME TypeOK, InOrder, SendSdkMessage
  PROVE  InOrder'
<1> DEFINE g == current
<1>1. /\ g \in Lives /\ accepted \in Nat /\ accepted' = accepted + 1
      /\ UNCHANGED <<got, attached>>
  BY BoundsAssumption DEF SendSdkMessage, TypeOK, linkVars
<1>2. \A h \in Lives : /\ got[h] \in Seq(Messages) /\ flying[h] \in Seq(Messages)
                        /\ outbound[h] \in Seq(Messages)
  BY DEF TypeOK, Messages
<1>3. \A h \in Lives : /\ UpTo(got[h], accepted') /\ UpTo(flying[h], accepted')
                        /\ UpTo(outbound[h], accepted')
  <2>1. \A q \in Seq(Messages) : UpTo(q, accepted) => UpTo(q, accepted + 1)
    BY <1>1, BoundsAssumption DEF UpTo, Messages
  <2> QED
    BY <1>1, <1>2, <2>1 DEF InOrder
<1>4. CASE attached[g] = "none"
  <2>1. /\ outbound'[g] = Append(outbound[g], accepted + 1) /\ flying' = flying
        /\ \A h \in Lives \ {g} : outbound'[h] = outbound[h]
    BY <1>1, <1>4 DEF SendSdkMessage, TypeOK
  <2>2. /\ Ascending(outbound'[g]) /\ UpTo(outbound'[g], accepted')
        /\ Below(got[g], outbound'[g]) /\ Below(flying[g], outbound'[g])
    BY <1>1, <1>2, <2>1, Appended DEF InOrder
  <2> QED
    BY <1>1, <1>3, <1>4, <2>1, <2>2 DEF InOrder
<1>5. CASE attached[g] = "live"
  <2>1. /\ flying'[g] = Append(flying[g], accepted + 1) /\ outbound' = outbound
        /\ \A h \in Lives \ {g} : flying'[h] = flying[h]
    BY <1>1, <1>5 DEF SendSdkMessage, TypeOK
  <2>2. /\ Ascending(flying'[g]) /\ UpTo(flying'[g], accepted') /\ Below(got[g], flying'[g])
    BY <1>1, <1>2, <2>1, Appended DEF InOrder
  <2>3. outbound[g] = << >> /\ Below(flying'[g], outbound[g])
    BY <1>1, <1>5, EmptyInOrder DEF InOrder
  <2> QED
    BY <1>1, <1>3, <2>1, <2>2, <2>3 DEF InOrder
<1>6. CASE attached[g] = "dead"
  <2>1. UNCHANGED <<outbound, flying>>
    BY <1>6 DEF SendSdkMessage
  <2> QED
    BY <1>1, <1>3, <2>1 DEF InOrder
<1> QED
  BY <1>1, <1>4, <1>5, <1>6 DEF TypeOK

LEMMA StepInOrder ==
  ASSUME TypeOK, InOrder, [Next]_vars
  PROVE  InOrder'
<1> USE DEF mapVars, startVars, exitVars, linkVars, messageVars, wireVars
<1>1. ASSUME NEW s \in Starters, OfStarter(s)
      PROVE  InOrder'
  <2>1. UNCHANGED <<got, flying, outbound, accepted, attached>>
    BY <1>1 DEF OfStarter, Starting, StartSession, LaunchInfo, Spawn, SpawnFails, GraceEnds,
                StartFails, StartRetries, MetadataDone
  <2> QED
    BY <2>1, Unwritten
<1>2. ASSUME NEW g \in Lives, Life(g)
      PROVE  InOrder'
  <2>1. CASE HandleProcessExit(g) \/ ExitDrained(g) \/ Reject(g)
    BY <2>1, Unwritten DEF HandleProcessExit, ExitDrained, Reject
  <2>2. CASE Exit(g) \/ Break(g)
    BY <2>2, DropsInOrder DEF Exit, Break
  <2> QED
    BY <1>2, <2>1, <2>2, ConnectInOrder, ReceiveInOrder DEF Life
<1>3. CASE StopSession \/ MarkSessionDeleted \/ UnmarkSessionDeleted
  BY <1>3, Unwritten DEF StopSession, MarkSessionDeleted, UnmarkSessionDeleted
<1>4. CASE Disconnect
  <2>1. /\ UNCHANGED <<got, flying, outbound, accepted>>
        /\ \A h \in Lives : attached'[h] # "none" => attached[h] # "none"
    BY <1>4 DEF Disconnect, TypeOK
  <2> QED
    BY <2>1, Unwritten
<1>5. CASE UNCHANGED vars
  BY <1>5, Unwritten DEF vars
<1> QED
  BY <1>1, <1>2, <1>3, <1>4, <1>5, SendInOrder DEF Next, OfStarter

-----------------------------------------------------------------------------
(* What lives, and what is served *)

\* Only the exit of a process is handled.
Ended == \A g \in Lives : exit[g] # "unseen" => process[g] = "exited"

\* The current session is one that was spawned and has not been stopped.
Serving == current # None => current <= spawned /\ process[current] \in {"running", "exited"}

\* A connection that works ends at a process that runs, and a live socket is
\* that of such a connection; nothing is on its way anywhere else.
Wired ==
  \A g \in Lives :
    /\ connected[g] => process[g] \in {"running", "killed"}
    /\ attached[g] = "live" => connected[g]
    /\ flying[g] # << >> => connected[g]

Lifetimes == Ended /\ Serving /\ Wired

LEMMA InitLifetimes == Init => Lifetimes
  BY DEF Init, Lifetimes, Ended, Serving, Wired

LEMMA StepLives ==
  ASSUME TypeOK, Reports, Lifetimes, [Next]_vars
  PROVE  Ended' /\ Serving'
<1> USE DEF TypeOK, Lifetimes, Ended, Serving, mapVars, startVars, exitVars, wireVars
<1>1. ASSUME NEW s \in Starters, OfStarter(s)
      PROVE  Ended' /\ Serving'
  <2>1. CASE Spawn(s)
    <3>1. spawned + 1 \in Lives /\ exit[spawned + 1] = "unseen"
      BY <2>1, BoundsAssumption DEF Spawn, Lives, Reports, Unspawned
    <3> QED
      BY <2>1, <3>1 DEF Spawn, Lives, None
  <2>2. CASE StartFails(s) \/ StartRetries(s)
    BY <2>2 DEF StartFails, StartRetries
  <2>3. CASE UNCHANGED <<current, spawned, process, exit>>
    BY <2>3
  <2> QED
    BY <1>1, <2>1, <2>2, <2>3 DEF OfStarter, Starting, StartSession, LaunchInfo, SpawnFails, GraceEnds,
                                  MetadataDone
<1>2. ASSUME NEW g \in Lives, Life(g)
      PROVE  Ended' /\ Serving'
  <2>1. CASE Exit(g)
    BY <2>1 DEF Exit, None, Lives
  <2>2. CASE HandleProcessExit(g)
    BY <2>2 DEF HandleProcessExit
  <2>3. CASE ExitDrained(g)
    BY <2>3 DEF ExitDrained
  <2>4. CASE Connect(g) \/ Reject(g) \/ Break(g) \/ Receive(g)
    BY <2>4 DEF Connect, Reject, Break, Receive
  <2> QED
    BY <1>2, <2>1, <2>2, <2>3, <2>4 DEF Life
<1>3. CASE StopSession \/ MarkSessionDeleted
  <2>1. CASE Stop /\ UNCHANGED <<spawned, exit>>
    BY <2>1 DEF Stop
  <2>2. CASE UNCHANGED <<current, spawned, process, exit>>
    BY <2>2
  <2> QED
    BY <1>3, <2>1, <2>2 DEF StopSession, MarkSessionDeleted
<1>4. CASE UnmarkSessionDeleted \/ Disconnect \/ SendSdkMessage \/ UNCHANGED vars
  BY <1>4 DEF UnmarkSessionDeleted, Disconnect, SendSdkMessage, vars
<1> QED
  BY <1>1, <1>2, <1>3, <1>4 DEF Next, OfStarter

LEMMA StepWired ==
  ASSUME TypeOK, Reports, Lifetimes, [Next]_vars
  PROVE  Wired'
<1> USE DEF Lifetimes, Wired
<1>1. CASE \E s \in Starters : Spawn(s)
  <2>1. PICK s \in Starters : Spawn(s)
    BY <1>1
  <2>2. /\ process' = [process EXCEPT ![spawned + 1] = "running"]
        /\ UNCHANGED <<connected, attached, flying>>
    BY <2>1 DEF Spawn, wireVars, linkVars, messageVars
  <2>3. \A g \in Lives : process'[g] = process[g] \/ process'[g] = "running"
    BY <2>2 DEF TypeOK
  <2> QED
    BY <2>2, <2>3
<1>2. ASSUME NEW s \in Starters, StartSession(s) \/ Starting(s)
      PROVE  Wired'
  <2>1. UNCHANGED <<process, connected, attached, flying>>
    BY <1>2 DEF StartSession, Starting, LaunchInfo, SpawnFails, GraceEnds, StartFails, StartRetries,
                MetadataDone, wireVars, linkVars, messageVars
  <2> QED
    BY <2>1
<1>3. ASSUME NEW g \in Lives, Exit(g) \/ Break(g)
      PROVE  Wired'
  <2>1. /\ connected' = [connected EXCEPT ![g] = FALSE]
        /\ attached' = [attached EXCEPT ![g] = IF @ = "live" THEN "dead" ELSE @]
        /\ flying' = [flying EXCEPT ![g] = << >>]
        /\ process' = [process EXCEPT ![g] = "exited"] \/ process' = process
    BY <1>3 DEF Exit, Break, Drops
  <2> QED
    BY <2>1 DEF TypeOK
<1>4. ASSUME NEW g \in Lives, HandleProcessExit(g) \/ ExitDrained(g) \/ Reject(g)
      PROVE  Wired'
  <2>1. UNCHANGED <<process, connected, attached, flying>>
    BY <1>4 DEF HandleProcessExit, ExitDrained, Reject, wireVars, linkVars, messageVars
  <2> QED
    BY <2>1
<1>5. ASSUME NEW g \in Lives, Connect(g)
      PROVE  Wired'
  BY <1>5 DEF Connect, TypeOK
<1>6. ASSUME NEW g \in Lives, Receive(g)
      PROVE  Wired'
  BY <1>6 DEF Receive, TypeOK, linkVars
<1>7. CASE StopSession \/ MarkSessionDeleted \/ UnmarkSessionDeleted
  <2>1. UNCHANGED <<connected, attached, flying>>
    BY <1>7 DEF StopSession, MarkSessionDeleted, UnmarkSessionDeleted, wireVars, linkVars, messageVars
  <2>2. \A g \in Lives : process'[g] = process[g] \/ (process[g] = "running" /\ process'[g] = "killed")
    BY <1>7 DEF StopSession, MarkSessionDeleted, UnmarkSessionDeleted, Stop, TypeOK
  <2> QED
    BY <2>1, <2>2
<1>8. CASE Disconnect
  BY <1>8 DEF Disconnect, messageVars, TypeOK
<1>9. CASE SendSdkMessage
  <2>1. /\ UNCHANGED <<process, connected, attached>>
        /\ current \in Lives
        /\ \/ UNCHANGED flying
           \/ attached[current] = "live" /\ flying' = [flying EXCEPT ![current] = Append(@, accepted')]
    BY <1>9 DEF SendSdkMessage, linkVars, TypeOK
  <2> QED
    BY <2>1 DEF TypeOK
<1>10. CASE UNCHANGED vars
  BY <1>10 DEF vars, wireVars, linkVars, messageVars
<1> QED
  BY <1>1, <1>2, <1>3, <1>4, <1>5, <1>6, <1>7, <1>8, <1>9, <1>10 DEF Next, Life

LEMMA StepLifetimes ==
  ASSUME TypeOK, Reports, Lifetimes, [Next]_vars
  PROVE  Lifetimes'
  BY StepLives, StepWired DEF Lifetimes

-----------------------------------------------------------------------------
(* The theorems *)

IInv == TypeOK /\ Reports /\ InOrder /\ Lifetimes

LEMMA StepReports ==
  ASSUME TypeOK, Reports, [Next]_vars
  PROVE  Reports'
<1>1. CASE \E s \in Starters : StartSession(s) \/ Spawn(s) \/ Starting(s)
  BY <1>1, StarterReports DEF OfStarter
<1>2. CASE \E g \in Lives : Life(g)
  BY <1>2, LifeReports
<1>3. CASE Other
  BY <1>3, OtherReports
<1>4. CASE UNCHANGED vars
  BY <1>4 DEF vars, mapVars, startVars, exitVars, wireVars,
              Reports, Owned, Distinct, Unspawned, Sided, Watching
<1> QED
  BY <1>1, <1>2, <1>3, <1>4 DEF Next, Other

LEMMA Invariance == Spec => []IInv
<1>1. Init => IInv
  BY InitTyped, InitReports, InitInOrder, InitLifetimes DEF IInv
<1>2. IInv /\ [Next]_vars => IInv'
  BY Typed, StepReports, StepInOrder, StepLifetimes DEF IInv, Reports
<1> QED
  BY <1>1, <1>2, PTL DEF Spec

\* Every variable keeps its type; in particular startSession() never reports
\* the exit of a session it has not spawned.
THEOREM TypeCorrect == Spec => []TypeOK
<1>1. IInv => TypeOK
  BY DEF IInv
<1> QED
  BY <1>1, Invariance, PTL

\* However many starts overlap, the exit of a process is reported by its
\* startup or by the exit handler, never by both (conversationService.ts:347
\* and :950).
THEOREM OneReport == Spec => []ReportedOnce
<1>1. IInv => ReportedOnce
  BY DEF IInv, TypeOK, Reports, Sided, ReportedOnce
<1> QED
  BY <1>1, Invariance, PTL

\* For any number of messages, connections that break and late closes of old
\* ones, a process gets its messages in the order in which they were accepted
\* (conversationService.ts:664-686 and :925-939).
THEOREM OrderKept == Spec => []MessagesInOrder
<1>1. IInv => MessagesInOrder
  BY WireAscends DEF IInv
<1> QED
  BY <1>1, Invariance, PTL

-----------------------------------------------------------------------------
(* ConversationService implements SessionPort *)

LEMMA InitServes == Init => Port!Init
<1> SUFFICES ASSUME Init PROVE Port!Init
  OBVIOUS
<1> QED
  BY DEF Init, None, Port!Init, Port!None

\* An exit that is reported is one that has happened, and is reported for the
\* first time, by the startup or by the exit handler.
LEMMA FirstReport ==
  ASSUME IInv
  PROVE  /\ \A s \in Starters : pc[s] = "drain" =>
              mine[s] \in {g \in Lives : process[g] = "exited"} \ (thrown \union told)
         /\ \A g \in Lives : exit[g] = "draining" =>
              g \in {h \in Lives : process[h] = "exited"} \ (thrown \union told)
<1> USE DEF IInv, TypeOK
<1>1. ASSUME NEW s \in Starters, pc[s] = "drain"
      PROVE  mine[s] \in {g \in Lives : process[g] = "exited"} \ (thrown \union told)
  <2>1. /\ mine[s] \in 1..spawned /\ startup[mine[s]] /\ mine[s] \notin thrown
        /\ exit[mine[s]] = "handled"
    BY <1>1 DEF Reports, Owned, Watching
  <2>2. mine[s] \in Lives
    BY <2>1, BoundsAssumption DEF Lives
  <2> QED
    BY <2>1, <2>2 DEF Reports, Sided, Lifetimes, Ended
<1>2. ASSUME NEW g \in Lives, exit[g] = "draining"
      PROVE  g \in {h \in Lives : process[h] = "exited"} \ (thrown \union told)
  BY <1>2 DEF Reports, Sided, Lifetimes, Ended
<1> QED
  BY <1>1, <1>2

LEMMA StarterServes ==
  ASSUME IInv, NEW s \in Starters, OfStarter(s)
  PROVE  Port!Next \/ UNCHANGED Port!portVars
<1> USE DEF mapVars, startVars, exitVars, linkVars, messageVars, wireVars
<1>1. CASE Spawn(s)
  <2>1. spawned + 1 \in Lives /\ process[spawned + 1] = "none"
    BY <1>1, BoundsAssumption DEF Spawn, Lives, IInv, TypeOK, Reports, Unspawned
  <2>2. {g \in Lives : process'[g] = "exited"} = {g \in Lives : process[g] = "exited"}
    BY <1>1, <2>1 DEF Spawn, IInv, TypeOK
  <2>3. Port!Begin
    BY <1>1, <2>1, <2>2 DEF Spawn, Port!Begin, Port!messageVars
  <2> QED
    BY <2>3 DEF Port!Next
<1>2. CASE StartFails(s)
  <2>1. /\ thrown' = thrown \union {mine[s]} /\ current' = None
        /\ UNCHANGED <<spawned, process, told, wireVars>>
        /\ pc[s] = "drain"
    BY <1>2 DEF StartFails
  <2>2. mine[s] \in {g \in Lives : process[g] = "exited"} \ (thrown \union told)
    BY <2>1, FirstReport
  <2>3. Port!Report(mine[s]) /\ mine[s] \in Lives
    BY <2>1, <2>2 DEF Port!Report, Port!messageVars, Port!None, None
  <2> QED
    BY <2>3 DEF Port!Next
<1>3. CASE StartRetries(s)
  <2>1. Port!Close
    BY <1>3 DEF StartRetries, Port!Close, Port!messageVars, Port!None, None
  <2> QED
    BY <2>1 DEF Port!Next
<1>4. CASE UNCHANGED <<current, spawned, process, thrown, told, attached, messageVars>>
  BY <1>4 DEF Port!portVars, Port!lifeVars, Port!messageVars
<1> QED
  BY <1>1, <1>2, <1>3, <1>4
     DEF OfStarter, Starting, StartSession, LaunchInfo, SpawnFails, GraceEnds, MetadataDone

\* Of a connection that is over only what was on its way is lost, and the
\* server may have a dead socket.
LEMMA Fallen ==
  ASSUME IInv, NEW g \in Lives, Drops(g)
  PROVE  Port!Fall(g)
<1> DEFINE cut == {h \in Lives : attached[h] = "dead"}
           after == {h \in Lives : attached'[h] = "dead"}
<1>1. attached' = [attached EXCEPT ![g] = IF @ = "live" THEN "dead" ELSE @]
  BY DEF Drops
<1>2. after = cut \/ after = cut \union {g}
  BY <1>1 DEF IInv, TypeOK
<1> QED
  BY <1>2 DEF Drops, Port!Fall

LEMMA LifeServes ==
  ASSUME IInv, NEW g \in Lives, Life(g)
  PROVE  Port!Next \/ UNCHANGED Port!portVars
<1> USE DEF mapVars, startVars, exitVars, linkVars, messageVars, wireVars
<1>1. CASE Exit(g)
  <2>1. g \in 1..spawned
    BY <1>1 DEF Exit, IInv, TypeOK, Lives, Reports, Unspawned
  <2>2. {h \in Lives : process'[h] = "exited"} = {h \in Lives : process[h] = "exited"} \union {g}
    BY <1>1 DEF Exit, IInv, TypeOK
  <2>3. g \notin {h \in Lives : process[h] = "exited"}
    BY <1>1 DEF Exit
  <2>4. Port!Fall(g)
    BY <1>1, Fallen DEF Exit
  <2>5. Port!End(g)
    BY <1>1, <2>1, <2>2, <2>3, <2>4 DEF Exit, Port!End
  <2> QED
    BY <2>5 DEF Port!Next
<1>2. CASE ExitDrained(g)
  <2>1. /\ told' = told \union {g} /\ current' = None /\ exit[g] = "draining"
        /\ UNCHANGED <<spawned, process, thrown, wireVars>>
    BY <1>2 DEF ExitDrained
  <2>2. Port!Report(g)
    BY <2>1, FirstReport DEF Port!Report, Port!messageVars, Port!None, None
  <2> QED
    BY <2>2 DEF Port!Next
<1>3. CASE Connect(g)
  <2>1. /\ process[g] = "running" /\ ~connected[g] /\ current = g /\ g # None
        /\ attached' = [attached EXCEPT ![g] = "live"]
        /\ flying' = [flying EXCEPT ![g] = outbound[g]]
        /\ outbound' = [outbound EXCEPT ![g] = << >>]
        /\ UNCHANGED <<current, spawned, process, thrown, told, accepted, got>>
    BY <1>3 DEF Connect, None, Lives
  <2>2. flying[g] = << >> /\ outbound[g] \in Seq(1..MaxMessages)
    BY <2>1 DEF IInv, Lifetimes, Wired, TypeOK
  <2>3. flying' = [flying EXCEPT ![g] = @ \o outbound[g]]
    BY <2>1, <2>2, ConcatEmptySeq
  <2>4. {h \in Lives : attached'[h] = "dead"} = {h \in Lives : attached[h] = "dead"} \ {g}
    BY <2>1 DEF IInv, TypeOK
  <2>5. Port!HandOver
    BY <2>1, <2>3, <2>4 DEF Port!HandOver, Port!lifeVars, Port!None, None
  <2> QED
    BY <2>5 DEF Port!Next
<1>4. CASE HandleProcessExit(g) \/ Reject(g)
  <2>1. UNCHANGED <<current, spawned, process, thrown, told, attached, messageVars>>
    BY <1>4 DEF HandleProcessExit, Reject
  <2> QED
    BY <2>1 DEF Port!portVars, Port!lifeVars, Port!messageVars
<1>5. CASE Break(g)
  <2>1. process[g] # "none"
    BY <1>5 DEF Break, IInv, Lifetimes, Wired
  <2>2. g \in 1..spawned
    BY <2>1 DEF IInv, TypeOK, Lives, Reports, Unspawned
  <2>3. Port!Cut(g)
    BY <1>5, <2>2, Fallen DEF Break, Port!Cut, Port!lifeVars
  <2> QED
    BY <2>3 DEF Port!Next
<1>6. CASE Receive(g)
  <2>1. process[g] # "exited"
    BY <1>6 DEF Receive, IInv, Lifetimes, Wired
  <2>2. Port!Arrive(g)
    BY <1>6, <2>1 DEF Receive, Port!Arrive, Port!lifeVars
  <2> QED
    BY <2>2 DEF Port!Next
<1> QED
  BY <1>1, <1>2, <1>3, <1>4, <1>5, <1>6 DEF Life

\* A message waits, goes its way on a connection that works, or is lost on a
\* dead socket.
LEMMA SendServes ==
  ASSUME IInv, SendSdkMessage
  PROVE  Port!Next
<1> DEFINE g == current
<1>1. /\ g # None /\ g \in Lives /\ accepted' = accepted + 1
      /\ UNCHANGED <<current, spawned, process, thrown, told, attached, got>>
  BY DEF SendSdkMessage, IInv, TypeOK, mapVars, startVars, exitVars, linkVars
<1>2. Port!Accept
  <2>1. CASE attached[g] = "none"
    BY <1>1, <2>1 DEF SendSdkMessage, Port!Accept, Port!lifeVars, Port!None, None
  <2>2. CASE attached[g] = "live"
    <3>1. outbound[g] = << >> /\ process[g] # "exited"
      BY <1>1, <2>2 DEF IInv, InOrder, Lifetimes, Wired
    <3> QED
      BY <1>1, <2>2, <3>1 DEF SendSdkMessage, Port!Accept, Port!lifeVars, Port!None, None
  <2>3. CASE attached[g] = "dead"
    BY <1>1, <2>3 DEF SendSdkMessage, Port!Accept, Port!lifeVars, Port!None, None
  <2> QED
    BY <1>1, <2>1, <2>2, <2>3 DEF IInv, TypeOK
<1> QED
  BY <1>2 DEF Port!Next

\* The close of any connection of the id lets go of the current socket: one that
\* is dead is noticed, and one that works is only not used any more.
LEMMA DisconnectServes ==
  ASSUME IInv, Disconnect
  PROVE  Port!Next
<1>1. /\ UNCHANGED <<current, spawned, process, thrown, told, messageVars>>
      /\ attached' = IF current = None THEN attached ELSE [attached EXCEPT ![current] = "none"]
  BY DEF Disconnect, mapVars, startVars, exitVars
<1>2. {h \in Lives : attached'[h] = "dead"} = {h \in Lives : attached[h] = "dead"} \ {current}
  BY <1>1 DEF IInv, TypeOK, None, Lives
<1>3. Port!Notice
  BY <1>1, <1>2 DEF Port!Notice, Port!lifeVars, messageVars
<1> QED
  BY <1>3 DEF Port!Next

\* Stopping a session signals its process, which then still has to exit.
LEMMA StopServes ==
  ASSUME IInv, StopSession \/ MarkSessionDeleted \/ UnmarkSessionDeleted
  PROVE  Port!Next \/ UNCHANGED Port!portVars
<1> USE DEF mapVars, startVars, exitVars, linkVars, messageVars, wireVars
<1>1. CASE Stop /\ UNCHANGED <<spawned, thrown, told, wireVars>>
  <2>1. current \in Lives
    BY <1>1 DEF Stop, IInv, TypeOK
  <2>2. {h \in Lives : process'[h] = "exited"} = {h \in Lives : process[h] = "exited"}
    BY <1>1, <2>1 DEF Stop, IInv, TypeOK
  <2>3. Port!Close
    BY <1>1, <2>2 DEF Stop, Port!Close, Port!messageVars, Port!None, None
  <2> QED
    BY <2>3 DEF Port!Next
<1>2. CASE UNCHANGED <<current, spawned, process, thrown, told, attached, messageVars>>
  BY <1>2 DEF Port!portVars, Port!lifeVars, Port!messageVars
<1> QED
  BY <1>1, <1>2 DEF StopSession, MarkSessionDeleted, UnmarkSessionDeleted

LEMMA StepServes ==
  ASSUME IInv, [Next]_vars
  PROVE  Port!Next \/ UNCHANGED Port!portVars
<1>1. CASE UNCHANGED vars
  BY <1>1 DEF vars, mapVars, startVars, exitVars, linkVars, messageVars, wireVars,
              Port!portVars, Port!lifeVars, Port!messageVars
<1> QED
  BY <1>1, StarterServes, LifeServes, SendServes, StopServes, DisconnectServes DEF Next, OfStarter

\* For any number of starters, processes and messages the service keeps what
\* SessionPort promises: a message reaches one life, once at most and in order;
\* what waits is lost with its life only, and what was written only by a broken
\* connection; an end is reported once and not before it.
THEOREM PortServed == Spec => ServesSession
<1>1. Init => Port!Init
  BY InitServes
<1>2. IInv /\ [Next]_vars => [Port!Next]_(Port!portVars)
  BY StepServes
<1> QED
  BY <1>1, <1>2, Invariance, PTL DEF Spec, ServesSession, Port!Spec
=============================================================================
